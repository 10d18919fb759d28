------------------------------ MODULE ShardReader ------------------------------
(***************************************************************************)
(* What holds of extract at all times, wherever its shards come from:      *)
(* stored objects that are being delivered (Restore), or a capture that is *)
(* still writing them (Migration).  str are the chunks of each class, obj  *)
(* the slots of the shards they are spread over, as far as they exist, and *)
(* put how many of those have been put in the pipes.                       *)
(***************************************************************************)
EXTENDS ImageDeserializer, ShardObjects

\* How many slots of a shard the reader has taken.
taken(put, s) == put[s] - Len(pipe[s])

\* Every variable keeps to its type.
ReaderTyped(obj, put) ==
  /\ pipe \in [Shard -> Seq(Slot)]
  /\ ending \in [Shard -> {"open", "eof", "torn"}]
  /\ obj \in [Shard -> Seq(Slot)]
  /\ put \in [Shard -> Nat]
  /\ phase \in {"small", "small_data", "select", "read", "data", "done", "failed"}
  /\ shards \in SUBSET MainShard
  /\ readable_shards \in SUBSET MainShard
  /\ pending_markers \in SUBSET PendingMarker
  /\ picked \in MainShard \cup {None}
  /\ held \in Marker \cup {None}
  /\ next_seq \in [Class -> Nat]
  /\ img \in Image

\* What ShardObjects promises, of streams and shards that may go on: the last
\* slot of a shard may be a marker whose payload is still to come, chunks may
\* be missing, and nothing ends that does not end for good.
FramedSoFar(str, obj, class, s) ==
  \A i \in 1..Len(obj[s]) :
    /\ obj[s][i].kind = "marker" =>
         LET k == obj[s][i].seq + 1
         IN  /\ k \in 1..Len(str[class])
             /\ obj[s][i] = str[class][k].marker
             /\ HasPayload(obj[s][i]) /\ i # Len(obj[s]) =>
                  obj[s][i+1] = MakePayload(str[class][k].data)
    /\ obj[s][i].kind = "payload" =>
         /\ i - 1 \in 1..Len(obj[s])
         /\ obj[s][i-1].kind = "marker"
         /\ HasPayload(obj[s][i-1])

SoFar(str, obj) ==
  /\ str \in [Class -> Seq(Chunk)]
  /\ \A c \in Class : \A k \in 1..Len(str[c]) :
       /\ str[c][k].marker.seq = k - 1
       /\ str[c][k].marker.body = "Filename" <=> str[c][k].marker.file # None
       /\ c = "main" => str[c][k].marker.file # MetadataFile
       /\ c = "small" => str[c][k].marker.body # "ImageEof"
  /\ \/ EndsWithMetadata(str["small"])
     \/ \A k \in 1..Len(str["small"]) : str["small"][k].marker.file # MetadataFile
  /\ \/ EndsWithImageEof(str["main"])
     \/ \A k \in 1..Len(str["main"]) : str["main"][k].marker.body # "ImageEof"
  /\ obj \in [Shard -> Seq(Slot)]
  /\ \A c \in Class : \A s \in ShardsOf(c) : FramedSoFar(str, obj, c, s) /\ Increasing(obj, s)
  /\ NoTwice(obj)

\* The pipes hold, in order, what was put in them and not yet taken.
Fifo(obj, put) ==
  \A s \in Shard :
    /\ put[s] \in 0..Len(obj[s])
    /\ Len(pipe[s]) <= put[s]
    /\ \A i \in 1..Len(pipe[s]) : pipe[s][i] = obj[s][taken(put, s) + i]

\* No shard is lost or used twice: each is in exactly one of the collections of
\* the reader, unless its end of file has been read (the Vec's and the heap of
\* ImageDeserializer, whose shards move at every poll, read and marker).
OfPending == {p.shard : p \in pending_markers}
Gone      == MainShard \ (shards \cup readable_shards \cup OfPending \cup {picked})

ShardsAccounted ==
  /\ shards \cap readable_shards = {}
  /\ (shards \cup readable_shards) \cap (OfPending \cup {picked}) = {}
  /\ picked \notin OfPending
  /\ \A p, q \in pending_markers : p.shard = q.shard => p = q
  /\ Running => (picked # None <=> phase \in {"read", "data"})
  /\ Running => (held # None <=> phase \in {"small_data", "data"})
  /\ phase \in {"small", "small_data"} => shards = MainShard
  /\ \A s \in Gone : AtEof(s)

\* The marker whose payload is being read from s.
HeldFrom(s) ==
  Running /\ held # None /\
    (IF s = SmallShard THEN phase = "small_data" ELSE phase = "data" /\ picked = s)

\* No chunk is lost, taken twice or overtaken: a marker that has been taken is
\* processed, or waits for its turn, or for its payload, and then it is the
\* last one taken from its shard; all others are still to come.
MarkersAccounted(obj, put) ==
  \A c \in Class : \A s \in ShardsOf(c) : \A i \in 1..Len(obj[s]) :
    LET slot == obj[s][i]
    IN  (phase # "failed" /\ slot.kind = "marker") =>
          IF i <= taken(put, s)
          THEN \/ slot.seq < next_seq[c]
               \/ i = taken(put, s) /\ s # SmallShard
                   /\ [marker |-> slot, shard |-> s] \in pending_markers
               \/ i = taken(put, s) /\ HeldFrom(s) /\ slot = held
          ELSE slot.seq >= next_seq[c]

\* What has been applied was in a shard.
Behind(obj) ==
  \A c \in Class : \A n \in 0..(next_seq[c] - 1) :
    \E s \in ShardsOf(c) : \E i \in 1..Len(obj[s]) :
      obj[s][i].kind = "marker" /\ obj[s][i].seq = n

\* A payload is next in a shard exactly when its marker has been taken and not
\* processed: the bytes of a payload are never read as a marker.
FramingKept(obj, put) ==
  /\ \A p \in pending_markers :
       /\ taken(put, p.shard) > 0 /\ p.marker = obj[p.shard][taken(put, p.shard)]
       /\ p.marker.seq >= next_seq["main"]
  /\ \A s \in Shard :
       HeldFrom(s) => /\ HasPayload(held)
                      /\ img.current_img_file # None
                      /\ taken(put, s) > 0 /\ held = obj[s][taken(put, s)]
                      /\ held.seq = next_seq[IF s = SmallShard THEN "small" ELSE "main"]
  /\ \A s \in Shard \ OfPending :
       (phase # "failed" /\ ~HeldFrom(s) /\ taken(put, s) > 0) =>
         ~(obj[s][taken(put, s)].kind = "marker" /\ HasPayload(obj[s][taken(put, s)]))

\* Where the small and the large files end in terms of what has been applied.
EndsReached(str) ==
  /\ img.metadata # None =>
       EndsWithMetadata(str["small"]) /\ next_seq["small"] >= Len(str["small"]) - 1
  /\ img.current_img_file = MetadataFile =>
       EndsWithMetadata(str["small"]) /\ next_seq["small"] >= Len(str["small"]) - 2
  /\ img.image_eof =>
       EndsWithImageEof(str["main"]) /\ next_seq["main"] >= Len(str["main"])
  /\ \A c \in Class : next_seq[c] <= Len(str[c])
  /\ phase \in {"small", "small_data"} => next_seq["main"] = 0 /\ ~img.image_eof
  /\ phase \in {"select", "read", "data", "done"} => img.metadata # None
  /\ phase = "done" => img.image_eof

Reading(str, obj, put) ==
  /\ ReaderTyped(obj, put)
  /\ SoFar(str, obj)
  /\ Fifo(obj, put)
  /\ ShardsAccounted
  /\ MarkersAccounted(obj, put)
  /\ Behind(obj)
  /\ FramingKept(obj, put)
  /\ EndsReached(str)
=============================================================================
