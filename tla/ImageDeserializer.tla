--------------------------- MODULE ImageDeserializer ---------------------------
(***************************************************************************)
(* The extract side: one thread that drains the small file shard to its    *)
(* end, then reads markers from the main shards in whatever order they     *)
(* become readable and processes them in the order of their sequence       *)
(* numbers.  A main shard is at any time in exactly one of the collections *)
(* shards, readable_shards and pending_markers, or in the hands of the     *)
(* thread (picked), or given up after its end of file.                     *)
(***************************************************************************)
EXTENDS ShardPipes

VARIABLES phase,            \* where the thread is
          shards,           \* may not be readable yet
          readable_shards,  \* reported readable by the last poll()
          pending_markers,  \* markers read ahead of their turn, with their shards
          picked,           \* the shard being read from
          held,             \* the FileData marker whose payload is being read
          next_seq,         \* small_file_seq and seq
          img               \* the image rebuilt so far

deserializerVars ==
  <<phase, shards, readable_shards, pending_markers, picked, held, next_seq, img>>

PendingMarker == [marker : Marker, shard : MainShard]

DeserializerInit ==
  /\ phase = "small"
  /\ shards = MainShard
  /\ readable_shards = {}
  /\ pending_markers = {}
  /\ picked = None
  /\ held = None
  /\ next_seq = [c \in Class |-> 0]
  /\ img = EmptyImage

Running == phase \notin {"done", "failed"}

\* An error of any call unwinds to the caller of the deserializer.
Fail ==
  /\ phase' = "failed"
  /\ UNCHANGED <<ending, shards, readable_shards, pending_markers, picked, held,
                 next_seq, img>>

Advance(class) == next_seq' = [next_seq EXCEPT ![class] = @ + 1]

-----------------------------------------------------------------------------
\* drain_small_file_shard() and process_small_file_marker().

SmallMarkerOk(slot) ==
  /\ slot.kind = "marker"
  /\ slot.seq = next_seq["small"]
  /\ CanApply("small", img, slot)

\* A marker without payload takes effect at once.
SmallControl ==
  /\ phase = "small"
  /\ pipe[SmallShard] # << >>
  /\ LET slot == Head(pipe[SmallShard])
     IN  /\ SmallMarkerOk(slot)
         /\ ~HasPayload(slot)
         /\ img' = Apply("small", img, slot, << >>)
  /\ Take(SmallShard)
  /\ Advance("small")
  /\ UNCHANGED <<ending, phase, shards, readable_shards, pending_markers, picked, held>>

SmallDataMarker ==
  /\ phase = "small"
  /\ pipe[SmallShard] # << >>
  /\ SmallMarkerOk(Head(pipe[SmallShard]))
  /\ HasPayload(Head(pipe[SmallShard]))
  /\ Take(SmallShard)
  /\ held' = Head(pipe[SmallShard])
  /\ phase' = "small_data"
  /\ UNCHANGED <<ending, shards, readable_shards, pending_markers, picked, next_seq, img>>

SmallData ==
  /\ phase = "small_data"
  /\ HasSlot(SmallShard, "payload")
  /\ img' = Apply("small", img, held, Head(pipe[SmallShard]).data)
  /\ Take(SmallShard)
  /\ Advance("small")
  /\ held' = None
  /\ phase' = "small"
  /\ UNCHANGED <<ending, shards, readable_shards, pending_markers, picked>>

\* A failed assertion or an error while processing a marker of the small shard.
SmallReject ==
  /\ phase = "small"
  /\ pipe[SmallShard] # << >>
  /\ ~SmallMarkerOk(Head(pipe[SmallShard]))
  /\ Take(SmallShard)
  /\ Fail

\* The shard ends inside a marker or a payload, or before the metadata.
SmallShort ==
  /\ pipe[SmallShard] = << >>
  /\ ending[SmallShard] # "open"
  /\ phase \in {"small", "small_data"}
  /\ (phase = "small" /\ AtEof(SmallShard)) => img.metadata = None
  /\ Fail
  /\ UNCHANGED pipe

SmallEof ==
  /\ phase = "small"
  /\ AtEof(SmallShard)
  /\ img.metadata # None
  /\ phase' = "select"
  /\ UNCHANGED <<pipe, ending, shards, readable_shards, pending_markers, picked, held,
                 next_seq, img>>

-----------------------------------------------------------------------------
\* get_next_readable_shard().

\* Mutant: the heap's top is taken whatever its number.
InOrder_AnyTop == {p \in pending_markers : p.marker.seq >= next_seq["main"]}

\* process_pending_markers() runs before a shard is selected again.
InOrder == {p \in pending_markers : p.marker.seq = next_seq["main"]}

Selecting == phase = "select" /\ InOrder = {}

\* poll() blocks until a shard is readable; all those that are move over.
PollShards ==
  /\ Selecting
  /\ readable_shards = {}
  /\ \A s \in MainShard : shards # {s}
  /\ LET ready == {s \in shards : Readable(s)}
     IN  /\ ready # {}
         /\ readable_shards' = ready
         /\ shards' = shards \ ready
  /\ UNCHANGED <<pipe, ending, phase, pending_markers, picked, held, next_seq, img>>

\* Mutant: the shard is read without being taken out of readable_shards.
PopReadable_Kept(s) ==
  /\ Selecting
  /\ s \in readable_shards
  /\ picked' = s
  /\ phase' = "read"
  /\ UNCHANGED <<pipe, ending, shards, readable_shards, pending_markers, held, next_seq,
                 img>>

PopReadable(s) ==
  /\ Selecting
  /\ s \in readable_shards
  /\ readable_shards' = readable_shards \ {s}
  /\ picked' = s
  /\ phase' = "read"
  /\ UNCHANGED <<pipe, ending, shards, pending_markers, held, next_seq, img>>

\* A single shard left is read without asking whether it is readable.
PopLoneShard(s) ==
  /\ Selecting
  /\ readable_shards = {}
  /\ shards = {s}
  /\ shards' = {}
  /\ picked' = s
  /\ phase' = "read"
  /\ UNCHANGED <<pipe, ending, readable_shards, pending_markers, held, next_seq, img>>

\* Mutant: Ok(()) without asking for ImageEof.
ReturnFromDrainAll_NoCheck ==
  /\ Selecting
  /\ shards = {}
  /\ readable_shards = {}
  /\ phase' = "done"
  /\ UNCHANGED <<pipe, ending, shards, readable_shards, pending_markers, picked, held,
                 next_seq, img>>

\* No shard left to read from: drain_all() returns.
ReturnFromDrainAll ==
  /\ Selecting
  /\ shards = {}
  /\ readable_shards = {}
  /\ phase' = IF img.image_eof THEN "done" ELSE "failed"
  /\ UNCHANGED <<pipe, ending, shards, readable_shards, pending_markers, picked, held,
                 next_seq, img>>

-----------------------------------------------------------------------------
\* drain_shard() and process_marker(); reading blocks on an empty open pipe.

\* The marker waits in pending_markers for its turn.  A payload where a marker is
\* due does not decode, and no marker may follow ImageEof.
ReadMarker ==
  /\ phase = "read"
  /\ pipe[picked] # << >>
  /\ Take(picked)
  /\ IF HasSlot(picked, "marker") /\ ~img.image_eof
     THEN /\ pending_markers' = pending_markers \cup
                                  {[marker |-> Head(pipe[picked]), shard |-> picked]}
          /\ picked' = None
          /\ phase' = "select"
          /\ UNCHANGED <<ending, shards, readable_shards, held, next_seq, img>>
     ELSE Fail

\* Mutant: a shard at its end of file goes back to the shards to poll.
ReadEof_PushedBack ==
  /\ phase = "read"
  /\ AtEof(picked)
  /\ shards' = shards \cup {picked}
  /\ picked' = None
  /\ phase' = "select"
  /\ UNCHANGED <<pipe, ending, readable_shards, pending_markers, held, next_seq, img>>

\* The shard is given up: it goes back to none of the collections.
ReadEof ==
  /\ phase = "read"
  /\ AtEof(picked)
  /\ picked' = None
  /\ phase' = "select"
  /\ UNCHANGED <<pipe, ending, shards, readable_shards, pending_markers, held, next_seq, img>>

\* The end of a shard comes inside a marker, or where a payload is due.
ReadShort ==
  /\ \/ phase = "read" /\ AtTear(picked)
     \/ phase = "data" /\ (AtEof(picked) \/ AtTear(picked))
  /\ Fail
  /\ UNCHANGED pipe

\* mark_image_eof() also refuses markers read ahead of it.
MarkerOk(p) ==
  /\ CanApply("main", img, p.marker)
  /\ p.marker.body = "ImageEof" => pending_markers = {p}

ProcessControl(p) ==
  /\ phase = "select"
  /\ p \in InOrder
  /\ MarkerOk(p)
  /\ ~HasPayload(p.marker)
  /\ pending_markers' = pending_markers \ {p}
  /\ img' = Apply("main", img, p.marker, << >>)
  /\ Advance("main")
  /\ shards' = shards \cup {p.shard}
  /\ UNCHANGED <<pipe, ending, phase, readable_shards, picked, held>>

ProcessDataMarker(p) ==
  /\ phase = "select"
  /\ p \in InOrder
  /\ MarkerOk(p)
  /\ HasPayload(p.marker)
  /\ pending_markers' = pending_markers \ {p}
  /\ picked' = p.shard
  /\ held' = p.marker
  /\ phase' = "data"
  /\ UNCHANGED <<pipe, ending, shards, readable_shards, next_seq, img>>

ProcessData ==
  /\ phase = "data"
  /\ HasSlot(picked, "payload")
  /\ img' = Apply("main", img, held, Head(pipe[picked]).data)
  /\ Take(picked)
  /\ Advance("main")
  /\ shards' = shards \cup {picked}
  /\ picked' = None
  /\ held' = None
  /\ phase' = "select"
  /\ UNCHANGED <<ending, readable_shards, pending_markers>>

ProcessReject(p) ==
  /\ phase = "select"
  /\ p \in InOrder
  /\ ~MarkerOk(p)
  /\ Fail
  /\ UNCHANGED pipe

DeserializerNext ==
  \/ SmallControl \/ SmallDataMarker \/ SmallData
  \/ SmallReject \/ SmallShort \/ SmallEof
  \/ PollShards \/ ReturnFromDrainAll
  \/ \E s \in MainShard : PopReadable(s) \/ PopLoneShard(s)
  \/ ReadMarker \/ ReadEof \/ ReadShort \/ ProcessData
  \/ \E p \in pending_markers :
       ProcessControl(p) \/ ProcessDataMarker(p) \/ ProcessReject(p)
=============================================================================
