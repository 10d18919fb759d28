------------------------------ MODULE StreamProofs ------------------------------
(***************************************************************************)
(* Proof that capture leaves in the shards what extract relies on, for     *)
(* every set of files and main shards, every size of the files, of the     *)
(* pipes and of a chunk, and any shard write_chunk() picks.                *)
(***************************************************************************)
EXTENDS CaptureLoop, DataLemmas, SequenceTheorems, TLAPS

\* A chunk that its class may carry.
Proper(class, ch) ==
  /\ ch \in Chunk
  /\ ch.marker.body = "Filename" <=> ch.marker.file # None
  /\ class = "main" => ch.marker.file # MetadataFile
  /\ class = "small" => ch.marker.body # "ImageEof"
  /\ ~HasPayload(ch.marker) => ch.data = << >>

\* str holds the chunks that have been numbered.
Streams(str) ==
  /\ str \in [Class -> Seq(Chunk)]
  /\ \A c \in Class :
       /\ Len(str[c]) = seq[c]
       /\ \A k \in 1..Len(str[c]) : str[c][k].marker.seq = k - 1 /\ Proper(c, str[c][k])

\* The metadata and ImageEof come last, and when capture() has ended.
Ends(str) ==
  /\ finished => EndsWithMetadata(str["small"]) /\ EndsWithImageEof(str["main"])
  /\ ~finished =>
       /\ \A k \in 1..Len(str["small"]) : str["small"][k].marker.file # MetadataFile
       /\ \A k \in 1..Len(str["main"]) : str["main"][k].marker.body # "ImageEof"

\* Those still to be written are in outbox, the payload of the first perhaps
\* all there is left of it.  put is what has ever been put in the pipes: what
\* they hold, as long as nobody reads them.
Entry == [class : Class, marker : Marker, data : Seq(Data)]

Queued(str, put) ==
  /\ outbox \in Seq(Entry)
  /\ \A k \in 1..Len(outbox) :
       LET c == outbox[k].class
           n == outbox[k].marker.seq + 1
       IN  /\ n \in 1..Len(str[c])
           /\ outbox[k].marker = str[c][n].marker
           /\ outbox[k].data = str[c][n].data
  /\ \A j, k \in 1..Len(outbox) :
       j < k /\ outbox[j].class = outbox[k].class => outbox[j].marker.seq < outbox[k].marker.seq
  /\ target # None =>
       /\ outbox # << >>
       /\ target \in ShardsOf(outbox[1].class)
       /\ put[target] # << >>
       /\ put[target][Len(put[target])] = outbox[1].marker
       /\ HasPayload(outbox[1].marker)

\* The entries whose marker is not written.
Unwritten == {k \in 1..Len(outbox) : k > 1 \/ target = None}

\* What is in the pipes is chunks of their classes, whole but for that payload.
Placed(str, put) ==
  /\ put \in [Shard -> Seq(Slot)]
  /\ \A c \in Class : \A s \in ShardsOf(c) : \A i \in 1..Len(put[s]) :
       /\ put[s][i].kind = "marker" =>
            LET n == put[s][i].seq + 1
            IN  /\ n \in 1..Len(str[c])
                /\ put[s][i] = str[c][n].marker
                /\ HasPayload(put[s][i]) /\ i = Len(put[s]) => target = s
                /\ HasPayload(put[s][i]) /\ i # Len(put[s]) =>
                     put[s][i+1] = MakePayload(str[c][n].data)
       /\ put[s][i].kind = "payload" =>
            /\ i - 1 \in 1..Len(put[s])
            /\ put[s][i-1].kind = "marker"
            /\ HasPayload(put[s][i-1])

\* The numbers increase within a shard, and on to outbox.
Ordered(put) ==
  /\ \A s \in Shard : Increasing(put, s)
  /\ NoTwice(put)
  /\ \A c \in Class : \A s \in ShardsOf(c) : \A i \in 1..Len(put[s]) : \A k \in Unwritten :
       put[s][i].kind = "marker" /\ outbox[k].class = c
         => put[s][i].seq < outbox[k].marker.seq

\* No chunk is missing.
Complete(str, put) ==
  \A c \in Class : \A n \in 1..Len(str[c]) :
    \/ \E s \in ShardsOf(c) : \E i \in 1..Len(put[s]) : put[s][i] = str[c][n].marker
    \/ \E k \in Unwritten : outbox[k].class = c /\ outbox[k].marker.seq = n - 1

Carried(str, put) ==
  Streams(str) /\ Queued(str, put) /\ Placed(str, put) /\ Ordered(put) /\ Complete(str, put)

LoopTyped ==
  /\ writer \in [File -> {"none", "open", "closed"}]
  /\ file_state \in [File -> {"absent", "open", "removed"}]
  /\ produced \in [File -> 0..MaxSize]
  /\ drained \in [File -> 0..MaxSize]
  /\ \A f \in File : drained[f] <= produced[f]
  /\ current_filename \in File \cup {None}
  /\ seq \in [Class -> Nat]
  /\ metadata \in Seq(File)
  /\ target \in Shard \cup {None}
  /\ finished \in BOOLEAN
  /\ ending \in [Shard -> {"open", "eof"}]
  /\ expecting \in BOOLEAN
  /\ finished => ~expecting /\ \A f \in File : file_state[f] # "open"

-----------------------------------------------------------------------------
\* What the chunks numbered so far make of an image when they are replayed.

\* The files begun, and those of a class.
Begun(img) == img.img_files \cup ({img.current_img_file} \ {None})

OfClass(c) == {f \in File : ClassOf(f) = c}

\* The first units of a file.
UnitsTo(f, n) == [i \in 1..n |-> <<f, i>>]

\* An image no chunk of a class has touched.
Fresh(x) == x \in Image /\ x.current_img_file = None /\ x.img_files = {}

\* What an image has become of x by replaying the chunks of a class so far.
Effect(c, x, r) ==
  /\ r \in Image
  /\ r.current_img_file \notin r.img_files
  /\ Begun(r) = {f \in OfClass(c) : file_state[f] = "open" /\ drained[f] > 0}
  /\ r.inserted = x.inserted \cup {f \in OfClass(c) : file_state[f] = "removed"}
  /\ \A f \in OfClass(c) :
       /\ file_state[f] = "removed" \/ drained[f] > 0 => r.content[f] = UnitsTo(f, drained[f])
       /\ current_filename = f /\ file_state[f] = "open" => r.current_img_file = f
  /\ \A f \in File \ OfClass(c) : r.content[f] = x.content[f]
  /\ r.metadata = IF finished /\ c = "small" THEN metadata ELSE x.metadata
  /\ r.image_eof = IF finished /\ c = "main" THEN TRUE ELSE x.image_eof

\* What replaying one more chunk makes of an image.
Applied(c, image, ch) ==
  IF image # None /\ CanApply(c, image, ch.marker)
  THEN Apply(c, image, ch.marker, ch.data) ELSE None

\* What it has become of x by replaying some of them, from the first on: each
\* file has a first part of what was drained of it, all of that once it was handed
\* over, and what it had before as long as no chunk names it.
Partial(c, x, r) ==
  /\ r \in Image
  /\ \A f \in OfClass(c) :
       /\ r.content[f] = x.content[f] \/ \E n \in 0..drained[f] : r.content[f] = UnitsTo(f, n)
       /\ f \in r.inserted \ x.inserted =>
            file_state[f] = "removed" /\ r.content[f] = UnitsTo(f, drained[f])
       /\ f \notin r.inserted \cup Begun(r) => r.content[f] = x.content[f]
  /\ \A f \in File \ OfClass(c) : r.content[f] = x.content[f]
  /\ \A f \in FileName \ OfClass(c) : f \in r.inserted <=> f \in x.inserted

\* at[n] is the image x after the first n chunks of q.
Replaying(at, c, x, q) ==
  /\ at[0] = x
  /\ at[Len(q)] = ReplayChunks(c, x, q)
  /\ \A n \in 0..(Len(q) - 1) : at[n + 1] = Applied(c, at[n], q[n + 1])

Growing(c, x, q) ==
  \E at : Replaying(at, c, x, q) /\ \A n \in 0..Len(q) : Partial(c, x, at[n])

Replays(str) ==
  \A c \in Class : \A x :
    Fresh(x) => Effect(c, x, ReplayChunks(c, x, str[c])) /\ Growing(c, x, str[c])

\* What the states of the files have to do with each other.
Sides ==
  /\ \A f \in File :
       /\ writer[f] = "none" => file_state[f] = "absent"
       /\ file_state[f] = "absent" => drained[f] = 0
       /\ file_state[f] = "removed" => writer[f] = "closed" /\ drained[f] = produced[f]
  /\ current_filename # None => file_state[current_filename] # "absent"

LoopInv ==
  /\ LoopTyped
  /\ Sides
  /\ \E str : Carried(str, pipe) /\ Ends(str) /\ Replays(str)

-----------------------------------------------------------------------------
\* When all is written the shards are what extract relies on.

LEMMA SlotKinds ==
  /\ \A slot \in Slot : slot.kind = "marker" => slot \in Marker
  /\ \A slot \in Slot : slot.kind = "payload" => slot \in Payload
  /\ \A slot \in Slot : slot.kind \in {"marker", "payload"}
  /\ \A m \in Marker : m.kind = "marker"
  /\ \A p \in Payload : p.kind = "payload"
BY DEF Slot, Marker, Payload

LEMMA ShardsAre ==
  /\ \A c \in Class : ShardsOf(c) \subseteq Shard
  /\ \A s \in Shard : \E c \in Class : s \in ShardsOf(c)
  /\ \A s \in MainShard : s \in ShardsOf("main")
  /\ \A c, d \in Class : \A s \in ShardsOf(c) : s \in ShardsOf(d) => c = d
  /\ None \notin Shard
BY ShardAssumption DEF ShardsOf, Shard, Class

LEMMA WrittenIs ==
  ASSUME NEW str, Carried(str, pipe), Idle
  PROVE  /\ Written = str
         /\ \A c \in Class : Numbers(c) = 0..(seq[c] - 1)
         /\ Spreads(str, pipe)
<1>1. /\ str \in [Class -> Seq(Chunk)]
      /\ \A c \in Class : Len(str[c]) \in Nat /\ Len(str[c]) = seq[c]
      /\ \A c \in Class : \A k \in 1..Len(str[c]) :
           /\ str[c][k].marker.seq = k - 1
           /\ str[c][k] \in Chunk
           /\ ~HasPayload(str[c][k].marker) => str[c][k].data = << >>
  BY DEF Carried, Streams, Proper
<1>2. pipe \in [Shard -> Seq(Slot)] /\ target = None /\ Unwritten = {}
  BY DEF Carried, Placed, Queued, Idle, Unwritten
<1>3. ASSUME NEW c \in Class, NEW s \in ShardsOf(c), NEW i \in 1..Len(pipe[s])
      PROVE  /\ pipe[s] \in Seq(Slot) /\ pipe[s][i] \in Slot
             /\ pipe[s][i].kind = "marker" =>
                  LET k == pipe[s][i].seq + 1
                  IN  /\ k \in 1..Len(str[c])
                      /\ pipe[s][i] = str[c][k].marker
                      /\ HasPayload(pipe[s][i]) =>
                           /\ i + 1 \in 1..Len(pipe[s]) /\ i < Len(pipe[s])
                           /\ pipe[s][i+1] = MakePayload(str[c][k].data)
             /\ pipe[s][i].kind = "payload" =>
                  /\ i - 1 \in 1..Len(pipe[s])
                  /\ pipe[s][i-1].kind = "marker"
                  /\ HasPayload(pipe[s][i-1])
  <2>1. s \in Shard /\ s # None
    BY ShardsAre
  <2>2. pipe[s] \in Seq(Slot) /\ pipe[s][i] \in Slot /\ Len(pipe[s]) \in Nat
    BY <1>2, <2>1
  <2>3. i # Len(pipe[s]) => i + 1 \in 1..Len(pipe[s]) /\ i < Len(pipe[s])
    BY <2>2
  <2> QED BY <1>2, <2>1, <2>2, <2>3 DEF Carried, Placed
<1>4. ASSUME NEW c \in Class, NEW n \in 1..Len(str[c])
      PROVE  \E s \in ShardsOf(c) : \E i \in 1..Len(pipe[s]) : pipe[s][i] = str[c][n].marker
  BY <1>2 DEF Carried, Complete
<1>5. ASSUME NEW c \in Class
      PROVE  \A at : at \in MarkersOf(c) <=>
                       \E s \in ShardsOf(c) : \E i \in 1..Len(pipe[s]) :
                         at = <<s, i>> /\ pipe[s][i].kind = "marker"
  BY DEF MarkersOf
<1>6. ASSUME NEW c \in Class, NEW k \in 1..Len(str[c]), NEW at,
             at = CHOOSE a \in MarkersOf(c) : pipe[a[1]][a[2]].seq = k - 1
      PROVE  ChunkAt(at[1], at[2]) = str[c][k]
  <2>1. PICK s \in ShardsOf(c) : \E i \in 1..Len(pipe[s]) : pipe[s][i] = str[c][k].marker
    BY <1>4
  <2>2. PICK i \in 1..Len(pipe[s]) : pipe[s][i] = str[c][k].marker
    BY <2>1
  <2>3. str[c][k].marker \in Marker /\ str[c][k].marker.seq = k - 1
    BY <1>1 DEF Chunk
  <2>4. <<s, i>> \in MarkersOf(c) /\ pipe[s][i].seq = k - 1
    BY <2>2, <2>3, <1>5, SlotKinds
  <2>5. at \in MarkersOf(c) /\ pipe[at[1]][at[2]].seq = k - 1
    <3> DEFINE P(a) == pipe[a[1]][a[2]].seq = k - 1
    <3>1. \E a \in MarkersOf(c) : P(a)
      BY <2>4
    <3>2. at = CHOOSE a \in MarkersOf(c) : P(a)
      BY <1>6
    <3> HIDE DEF P
    <3>3. at \in MarkersOf(c) /\ P(at)
      BY <3>1, <3>2
    <3> QED BY <3>3 DEF P
  <2>6. PICK t \in ShardsOf(c) : \E j \in 1..Len(pipe[t]) :
          at = <<t, j>> /\ pipe[t][j].kind = "marker"
    BY <2>5, <1>5
  <2>7. PICK j \in 1..Len(pipe[t]) : at = <<t, j>> /\ pipe[t][j].kind = "marker"
    BY <2>6
  <2>8. pipe[t][j].seq = k - 1 /\ pipe[t][j].seq + 1 = k
    BY <2>5, <2>7
  <2>9. /\ pipe[t][j] = str[c][k].marker
        /\ HasPayload(pipe[t][j]) =>
             j < Len(pipe[t]) /\ pipe[t][j+1] = MakePayload(str[c][k].data)
    BY <2>7, <2>8, <1>3
  <2>10. ChunkAt(t, j) = [marker |-> str[c][k].marker, data |-> str[c][k].data]
    BY <2>9, <1>1 DEF ChunkAt, MakePayload
  <2>11. str[c][k] = [marker |-> str[c][k].marker, data |-> str[c][k].data]
    BY <1>1 DEF Chunk
  <2> QED BY <2>7, <2>10, <2>11
<1>7. Written = str
  <2>1. \A c \in Class : Written[c] = str[c]
    <3> SUFFICES ASSUME NEW c \in Class
                 PROVE  Written[c] = str[c]
      OBVIOUS
    <3>1. Written[c] = [k \in 1..Len(str[c]) |-> str[c][k]]
      BY <1>1, <1>6 DEF Written
    <3>2. str[c] = [k \in 1..Len(str[c]) |-> str[c][k]]
      BY <1>1
    <3> QED BY <3>1, <3>2
  <2>2. Written = [c \in Class |-> Written[c]] /\ str = [c \in Class |-> str[c]]
    BY <1>1 DEF Written
  <2> QED BY <2>1, <2>2
<1>8. ASSUME NEW c \in Class
      PROVE  Numbers(c) = 0..(seq[c] - 1)
  <2>1. ASSUME NEW at \in MarkersOf(c)
        PROVE  pipe[at[1]][at[2]].seq \in 0..(seq[c] - 1)
    <3>1. PICK s \in ShardsOf(c) : \E i \in 1..Len(pipe[s]) :
            at = <<s, i>> /\ pipe[s][i].kind = "marker"
      BY <1>5
    <3>2. PICK i \in 1..Len(pipe[s]) : at = <<s, i>> /\ pipe[s][i].kind = "marker"
      BY <3>1
    <3>3. pipe[s][i].seq \in Nat /\ pipe[s][i].seq + 1 \in 1..Len(str[c])
      BY <3>2, <1>3, SlotKinds DEF Marker
    <3> QED BY <3>2, <3>3, <1>1
  <2>2. ASSUME NEW n \in 0..(seq[c] - 1)
        PROVE  \E at \in MarkersOf(c) : pipe[at[1]][at[2]].seq = n
    <3>1. n + 1 \in 1..Len(str[c])
      BY <1>1
    <3>2. PICK s \in ShardsOf(c) : \E i \in 1..Len(pipe[s]) : pipe[s][i] = str[c][n + 1].marker
      BY <3>1, <1>4
    <3>3. PICK i \in 1..Len(pipe[s]) : pipe[s][i] = str[c][n + 1].marker
      BY <3>2
    <3>4. str[c][n + 1].marker \in Marker /\ str[c][n + 1].marker.seq = n
      BY <3>1, <1>1 DEF Chunk
    <3>5. <<s, i>> \in MarkersOf(c)
      BY <3>3, <3>4, <1>5, SlotKinds
    <3> QED BY <3>3, <3>4, <3>5
  <2> QED BY <2>1, <2>2 DEF Numbers
<1>9. Spreads(str, pipe)
  <2>1. \A c \in Class : \A s \in ShardsOf(c) : Framed(str, pipe, c, s)
    BY <1>3 DEF Framed
  <2>2. \A c \in Class : \A s \in ShardsOf(c) : Increasing(pipe, s)
    BY ShardsAre DEF Carried, Ordered
  <2>3. \A c \in Class : Covers(str, pipe, c)
    BY <1>4 DEF Covers
  <2>4. NoTwice(pipe)
    BY DEF Carried, Ordered
  <2> QED BY <1>2, <2>1, <2>2, <2>3, <2>4 DEF Spreads
<1> QED BY <1>7, <1>8, <1>9

LEMMA InvWellFormed ==
  ASSUME LoopInv
  PROVE  ShardsWellFormed
<1> SUFFICES ASSUME AllWritten
             PROVE  /\ \A c \in Class : Numbers(c) = 0..(seq[c] - 1)
                    /\ WellFormed(Written)
                    /\ Spreads(Written, pipe)
  BY DEF ShardsWellFormed
<1>1. PICK str : Carried(str, pipe) /\ Ends(str)
  BY DEF LoopInv
<1>2. finished /\ Idle
  BY DEF AllWritten
<1>3. WellFormed(str)
  <2>1. EndsWithMetadata(str["small"]) /\ EndsWithImageEof(str["main"])
    BY <1>1, <1>2 DEF Ends
  <2> QED BY <1>1, <2>1 DEF Carried, Streams, Proper, WellFormed
<1> QED BY <1>1, <1>2, <1>3, WrittenIs

-----------------------------------------------------------------------------
\* What is in the pipes after a slot was written.
LEMMA PutPipe ==
  ASSUME NEW put \in [Shard -> Seq(Slot)], NEW w \in Shard, NEW slot \in Slot, NEW wrote,
         wrote = [put EXCEPT ![w] = Append(@, slot)]
  PROVE  /\ wrote \in [Shard -> Seq(Slot)]
         /\ \A s \in Shard : Len(put[s]) \in Nat
         /\ \A s \in Shard : s # w => wrote[s] = put[s]
         /\ Len(wrote[w]) = Len(put[w]) + 1
         /\ wrote[w] # << >>
         /\ wrote[w][Len(put[w]) + 1] = slot
         /\ \A s \in Shard : \A i \in 1..Len(put[s]) :
              i \in 1..Len(wrote[s]) /\ wrote[s][i] = put[s][i]
         /\ \A s \in Shard : \A i \in 1..Len(wrote[s]) :
              \/ i \in 1..Len(put[s])
              \/ s = w /\ i = Len(put[w]) + 1
<1>1. wrote = [put EXCEPT ![w] = Append(@, slot)]
  OBVIOUS
<1>2. \A s \in Shard : put[s] \in Seq(Slot) /\ Len(put[s]) \in Nat
  OBVIOUS
<1>3. /\ wrote \in [Shard -> Seq(Slot)]
      /\ wrote[w] = Append(put[w], slot)
      /\ \A s \in Shard : s # w => wrote[s] = put[s]
  BY <1>1, <1>2
<1>4. /\ Len(wrote[w]) = Len(put[w]) + 1
      /\ wrote[w] # << >>
      /\ wrote[w][Len(put[w]) + 1] = slot
      /\ \A i \in 1..Len(put[w]) : i \in 1..Len(wrote[w]) /\ wrote[w][i] = put[w][i]
      /\ \A i \in 1..Len(wrote[w]) : i \in 1..Len(put[w]) \/ i = Len(put[w]) + 1
  BY <1>2, <1>3
<1> QED BY <1>2, <1>3, <1>4

\* The head of outbox, and what is behind it.
LEMMA HeadOfOutbox ==
  ASSUME NEW str, NEW put, Carried(str, put), outbox # << >>
  PROVE  /\ Len(outbox) \in Nat /\ 1 \in 1..Len(outbox)
         /\ Head(outbox) = outbox[1]
         /\ outbox[1].class \in Class
         /\ outbox[1].marker \in Marker /\ outbox[1].marker.kind = "marker"
         /\ outbox[1].data \in Seq(Data)
         /\ Tail(outbox) \in Seq(Entry) /\ Len(Tail(outbox)) = Len(outbox) - 1
         /\ \A k \in 1..(Len(outbox) - 1) :
              k + 1 \in 1..Len(outbox) /\ Tail(outbox)[k] = outbox[k + 1]
<1>1. outbox \in Seq(Entry)
  BY DEF Carried, Queued
<1>2. outbox[1] \in Entry /\ Len(outbox) \in Nat /\ 1 \in 1..Len(outbox)
  BY <1>1
<1>3. /\ outbox[1].class \in Class /\ outbox[1].marker \in Marker
      /\ outbox[1].data \in Seq(Data)
  BY <1>2 DEF Entry
<1>4. outbox[1].marker.kind = "marker"
  BY <1>3, SlotKinds
<1>5. /\ Head(outbox) = outbox[1]
      /\ Tail(outbox) \in Seq(Entry) /\ Len(Tail(outbox)) = Len(outbox) - 1
      /\ \A k \in 1..(Len(outbox) - 1) : k + 1 \in 1..Len(outbox) /\ Tail(outbox)[k] = outbox[k + 1]
  BY <1>1
<1> QED BY <1>2, <1>3, <1>4, <1>5

\* What is left of outbox when its head has been written.
LEMMA TailQueued ==
  ASSUME NEW str, NEW put, NEW wrote, Carried(str, put), outbox # << >>,
         outbox' = Tail(outbox), target' = None
  PROVE  /\ Queued(str, wrote)'
         /\ \A k \in Unwritten' :
              k + 1 \in Unwritten /\ k + 1 > 1 /\ outbox'[k] = outbox[k + 1]
         /\ \A k \in Unwritten : k > 1 => k - 1 \in Unwritten' /\ outbox'[k - 1] = outbox[k]
<1>1. /\ outbox' \in Seq(Entry) /\ Len(outbox') = Len(outbox) - 1 /\ Len(outbox) \in Nat
      /\ \A k \in 1..Len(outbox') : k + 1 \in 1..Len(outbox) /\ outbox'[k] = outbox[k + 1]
  BY HeadOfOutbox
<1>2. Unwritten' = 1..Len(outbox')
  BY DEF Unwritten
<1>3. \A k \in Unwritten' : k + 1 \in Unwritten /\ k + 1 > 1 /\ outbox'[k] = outbox[k + 1]
  BY <1>1, <1>2 DEF Unwritten
<1>4. \A k \in Unwritten : k > 1 => k - 1 \in Unwritten' /\ outbox'[k - 1] = outbox[k]
  BY <1>1, <1>2 DEF Unwritten
<1>5. ASSUME NEW k \in 1..Len(outbox')
      PROVE  LET c == outbox'[k].class
                 n == outbox'[k].marker.seq + 1
             IN  /\ n \in 1..Len(str[c])
                 /\ outbox'[k].marker = str[c][n].marker
                 /\ outbox'[k].data = str[c][n].data
  BY <1>1 DEF Carried, Queued
<1>6. ASSUME NEW j \in 1..Len(outbox'), NEW k \in 1..Len(outbox'), j < k,
             outbox'[j].class = outbox'[k].class
      PROVE  outbox'[j].marker.seq < outbox'[k].marker.seq
  <2>1. j + 1 \in 1..Len(outbox) /\ k + 1 \in 1..Len(outbox) /\ j + 1 < k + 1
    BY <1>1, <1>6
  <2> QED BY <1>1, <1>6, <2>1 DEF Carried, Queued
<1>7. Queued(str, wrote)'
  BY <1>1, <1>5, <1>6 DEF Queued
<1> QED BY <1>3, <1>4, <1>7

\* A marker goes to a shard of its class.
LEMMA WriteMarkerCarried ==
  ASSUME NEW str, NEW put, NEW wrote, Carried(str, put), NEW w \in Shard, WriteMarker(w),
         wrote = [put EXCEPT ![w] = Append(@, Head(outbox).marker)]
  PROVE  Carried(str, wrote)'
<1> DEFINE m == outbox[1].marker
           c0 == outbox[1].class
<1>1. /\ outbox # << >> /\ target = None
      /\ w \in ShardsOf(c0) /\ c0 \in Class
      /\ wrote = [put EXCEPT ![w] = Append(@, m)] /\ m \in Marker /\ m \in Slot /\ m.kind = "marker"
      /\ IF HasPayload(m) THEN target' = w /\ UNCHANGED outbox
                          ELSE outbox' = Tail(outbox) /\ UNCHANGED target
      /\ UNCHANGED <<seq, finished>>
      /\ 1 \in 1..Len(outbox) /\ Len(outbox) \in Nat
  BY HeadOfOutbox DEF WriteMarker, Idle, Slot
<1>2. /\ Streams(str) /\ Queued(str, put) /\ Placed(str, put) /\ Ordered(put) /\ Complete(str, put)
      /\ put \in [Shard -> Seq(Slot)]
  BY DEF Carried, Placed
<1>3. /\ wrote \in [Shard -> Seq(Slot)]
      /\ \A s \in Shard : Len(put[s]) \in Nat
      /\ \A s \in Shard : s # w => wrote[s] = put[s]
      /\ Len(wrote[w]) = Len(put[w]) + 1
      /\ wrote[w] # << >>
      /\ wrote[w][Len(put[w]) + 1] = m
      /\ \A s \in Shard : \A i \in 1..Len(put[s]) :
           i \in 1..Len(wrote[s]) /\ wrote[s][i] = put[s][i]
      /\ \A s \in Shard : \A i \in 1..Len(wrote[s]) :
           \/ i \in 1..Len(put[s])
           \/ s = w /\ i = Len(put[w]) + 1
  BY <1>1, <1>2, PutPipe
<1>4. LET n == m.seq + 1
      IN  /\ n \in 1..Len(str[c0])
          /\ m = str[c0][n].marker
          /\ outbox[1].data = str[c0][n].data
  BY <1>1, <1>2 DEF Queued
<1>5. 1 \in Unwritten
  BY <1>1 DEF Unwritten
<1>6. /\ Queued(str, wrote)'
      /\ \A k \in Unwritten' : \E j \in Unwritten : j > 1 /\ outbox'[k] = outbox[j]
      /\ \A k \in Unwritten : k > 1 => \E j \in Unwritten' : outbox'[j] = outbox[k]
  <2>1. CASE HasPayload(m)
    <3>1. target' = w /\ outbox' = outbox /\ w # None
      BY <1>1, <2>1, ShardsAre
    <3>2. Unwritten' = {k \in 1..Len(outbox) : k > 1}
      BY <3>1 DEF Unwritten
    <3>3. Unwritten = 1..Len(outbox)
      BY <1>1 DEF Unwritten
    <3>4. /\ wrote[w] # << >> /\ wrote[w][Len(wrote[w])] = outbox'[1].marker
          /\ target' \in ShardsOf(outbox'[1].class) /\ outbox' # << >>
          /\ HasPayload(outbox'[1].marker)
      BY <1>1, <1>3, <2>1, <3>1
    <3>5. Queued(str, wrote)'
      BY <1>2, <3>1, <3>4 DEF Queued
    <3> QED BY <3>1, <3>2, <3>3, <3>5
  <2>2. CASE ~HasPayload(m)
    <3>1. outbox' = Tail(outbox) /\ target' = None
      BY <1>1, <2>2
    <3>2. /\ Queued(str, wrote)'
          /\ \A k \in Unwritten' : k + 1 \in Unwritten /\ k + 1 > 1 /\ outbox'[k] = outbox[k + 1]
          /\ \A k \in Unwritten : k > 1 => k - 1 \in Unwritten' /\ outbox'[k - 1] = outbox[k]
      BY <1>1, <3>1, TailQueued
    <3> QED BY <3>2
  <2> QED BY <2>1, <2>2
<1> HIDE DEF m, c0
<1>7. Placed(str, wrote)'
  <2> SUFFICES ASSUME NEW c \in Class, NEW s \in ShardsOf(c), NEW i \in 1..Len(wrote[s])
               PROVE  /\ wrote[s][i].kind = "marker" =>
                           LET n == wrote[s][i].seq + 1
                           IN  /\ n \in 1..Len(str[c])
                               /\ wrote[s][i] = str[c][n].marker
                               /\ HasPayload(wrote[s][i]) /\ i = Len(wrote[s]) => target' = s
                               /\ HasPayload(wrote[s][i]) /\ i # Len(wrote[s]) =>
                                    wrote[s][i+1] = MakePayload(str[c][n].data)
                      /\ wrote[s][i].kind = "payload" =>
                           /\ i - 1 \in 1..Len(wrote[s])
                           /\ wrote[s][i-1].kind = "marker"
                           /\ HasPayload(wrote[s][i-1])
    BY <1>3 DEF Placed
  <2>1. s \in Shard /\ s # None
    BY ShardsAre
  <2>2. CASE i \in 1..Len(put[s])
    <3>1. wrote[s][i] = put[s][i]
      BY <1>3, <2>1, <2>2
    <3>2. ASSUME put[s][i].kind = "marker"
          PROVE  LET n == put[s][i].seq + 1
                 IN  /\ n \in 1..Len(str[c])
                     /\ put[s][i] = str[c][n].marker
                     /\ HasPayload(put[s][i]) =>
                          i # Len(put[s]) /\ put[s][i+1] = MakePayload(str[c][n].data)
      BY <1>1, <1>2, <2>1, <2>2, <3>2 DEF Placed
    <3>3. i # Len(put[s]) => /\ i + 1 \in 1..Len(put[s]) /\ wrote[s][i+1] = put[s][i+1]
                              /\ i # Len(wrote[s])
      <4>1. i # Len(put[s]) => i + 1 \in 1..Len(put[s])
        BY <1>3, <2>1, <2>2
      <4>2. Len(wrote[s]) = Len(put[s]) \/ Len(wrote[s]) = Len(put[s]) + 1
        BY <1>3, <2>1
      <4> QED BY <4>1, <4>2, <1>3, <2>1, <2>2
    <3>4. ASSUME put[s][i].kind = "payload"
          PROVE  /\ i - 1 \in 1..Len(put[s]) /\ put[s][i-1].kind = "marker"
                 /\ HasPayload(put[s][i-1])
                 /\ i - 1 \in 1..Len(wrote[s]) /\ wrote[s][i-1] = put[s][i-1]
      <4>1. /\ i - 1 \in 1..Len(put[s]) /\ put[s][i-1].kind = "marker"
            /\ HasPayload(put[s][i-1])
        <5>1. Placed(str, put)
          BY <1>2
        <5> QED BY <2>2, <3>4, <5>1 DEF Placed
      <4> QED BY <4>1, <1>3, <2>1
    <3> QED BY <3>1, <3>2, <3>3, <3>4
  <2>3. CASE s = w /\ i = Len(put[w]) + 1
    <3>1. c = c0
      BY <1>1, <2>3, ShardsAre
    <3>2. wrote[s][i] = m /\ i = Len(wrote[s]) /\ m.kind # "payload"
      BY <1>1, <1>3, <2>3
    <3>3. HasPayload(m) => target' = s
      BY <1>1, <2>3
    <3> QED BY <1>4, <3>1, <3>2, <3>3
  <2> QED BY <1>3, <2>1, <2>2, <2>3
<1>8. ASSUME NEW c \in Class, NEW s \in ShardsOf(c), NEW i \in 1..Len(put[s]),
             put[s][i].kind = "marker", c = c0
      PROVE  put[s][i].seq < m.seq
  BY <1>2, <1>5, <1>8 DEF Ordered, m, c0
<1>9. Ordered(wrote)'
  <2>1. ASSUME NEW s \in Shard, NEW i \in 1..Len(wrote[s]), NEW j \in 1..Len(wrote[s]), i < j,
               wrote[s][i].kind = "marker", wrote[s][j].kind = "marker"
        PROVE  wrote[s][i].seq < wrote[s][j].seq
    <3>1. CASE j \in 1..Len(put[s])
      <4>1. i \in 1..Len(put[s])
        BY <1>3, <2>1, <3>1
      <4>2. wrote[s][i] = put[s][i] /\ wrote[s][j] = put[s][j]
        BY <1>3, <3>1, <4>1
      <4> QED BY <1>2, <2>1, <3>1, <4>1, <4>2 DEF Ordered, Increasing
    <3>2. CASE s = w /\ j = Len(put[w]) + 1
      <4>1. i \in 1..Len(put[s]) /\ wrote[s][i] = put[s][i] /\ wrote[s][j] = m
        BY <1>3, <2>1, <3>2
      <4> QED BY <1>1, <1>8, <2>1, <3>2, <4>1
    <3> QED BY <1>3, <3>1, <3>2
  <2>2. ASSUME NEW s \in MainShard, NEW t \in MainShard, s # t,
               NEW i \in 1..Len(wrote[s]), NEW j \in 1..Len(wrote[t]),
               wrote[s][i].kind = "marker", wrote[t][j].kind = "marker"
        PROVE  wrote[s][i].seq # wrote[t][j].seq
    <3>0. s \in Shard /\ t \in Shard /\ s \in ShardsOf("main") /\ t \in ShardsOf("main")
          /\ "main" \in Class
      BY ShardsAre DEF Shard, Class
    <3>1. CASE i \in 1..Len(put[s]) /\ j \in 1..Len(put[t])
      <4>1. wrote[s][i] = put[s][i] /\ wrote[t][j] = put[t][j]
        BY <1>3, <3>0, <3>1
      <4> QED BY <1>2, <2>2, <3>1, <4>1 DEF Ordered, NoTwice
    <3>2. CASE s = w /\ i = Len(put[w]) + 1
      <4>1. "main" = c0 /\ wrote[s][i] = m /\ wrote[t] = put[t]
        BY <1>1, <1>3, <2>2, <3>0, <3>2, ShardsAre
      <4>2. put[t][j].seq < m.seq
        BY <1>8, <2>2, <3>0, <4>1
      <4>3. put[t][j].seq \in Nat /\ m.seq \in Nat
        <5>1. put[t][j] \in Slot
          BY <1>2, <2>2, <3>0, <4>1
        <5> QED BY <5>1, <1>1, <2>2, <4>1, SlotKinds DEF Marker
      <4>4. wrote[s][i].seq = m.seq /\ wrote[t][j].seq = put[t][j].seq
        BY <4>1
      <4> QED BY <4>2, <4>3, <4>4
    <3>3. CASE t = w /\ j = Len(put[w]) + 1
      <4>1. "main" = c0 /\ wrote[t][j] = m /\ wrote[s] = put[s]
        BY <1>1, <1>3, <2>2, <3>0, <3>3, ShardsAre
      <4>2. put[s][i].seq < m.seq
        BY <1>8, <2>2, <3>0, <4>1
      <4>3. put[s][i].seq \in Nat /\ m.seq \in Nat
        <5>1. put[s][i] \in Slot
          BY <1>2, <2>2, <3>0, <4>1
        <5> QED BY <5>1, <1>1, <2>2, <4>1, SlotKinds DEF Marker
      <4>4. wrote[t][j].seq = m.seq /\ wrote[s][i].seq = put[s][i].seq
        BY <4>1
      <4> QED BY <4>2, <4>3, <4>4
    <3> QED BY <1>3, <3>0, <3>1, <3>2, <3>3
  <2>3. ASSUME NEW c \in Class, NEW s \in ShardsOf(c), NEW i \in 1..Len(wrote[s]),
               NEW k \in Unwritten', wrote[s][i].kind = "marker", outbox'[k].class = c
        PROVE  wrote[s][i].seq < outbox'[k].marker.seq
    <3>1. PICK j \in Unwritten : j > 1 /\ outbox'[k] = outbox[j]
      BY <1>6
    <3>2. s \in Shard
      BY ShardsAre
    <3>3. CASE i \in 1..Len(put[s])
      <4>1. wrote[s][i] = put[s][i]
        BY <1>3, <3>2, <3>3
      <4> QED BY <1>2, <2>3, <3>1, <3>3, <4>1 DEF Ordered
    <3>4. CASE s = w /\ i = Len(put[w]) + 1
      <4>1. c = c0 /\ wrote[s][i] = m
        BY <1>1, <1>3, <3>4, ShardsAre
      <4>2. j \in 1..Len(outbox) /\ 1 < j
        BY <3>1 DEF Unwritten
      <4> QED BY <1>1, <1>2, <2>3, <3>1, <4>1, <4>2 DEF Queued, m, c0
    <3> QED BY <1>3, <3>2, <3>3, <3>4
  <2> QED BY <2>1, <2>2, <2>3 DEF Ordered, Increasing, NoTwice
<1>10. Complete(str, wrote)'
  <2> SUFFICES ASSUME NEW c \in Class, NEW n \in 1..Len(str[c])
               PROVE  \/ \E s \in ShardsOf(c) : \E i \in 1..Len(wrote[s]) :
                           wrote[s][i] = str[c][n].marker
                      \/ \E k \in Unwritten' :
                           outbox'[k].class = c /\ outbox'[k].marker.seq = n - 1
    BY DEF Complete
  <2>1. ASSUME NEW s \in ShardsOf(c), NEW i \in 1..Len(put[s]), put[s][i] = str[c][n].marker
        PROVE  i \in 1..Len(wrote[s]) /\ wrote[s][i] = str[c][n].marker
    BY <2>1, <1>3, ShardsAre
  <2>2. ASSUME NEW k \in Unwritten, outbox[k].class = c, outbox[k].marker.seq = n - 1, k > 1
        PROVE  \E j \in Unwritten' : outbox'[j].class = c /\ outbox'[j].marker.seq = n - 1
    BY <2>2, <1>6
  <2>3. ASSUME NEW k \in Unwritten, outbox[k].class = c, outbox[k].marker.seq = n - 1, ~(k > 1)
        PROVE  /\ w \in ShardsOf(c) /\ Len(put[w]) + 1 \in 1..Len(wrote[w])
               /\ wrote[w][Len(put[w]) + 1] = str[c][n].marker
    <3>1. k = 1
      BY <2>3, <1>1 DEF Unwritten
    <3>2. c = c0 /\ m.seq = n - 1
      BY <2>3, <3>1 DEF m, c0
    <3>3. m.seq + 1 = n
      BY <3>2
    <3> QED BY <1>1, <1>3, <1>4, <3>2, <3>3
  <2>4. \/ \E s \in ShardsOf(c) : \E i \in 1..Len(put[s]) : put[s][i] = str[c][n].marker
        \/ \E k \in Unwritten : outbox[k].class = c /\ outbox[k].marker.seq = n - 1
    BY <1>2 DEF Complete
  <2> QED BY <2>1, <2>2, <2>3, <2>4
<1>11. Streams(str)'
  BY <1>1, <1>2 DEF Streams
<1> QED BY <1>6, <1>7, <1>9, <1>10, <1>11 DEF Carried

\* Its data follow, to the same shard.
LEMMA WritePayloadCarried ==
  ASSUME NEW str, NEW put, NEW wrote, Carried(str, put), target \in Shard \cup {None},
         WritePayload,
         wrote = [put EXCEPT ![target] = Append(@, MakePayload(Head(outbox).data))]
  PROVE  Carried(str, wrote)'
<1> DEFINE w == target
           m == outbox[1].marker
           slot == MakePayload(outbox[1].data)
           last == Len(put[w])
<1>1. /\ w # None /\ w \in Shard /\ wrote = [put EXCEPT ![w] = Append(@, slot)] /\ target' = None /\ outbox' = Tail(outbox)
      /\ UNCHANGED <<seq, finished>>
  <2>1. outbox # << >> /\ target # None
    BY DEF WritePayload, Carried, Queued
  <2>2. Head(outbox) = outbox[1]
    BY <2>1, HeadOfOutbox
  <2> QED BY <2>1, <2>2 DEF WritePayload
<1>2. /\ Streams(str) /\ Queued(str, put) /\ Placed(str, put) /\ Ordered(put) /\ Complete(str, put)
      /\ put \in [Shard -> Seq(Slot)]
  BY DEF Carried, Placed
<1>3. /\ outbox # << >> /\ w \in ShardsOf(outbox[1].class) /\ put[w] # << >>
      /\ put[w][last] = m /\ HasPayload(m) /\ outbox[1].class \in Class
      /\ m \in Marker /\ m.kind = "marker" /\ slot \in Slot /\ slot.kind = "payload"
      /\ last \in 1..Len(put[w]) /\ last \in Nat
  <2>1. /\ outbox # << >> /\ w \in ShardsOf(outbox[1].class) /\ put[w] # << >>
        /\ put[w][last] = m /\ HasPayload(m)
    BY <1>1, <1>2 DEF Queued
  <2>2. outbox[1].class \in Class /\ m \in Marker /\ m.kind = "marker" /\ outbox[1].data \in Seq(Data)
    BY <2>1, HeadOfOutbox
  <2>3. slot \in Slot /\ slot.kind = "payload"
    BY <2>2 DEF MakePayload, Slot, Payload
  <2>4. put[w] \in Seq(Slot) /\ last \in 1..Len(put[w]) /\ last \in Nat
    BY <1>1, <1>2, <2>1
  <2> QED BY <2>1, <2>2, <2>3, <2>4
<1>4. LET n == m.seq + 1
      IN  /\ n \in 1..Len(str[outbox[1].class])
          /\ m = str[outbox[1].class][n].marker
          /\ outbox[1].data = str[outbox[1].class][n].data
  <2>1. 1 \in 1..Len(outbox)
    BY <1>3, HeadOfOutbox
  <2> QED BY <2>1, <1>2 DEF Queued
<1> HIDE DEF slot
<1>5. /\ wrote \in [Shard -> Seq(Slot)]
      /\ \A s \in Shard : Len(put[s]) \in Nat
      /\ \A s \in Shard : s # w => wrote[s] = put[s]
      /\ Len(wrote[w]) = last + 1
      /\ wrote[w][last + 1] = slot
      /\ \A s \in Shard : \A i \in 1..Len(put[s]) :
           i \in 1..Len(wrote[s]) /\ wrote[s][i] = put[s][i]
      /\ \A s \in Shard : \A i \in 1..Len(wrote[s]) :
           \/ i \in 1..Len(put[s])
           \/ s = w /\ i = last + 1
  BY <1>1, <1>2, <1>3, PutPipe
<1>6. /\ Queued(str, wrote)'
      /\ \A k \in Unwritten' : k + 1 \in Unwritten /\ k + 1 > 1 /\ outbox'[k] = outbox[k + 1]
      /\ \A k \in Unwritten : k > 1 => k - 1 \in Unwritten' /\ outbox'[k - 1] = outbox[k]
  BY <1>1, <1>3, TailQueued
<1>7. \A k \in Unwritten : k > 1
  BY <1>1 DEF Unwritten
<1>8. \A s \in Shard : \A i \in 1..Len(wrote[s]) : wrote[s][i].kind = "marker" =>
        i \in 1..Len(put[s]) /\ wrote[s][i] = put[s][i] /\ put[s][i].kind = "marker"
  <2> SUFFICES ASSUME NEW s \in Shard, NEW i \in 1..Len(wrote[s]), wrote[s][i].kind = "marker"
               PROVE  i \in 1..Len(put[s]) /\ wrote[s][i] = put[s][i]
    OBVIOUS
  <2>1. ~(s = w /\ i = last + 1)
    BY <1>3, <1>5
  <2> QED BY <2>1, <1>5
<1> HIDE DEF w, m, last
<1>9. Placed(str, wrote)'
  <2> SUFFICES ASSUME NEW c \in Class, NEW s \in ShardsOf(c), NEW i \in 1..Len(wrote[s])
               PROVE  /\ wrote[s][i].kind = "marker" =>
                           LET n == wrote[s][i].seq + 1
                           IN  /\ n \in 1..Len(str[c])
                               /\ wrote[s][i] = str[c][n].marker
                               /\ HasPayload(wrote[s][i]) /\ i = Len(wrote[s]) => target' = s
                               /\ HasPayload(wrote[s][i]) /\ i # Len(wrote[s]) =>
                                    wrote[s][i+1] = MakePayload(str[c][n].data)
                      /\ wrote[s][i].kind = "payload" =>
                           /\ i - 1 \in 1..Len(wrote[s])
                           /\ wrote[s][i-1].kind = "marker"
                           /\ HasPayload(wrote[s][i-1])
    BY <1>5 DEF Placed
  <2>1. s \in Shard
    BY ShardsAre
  <2>2. ASSUME wrote[s][i].kind = "marker"
        PROVE  LET n == wrote[s][i].seq + 1
               IN  /\ n \in 1..Len(str[c])
                   /\ wrote[s][i] = str[c][n].marker
                   /\ HasPayload(wrote[s][i]) =>
                        i # Len(wrote[s]) /\ wrote[s][i+1] = MakePayload(str[c][n].data)
    <3>1. i \in 1..Len(put[s]) /\ wrote[s][i] = put[s][i] /\ put[s][i].kind = "marker"
      BY <1>8, <2>1, <2>2
    <3>2. LET n == put[s][i].seq + 1
          IN  /\ n \in 1..Len(str[c])
              /\ put[s][i] = str[c][n].marker
              /\ HasPayload(put[s][i]) /\ i = Len(put[s]) => w = s
              /\ HasPayload(put[s][i]) /\ i # Len(put[s]) =>
                   put[s][i+1] = MakePayload(str[c][n].data)
      BY <1>2, <3>1 DEF Placed, w
    <3>3. CASE ~HasPayload(put[s][i])
      BY <3>1, <3>2, <3>3
    <3>4. CASE HasPayload(put[s][i]) /\ i # Len(put[s])
      <4>1. i + 1 \in 1..Len(put[s]) /\ Len(put[s]) \in Nat
        BY <1>5, <2>1, <3>1, <3>4
      <4>2. wrote[s][i+1] = put[s][i+1] /\ i + 1 \in 1..Len(wrote[s])
        BY <1>5, <2>1, <4>1
      <4>3. i # Len(wrote[s])
        <5>1. Len(wrote[s]) \in Nat
          BY <1>5, <2>1
        <5> QED BY <5>1, <4>2
      <4> QED BY <3>1, <3>2, <3>4, <4>2, <4>3
    <3>5. CASE HasPayload(put[s][i]) /\ i = Len(put[s])
      <4>1. s = w /\ i = last /\ c = outbox[1].class /\ put[s][i] = m
        BY <1>3, <3>2, <3>5, ShardsAre DEF last
      <4>2. wrote[s][i+1] = slot /\ i # Len(wrote[s])
        BY <1>3, <1>5, <4>1
      <4>3. slot = MakePayload(str[c][put[s][i].seq + 1].data)
        BY <1>4, <4>1 DEF slot
      <4> QED BY <3>1, <3>2, <4>2, <4>3
    <3> QED BY <3>3, <3>4, <3>5
  <2>3. ASSUME wrote[s][i].kind = "payload"
        PROVE  /\ i - 1 \in 1..Len(wrote[s])
               /\ wrote[s][i-1].kind = "marker"
               /\ HasPayload(wrote[s][i-1])
    <3>1. CASE i \in 1..Len(put[s])
      <4>1. put[s][i].kind = "payload"
        BY <1>5, <2>1, <2>3, <3>1
      <4>2. /\ i - 1 \in 1..Len(put[s]) /\ put[s][i-1].kind = "marker"
            /\ HasPayload(put[s][i-1])
        <5>1. Placed(str, put)
          BY <1>2
        <5> QED BY <3>1, <4>1, <5>1 DEF Placed
      <4> QED BY <4>2, <1>5, <2>1
    <3>2. CASE s = w /\ i = last + 1
      <4>1. i - 1 = last /\ last \in 1..Len(put[w])
        BY <1>3, <3>2
      <4>2. wrote[s][last] = m /\ last \in 1..Len(wrote[s])
        BY <1>1, <1>3, <1>5, <3>2, <4>1
      <4> QED BY <1>3, <4>1, <4>2
    <3> QED BY <1>5, <2>1, <3>1, <3>2
  <2> QED BY <2>2, <2>3
<1>10. Ordered(wrote)'
  <2>1. ASSUME NEW s \in Shard, NEW i \in 1..Len(wrote[s]), NEW j \in 1..Len(wrote[s]), i < j,
               wrote[s][i].kind = "marker", wrote[s][j].kind = "marker"
        PROVE  wrote[s][i].seq < wrote[s][j].seq
    BY <1>2, <1>8, <2>1 DEF Ordered, Increasing
  <2>2. ASSUME NEW s \in MainShard, NEW t \in MainShard, s # t,
               NEW i \in 1..Len(wrote[s]), NEW j \in 1..Len(wrote[t]),
               wrote[s][i].kind = "marker", wrote[t][j].kind = "marker"
        PROVE  wrote[s][i].seq # wrote[t][j].seq
    <3>1. s \in Shard /\ t \in Shard
      BY DEF Shard
    <3>2. /\ i \in 1..Len(put[s]) /\ wrote[s][i] = put[s][i] /\ put[s][i].kind = "marker"
          /\ j \in 1..Len(put[t]) /\ wrote[t][j] = put[t][j] /\ put[t][j].kind = "marker"
      BY <1>8, <2>2, <3>1
    <3> QED BY <1>2, <2>2, <3>2 DEF Ordered, NoTwice
  <2>3. ASSUME NEW c \in Class, NEW s \in ShardsOf(c), NEW i \in 1..Len(wrote[s]),
               NEW k \in Unwritten', wrote[s][i].kind = "marker", outbox'[k].class = c
        PROVE  wrote[s][i].seq < outbox'[k].marker.seq
    <3>1. s \in Shard
      BY ShardsAre
    <3>2. k + 1 \in Unwritten /\ outbox'[k] = outbox[k + 1]
      BY <1>6
    <3> QED BY <1>2, <1>8, <2>3, <3>1, <3>2 DEF Ordered
  <2> QED BY <2>1, <2>2, <2>3 DEF Ordered, Increasing, NoTwice
<1>11. Complete(str, wrote)'
  <2> SUFFICES ASSUME NEW c \in Class, NEW n \in 1..Len(str[c])
               PROVE  \/ \E s \in ShardsOf(c) : \E i \in 1..Len(wrote[s]) :
                           wrote[s][i] = str[c][n].marker
                      \/ \E k \in Unwritten' :
                           outbox'[k].class = c /\ outbox'[k].marker.seq = n - 1
    BY DEF Complete
  <2>1. ASSUME NEW s \in ShardsOf(c), NEW i \in 1..Len(put[s]), put[s][i] = str[c][n].marker
        PROVE  i \in 1..Len(wrote[s]) /\ wrote[s][i] = str[c][n].marker
    BY <2>1, <1>5, ShardsAre
  <2>2. ASSUME NEW k \in Unwritten, outbox[k].class = c, outbox[k].marker.seq = n - 1
        PROVE  \E j \in Unwritten' : outbox'[j].class = c /\ outbox'[j].marker.seq = n - 1
    BY <2>2, <1>6, <1>7
  <2>3. \/ \E s \in ShardsOf(c) : \E i \in 1..Len(put[s]) : put[s][i] = str[c][n].marker
        \/ \E k \in Unwritten : outbox[k].class = c /\ outbox[k].marker.seq = n - 1
    BY <1>2 DEF Complete
  <2> QED BY <2>1, <2>2, <2>3
<1>12. Streams(str)'
  BY <1>1, <1>2 DEF Streams
<1> QED BY <1>6, <1>9, <1>10, <1>11, <1>12 DEF Carried

\* Nothing is numbered and nothing is written.
LEMMA StillCarried ==
  ASSUME NEW str, NEW put, Carried(str, put), UNCHANGED <<seq, outbox, target>>
  PROVE  Carried(str, put)'
<1>1. Streams(str)'
  BY DEF Carried, Streams
<1>2. Queued(str, put)'
  BY DEF Carried, Queued
<1>3. Placed(str, put)'
  BY DEF Carried, Placed
<1>4. Unwritten' = Unwritten
  BY DEF Unwritten
<1>5. Ordered(put)'
  BY <1>4 DEF Carried, Ordered, Increasing, NoTwice
<1>6. Complete(str, put)'
  BY <1>4 DEF Carried, Complete
<1> QED BY <1>1, <1>2, <1>3, <1>5, <1>6 DEF Carried

-----------------------------------------------------------------------------
\* Chunks are numbered when all before them have been written.

Extended(str, more) == [c \in Class |-> str[c] \o more[c]]

LEMMA ExtendedIs ==
  ASSUME NEW str \in [Class -> Seq(Chunk)], NEW more \in [Class -> Seq(Chunk)]
  PROVE  /\ Extended(str, more) \in [Class -> Seq(Chunk)]
         /\ \A c \in Class :
              /\ Len(str[c]) \in Nat /\ Len(more[c]) \in Nat
              /\ Len(Extended(str, more)[c]) = Len(str[c]) + Len(more[c])
              /\ \A k \in 1..Len(str[c]) :
                   /\ k \in 1..Len(Extended(str, more)[c])
                   /\ Extended(str, more)[c][k] = str[c][k]
              /\ \A k \in 1..Len(more[c]) :
                   /\ Len(str[c]) + k \in 1..Len(Extended(str, more)[c])
                   /\ Extended(str, more)[c][Len(str[c]) + k] = more[c][k]
              /\ \A k \in 1..Len(Extended(str, more)[c]) :
                   k \in 1..Len(str[c]) \/ k - Len(str[c]) \in 1..Len(more[c])
<1>1. \A c \in Class : str[c] \in Seq(Chunk) /\ more[c] \in Seq(Chunk)
  OBVIOUS
<1>2. \A c \in Class : Extended(str, more)[c] = str[c] \o more[c]
  BY DEF Extended
<1>3. \A c \in Class : str[c] \o more[c] \in Seq(Chunk)
  BY <1>1
<1>4. Extended(str, more) \in [Class -> Seq(Chunk)]
  BY <1>3 DEF Extended
<1> QED BY <1>1, <1>2, <1>4

\* outbox gets the chunks of more, and the counters count them.
Numbering(more) ==
  /\ more \in [Class -> Seq(Chunk)]
  /\ \A c \in Class : \A k \in 1..Len(more[c]) :
       Proper(c, more[c][k]) /\ more[c][k].marker.seq = seq[c] + k - 1
  /\ seq' = [c \in Class |-> seq[c] + Len(more[c])]
  /\ UNCHANGED <<pipe, target>>
  /\ outbox' \in Seq(Entry)
  /\ \A k \in 1..Len(outbox') : \E n \in 1..Len(more[outbox'[k].class]) :
       /\ outbox'[k].marker = more[outbox'[k].class][n].marker
       /\ outbox'[k].data = more[outbox'[k].class][n].data
  /\ \A j, k \in 1..Len(outbox') :
       j < k /\ outbox'[j].class = outbox'[k].class
         => outbox'[j].marker.seq < outbox'[k].marker.seq
  /\ \A c \in Class : \A n \in 1..Len(more[c]) : \E k \in 1..Len(outbox') :
       outbox'[k].class = c /\ outbox'[k].marker = more[c][n].marker

\* A stream goes on from where it was.
Continues(str, new) ==
  \A c \in Class :
    /\ Len(str[c]) <= Len(new[c])
    /\ \A k \in 1..Len(str[c]) : new[c][k] = str[c][k]

LEMMA NumberedCarried ==
  ASSUME NEW str, NEW put, Carried(str, put), Idle, NEW more, Numbering(more)
  PROVE  Carried(Extended(str, more), put)'
<1> DEFINE new == Extended(str, more)
<1>1. /\ Streams(str) /\ Queued(str, put) /\ Placed(str, put) /\ Ordered(put) /\ Complete(str, put)
      /\ str \in [Class -> Seq(Chunk)]
      /\ outbox = << >> /\ target = None /\ Unwritten = {}
  BY DEF Carried, Streams, Queued, Idle, Unwritten
<1>2. /\ new \in [Class -> Seq(Chunk)]
      /\ \A c \in Class :
           /\ Len(str[c]) \in Nat /\ Len(more[c]) \in Nat
           /\ Len(new[c]) = Len(str[c]) + Len(more[c])
           /\ \A k \in 1..Len(str[c]) : k \in 1..Len(new[c]) /\ new[c][k] = str[c][k]
           /\ \A k \in 1..Len(more[c]) :
                Len(str[c]) + k \in 1..Len(new[c]) /\ new[c][Len(str[c]) + k] = more[c][k]
           /\ \A k \in 1..Len(new[c]) :
                k \in 1..Len(str[c]) \/ k - Len(str[c]) \in 1..Len(more[c])
  <2>1. more \in [Class -> Seq(Chunk)]
    BY DEF Numbering
  <2> QED BY <2>1, <1>1, ExtendedIs
<1> HIDE DEF new
<1>m. \A c \in Class : \A k \in 1..Len(more[c]) :
        Proper(c, more[c][k]) /\ more[c][k].marker.seq = seq[c] + k - 1
  BY DEF Numbering
<1>o. /\ target' = target /\ outbox' \in Seq(Entry)
      /\ \A k \in 1..Len(outbox') : \E n \in 1..Len(more[outbox'[k].class]) :
           /\ outbox'[k].marker = more[outbox'[k].class][n].marker
           /\ outbox'[k].data = more[outbox'[k].class][n].data
      /\ \A j, k \in 1..Len(outbox') :
           j < k /\ outbox'[j].class = outbox'[k].class
             => outbox'[j].marker.seq < outbox'[k].marker.seq
      /\ \A c \in Class : \A n \in 1..Len(more[c]) : \E k \in 1..Len(outbox') :
           outbox'[k].class = c /\ outbox'[k].marker = more[c][n].marker
  BY DEF Numbering
<1>3. \A c \in Class : Len(str[c]) = seq[c] /\ seq'[c] = Len(new[c])
  <2>1. \A c \in Class : Len(str[c]) = seq[c]
    BY <1>1 DEF Streams
  <2>2. \A c \in Class : seq'[c] = seq[c] + Len(more[c])
    BY DEF Numbering
  <2>3. \A c \in Class : Len(new[c]) = Len(str[c]) + Len(more[c])
    BY <1>2
  <2> QED BY <2>1, <2>2, <2>3
<1>4. Streams(new)'
  <2>1. ASSUME NEW c \in Class, NEW k \in 1..Len(new[c])
        PROVE  new[c][k].marker.seq = k - 1 /\ Proper(c, new[c][k])
    <3>1. CASE k \in 1..Len(str[c])
      <4>1. str[c][k].marker.seq = k - 1 /\ Proper(c, str[c][k])
        BY <1>1, <3>1 DEF Streams
      <4> QED BY <4>1, <1>2, <3>1
    <3>2. CASE k - Len(str[c]) \in 1..Len(more[c])
      <4> DEFINE i == k - Len(str[c])
      <4>1. Len(str[c]) + i = k /\ i \in 1..Len(more[c])
        BY <1>2, <3>2
      <4>2. new[c][k] = more[c][i]
        BY <1>2, <4>1
      <4>3. more[c][i].marker.seq = seq[c] + i - 1 /\ Proper(c, more[c][i])
        BY <4>1, <1>m
      <4> QED BY <1>2, <1>3, <4>1, <4>2, <4>3
    <3> QED BY <1>2, <3>1, <3>2
  <2> QED BY <1>2, <1>3, <2>1 DEF Streams
<1>5. Queued(new, put)'
  <2>1. ASSUME NEW k \in 1..Len(outbox')
        PROVE  LET c == outbox'[k].class
                   n == outbox'[k].marker.seq + 1
               IN  /\ n \in 1..Len(new[c])
                   /\ outbox'[k].marker = new[c][n].marker
                   /\ outbox'[k].data = new[c][n].data
    <3>1. outbox'[k] \in Entry
      BY <1>o
    <3>2. outbox'[k].class \in Class
      BY <3>1 DEF Entry
    <3>3. PICK c \in Class : c = outbox'[k].class
      BY <3>2
    <3>4. PICK n \in 1..Len(more[c]) : /\ outbox'[k].marker = more[c][n].marker
                                       /\ outbox'[k].data = more[c][n].data
      BY <3>3, <1>o
    <3>5. more[c][n].marker.seq = seq[c] + n - 1
      BY <1>m
    <3>6. outbox'[k].marker.seq + 1 = Len(str[c]) + n
      BY <1>2, <1>3, <3>4, <3>5
    <3>7. Len(str[c]) + n \in 1..Len(new[c]) /\ new[c][Len(str[c]) + n] = more[c][n]
      BY <1>2
    <3> QED BY <3>3, <3>4, <3>6, <3>7
  <2> QED BY <1>1, <1>o, <2>1 DEF Queued
<1>6. Placed(new, put)'
  <2>0. put \in [Shard -> Seq(Slot)] /\ target' = target
    BY <1>1, <1>o DEF Placed
  <2> SUFFICES Placed(new, put)
    BY <2>0 DEF Placed
  <2> SUFFICES ASSUME NEW c \in Class, NEW s \in ShardsOf(c), NEW i \in 1..Len(put[s])
               PROVE  /\ put[s][i].kind = "marker" =>
                           LET n == put[s][i].seq + 1
                           IN  /\ n \in 1..Len(new[c])
                               /\ put[s][i] = new[c][n].marker
                               /\ HasPayload(put[s][i]) /\ i = Len(put[s]) => target = s
                               /\ HasPayload(put[s][i]) /\ i # Len(put[s]) =>
                                    put[s][i+1] = MakePayload(new[c][n].data)
                      /\ put[s][i].kind = "payload" =>
                           /\ i - 1 \in 1..Len(put[s])
                           /\ put[s][i-1].kind = "marker"
                           /\ HasPayload(put[s][i-1])
    BY <2>0 DEF Placed
  <2>1. ASSUME put[s][i].kind = "marker"
        PROVE  LET n == put[s][i].seq + 1
               IN  /\ n \in 1..Len(str[c])
                   /\ put[s][i] = str[c][n].marker
                   /\ HasPayload(put[s][i]) /\ i = Len(put[s]) => target = s
                   /\ HasPayload(put[s][i]) /\ i # Len(put[s]) =>
                        put[s][i+1] = MakePayload(str[c][n].data)
    BY <1>1, <2>1 DEF Placed
  <2>2. ASSUME put[s][i].kind = "payload"
        PROVE  /\ i - 1 \in 1..Len(put[s])
               /\ put[s][i-1].kind = "marker"
               /\ HasPayload(put[s][i-1])
    BY <1>1, <2>2 DEF Placed
  <2>3. \A n \in 1..Len(str[c]) : n \in 1..Len(new[c]) /\ new[c][n] = str[c][n]
    BY <1>2
  <2> QED BY <2>1, <2>2, <2>3
<1>7. Unwritten' = 1..Len(outbox')
  <2>1. target' = None
    BY <1>1, <1>o
  <2> QED BY <2>1 DEF Unwritten
<1>8. Ordered(put)'
  <2>1. ASSUME NEW c \in Class, NEW s \in ShardsOf(c), NEW i \in 1..Len(put[s]),
               NEW k \in 1..Len(outbox'), put[s][i].kind = "marker", outbox'[k].class = c
        PROVE  put[s][i].seq < outbox'[k].marker.seq
    <3>1. PICK n \in 1..Len(more[c]) : outbox'[k].marker = more[c][n].marker
      BY <2>1, <1>o
    <3>2. more[c][n].marker.seq = seq[c] + n - 1
      BY <1>m
    <3>3. put[s][i].seq + 1 \in 1..Len(str[c])
      BY <1>1, <2>1 DEF Placed
    <3>4. put[s][i].seq \in Nat
      <4>1. s \in Shard
        BY ShardsAre
      <4>2. put[s][i] \in Slot
        BY <1>1, <4>1 DEF Placed
      <4> QED BY <2>1, <4>2, SlotKinds DEF Marker
    <3>5. seq[c] \in Nat /\ put[s][i].seq < seq[c]
      <4>1. Len(str[c]) \in Nat /\ Len(str[c]) = seq[c]
        BY <1>2, <1>3
      <4> QED BY <3>3, <3>4, <4>1
    <3> QED BY <3>1, <3>2, <3>4, <3>5
  <2>2. (\A s \in Shard : Increasing(put, s)) /\ NoTwice(put)
    BY <1>1 DEF Ordered
  <2>3. (\A s \in Shard : Increasing(put, s)') /\ NoTwice(put)'
    BY <2>2, <1>o DEF Increasing, NoTwice
  <2> QED BY <1>7, <1>o, <2>1, <2>3 DEF Ordered
<1>9. Complete(new, put)'
  <2> SUFFICES ASSUME NEW c \in Class, NEW n \in 1..Len(new[c])
               PROVE  \/ \E s \in ShardsOf(c) : \E i \in 1..Len(put[s]) :
                           put[s][i] = new[c][n].marker
                      \/ \E k \in 1..Len(outbox') :
                           outbox'[k].class = c /\ outbox'[k].marker.seq = n - 1
    BY <1>7, <1>o DEF Complete
  <2>1. CASE n \in 1..Len(str[c])
    <3>1. \E s \in ShardsOf(c) : \E i \in 1..Len(put[s]) : put[s][i] = str[c][n].marker
      BY <1>1, <2>1 DEF Complete
    <3>2. new[c][n] = str[c][n]
      BY <1>2, <2>1
    <3> QED BY <3>1, <3>2
  <2>2. CASE n - Len(str[c]) \in 1..Len(more[c])
    <3> DEFINE i == n - Len(str[c])
    <3>1. PICK k \in 1..Len(outbox') : outbox'[k].class = c /\ outbox'[k].marker = more[c][i].marker
      BY <2>2, <1>o
    <3>2. more[c][i].marker.seq = seq[c] + i - 1
      BY <2>2, <1>m
    <3>3. Len(str[c]) = seq[c] /\ Len(str[c]) \in Nat /\ n \in Int
      BY <1>2, <1>3
    <3>4. seq[c] + i - 1 = n - 1
      BY <3>3
    <3> QED BY <3>1, <3>2, <3>4
  <2> QED BY <1>2, <2>1, <2>2
<1> QED BY <1>4, <1>5, <1>6, <1>8, <1>9 DEF Carried, new

-----------------------------------------------------------------------------
\* The chunks a call adds.

FragmentSet == {x \in [body : Body, file : FileName \cup {None}, data : Seq(Data)] :
                  /\ x.body = "Filename" <=> x.file # None
                  /\ x.body # "FileData" => x.data = << >>}

Ordinary == {x \in FragmentSet : x.file # MetadataFile /\ x.body # "ImageEof"}

ChunkOf(n, x) == [marker |-> MakeMarker(n, x.body, x.file), data |-> x.data]

ChunksOf(class, fragments) ==
  [k \in 1..Len(fragments) |-> ChunkOf(seq[class] + k - 1, fragments[k])]

\* Fragments carry no metadata file among the large ones, no ImageEof among the small.
Apart(fr) ==
  /\ fr \in [Class -> Seq(FragmentSet)]
  /\ \A k \in 1..Len(fr["main"]) : fr["main"][k].file # MetadataFile
  /\ \A k \in 1..Len(fr["small"]) : fr["small"][k].body # "ImageEof"

LEMMA ChunksOfIs ==
  ASSUME NEW class \in Class, seq \in [Class -> Nat], NEW fragments \in Seq(FragmentSet)
  PROVE  /\ ChunksOf(class, fragments) \in Seq(Chunk)
         /\ Len(ChunksOf(class, fragments)) = Len(fragments)
         /\ \A k \in 1..Len(fragments) :
              LET ch == ChunksOf(class, fragments)[k]
              IN  /\ ch \in Chunk
                  /\ ch.marker.seq = seq[class] + k - 1
                  /\ ch.marker.body = fragments[k].body
                  /\ ch.marker.file = fragments[k].file
                  /\ ch.data = fragments[k].data
                  /\ ch.marker.body = "Filename" <=> ch.marker.file # None
                  /\ ~HasPayload(ch.marker) => ch.data = << >>
         /\ Numbered(class, fragments) \in Seq(Entry)
         /\ Len(Numbered(class, fragments)) = Len(fragments)
         /\ \A k \in 1..Len(fragments) :
              /\ Numbered(class, fragments)[k].class = class
              /\ Numbered(class, fragments)[k].marker = ChunksOf(class, fragments)[k].marker
              /\ Numbered(class, fragments)[k].data = ChunksOf(class, fragments)[k].data
<1>1. Len(fragments) \in Nat /\ \A k \in 1..Len(fragments) : fragments[k] \in FragmentSet
  OBVIOUS
<1>3. ASSUME NEW k \in 1..Len(fragments), NEW ch, ch = ChunkOf(seq[class] + k - 1, fragments[k])
      PROVE  /\ ch \in Chunk
             /\ ch.marker.seq = seq[class] + k - 1
             /\ ch.marker.body = fragments[k].body
             /\ ch.marker.file = fragments[k].file
             /\ ch.data = fragments[k].data
             /\ ch.marker.body = "Filename" <=> ch.marker.file # None
             /\ ~HasPayload(ch.marker) => ch.data = << >>
             /\ [class |-> class, marker |-> ch.marker, data |-> ch.data] \in Entry
  <2>1. seq[class] + k - 1 \in Nat
    BY <1>1
  <2>2. fragments[k] \in FragmentSet
    BY <1>1
  <2>3. /\ ch.marker = MakeMarker(seq[class] + k - 1, fragments[k].body, fragments[k].file)
        /\ ch.data = fragments[k].data
        /\ ch = [marker |-> ch.marker, data |-> ch.data]
    BY <1>3 DEF ChunkOf
  <2>4. /\ ch.marker \in Marker
        /\ ch.data \in Seq(Data)
        /\ fragments[k].body = "Filename" <=> fragments[k].file # None
        /\ fragments[k].body # "FileData" => fragments[k].data = << >>
    BY <2>1, <2>2, <2>3 DEF FragmentSet, MakeMarker, Marker
  <2>5. /\ ch.marker.seq = seq[class] + k - 1
        /\ ch.marker.body = fragments[k].body
        /\ ch.marker.file = fragments[k].file
    BY <2>3 DEF MakeMarker
  <2>6. ch \in Chunk /\ [class |-> class, marker |-> ch.marker, data |-> ch.data] \in Entry
    BY <2>3, <2>4 DEF Chunk, Entry
  <2>7. ~HasPayload(ch.marker) => ch.data = << >>
    BY <2>3, <2>4, <2>5 DEF HasPayload
  <2>8. ch.marker.body = "Filename" <=> ch.marker.file # None
    <3>1. /\ fragments[k].body = "Filename" <=> fragments[k].file # None
          /\ ch.marker.body = fragments[k].body
          /\ ch.marker.file = fragments[k].file
      BY <2>4, <2>5
    <3> QED BY ONLY <3>1
  <2>9. ch.data = fragments[k].data
    BY <2>3
  <2> QED BY <2>5, <2>6, <2>7, <2>8, <2>9
<1>4. /\ ChunksOf(class, fragments) \in Seq(Chunk)
      /\ Len(ChunksOf(class, fragments)) = Len(fragments)
  <2>1. \A k \in 1..Len(fragments) : ChunkOf(seq[class] + k - 1, fragments[k]) \in Chunk
    BY <1>3
  <2> QED BY <1>1, <2>1 DEF ChunksOf
<1>5. /\ Numbered(class, fragments) \in Seq(Entry)
      /\ Len(Numbered(class, fragments)) = Len(fragments)
  <2>1. \A k \in 1..Len(fragments) :
          [class  |-> class,
           marker |-> MakeMarker(seq[class] + k - 1, fragments[k].body, fragments[k].file),
           data   |-> fragments[k].data] \in Entry
    <3> TAKE k \in 1..Len(fragments)
    <3>1. ChunkOf(seq[class] + k - 1, fragments[k]).marker
            = MakeMarker(seq[class] + k - 1, fragments[k].body, fragments[k].file)
          /\ ChunkOf(seq[class] + k - 1, fragments[k]).data = fragments[k].data
      BY DEF ChunkOf
    <3> QED BY <1>3, <3>1
  <2> QED BY <1>1, <2>1 DEF Numbered
<1>6. ASSUME NEW k \in 1..Len(fragments)
      PROVE  /\ ChunksOf(class, fragments)[k] = ChunkOf(seq[class] + k - 1, fragments[k])
             /\ Numbered(class, fragments)[k].class = class
             /\ Numbered(class, fragments)[k].marker = ChunksOf(class, fragments)[k].marker
             /\ Numbered(class, fragments)[k].data = ChunksOf(class, fragments)[k].data
  BY DEF ChunksOf, ChunkOf, Numbered
<1> QED BY <1>3, <1>4, <1>5, <1>6

\* They are numbered on from those there are.
Appends(fr) ==
  /\ outbox' = Numbered("small", fr["small"]) \o Numbered("main", fr["main"])
  /\ seq' = [c \in Class |-> seq[c] + Len(fr[c])]
  /\ pipe' = pipe
  /\ target' = target

LEMMA Concatenation ==
  ASSUME NEW T, NEW a \in Seq(T), NEW b \in Seq(T)
  PROVE  /\ a \o b \in Seq(T) /\ Len(a \o b) = Len(a) + Len(b) /\ Len(a \o b) \in Nat
         /\ \A k \in 1..Len(a) : k \in 1..Len(a \o b) /\ (a \o b)[k] = a[k]
         /\ \A k \in 1..Len(b) :
              Len(a) + k \in 1..Len(a \o b) /\ (a \o b)[Len(a) + k] = b[k]
         /\ \A k \in 1..Len(a \o b) :
              \/ k \in 1..Len(a) /\ (a \o b)[k] = a[k]
              \/ k - Len(a) \in 1..Len(b) /\ (a \o b)[k] = b[k - Len(a)]
OBVIOUS

LEMMA NumberingIs ==
  ASSUME NEW fr, Apart(fr), seq \in [Class -> Nat], Appends(fr)
  PROVE  Numbering([c \in Class |-> ChunksOf(c, fr[c])])
<1> DEFINE more == [c \in Class |-> ChunksOf(c, fr[c])]
           S == Numbered("small", fr["small"])
           M == Numbered("main", fr["main"])
<1>1. /\ "small" \in Class /\ "main" \in Class /\ \A c \in Class : c = "small" \/ c = "main"
      /\ \A c \in Class : fr[c] \in Seq(FragmentSet) /\ Len(fr[c]) \in Nat
  BY DEF Apart, Class
<1>2. /\ more \in [Class -> Seq(Chunk)]
      /\ \A c \in Class : more[c] = ChunksOf(c, fr[c]) /\ Len(more[c]) = Len(fr[c])
  <2>1. \A c \in Class : /\ ChunksOf(c, fr[c]) \in Seq(Chunk)
                         /\ Len(ChunksOf(c, fr[c])) = Len(fr[c])
    BY <1>1, ChunksOfIs
  <2> QED BY <2>1
<1>3. ASSUME NEW c \in Class, NEW k \in 1..Len(more[c])
      PROVE  Proper(c, more[c][k]) /\ more[c][k].marker.seq = seq[c] + k - 1
  <2>1. k \in 1..Len(fr[c]) /\ more[c][k] = ChunksOf(c, fr[c])[k]
    BY <1>2
  <2> HIDE DEF more
  <2>0. fr[c] \in Seq(FragmentSet)
    BY <1>1
  <2>2. /\ more[c][k] \in Chunk
        /\ more[c][k].marker.seq = seq[c] + k - 1
        /\ more[c][k].marker.body = fr[c][k].body
        /\ more[c][k].marker.file = fr[c][k].file
        /\ more[c][k].marker.body = "Filename" <=> more[c][k].marker.file # None
        /\ ~HasPayload(more[c][k].marker) => more[c][k].data = << >>
    <3>1. LET ch == ChunksOf(c, fr[c])[k]
          IN  /\ ch \in Chunk
              /\ ch.marker.seq = seq[c] + k - 1
              /\ ch.marker.body = fr[c][k].body
              /\ ch.marker.file = fr[c][k].file
              /\ ch.marker.body = "Filename" <=> ch.marker.file # None
              /\ ~HasPayload(ch.marker) => ch.data = << >>
      BY <2>0, <2>1, ChunksOfIs
    <3> QED BY <2>1, <3>1
  <2>3. /\ c = "main" => more[c][k].marker.file # MetadataFile
        /\ c = "small" => more[c][k].marker.body # "ImageEof"
    BY <2>1, <2>2 DEF Apart
  <2> QED BY <2>2, <2>3 DEF Proper
<1>4. seq' = [c \in Class |-> seq[c] + Len(more[c])] /\ pipe' = pipe /\ target' = target
  BY <1>2 DEF Appends
<1>5. /\ S \in Seq(Entry) /\ Len(S) = Len(more["small"]) /\ Len(S) \in Nat
      /\ \A k \in 1..Len(S) : /\ S[k].class = "small"
                              /\ S[k].marker = more["small"][k].marker
                              /\ S[k].data = more["small"][k].data
  <2>1. fr["small"] \in Seq(FragmentSet) /\ Len(fr["small"]) \in Nat /\ "small" \in Class
    BY <1>1
  <2>2. more["small"] = ChunksOf("small", fr["small"]) /\ Len(more["small"]) = Len(fr["small"])
    BY <1>1, <1>2
  <2> HIDE DEF more
  <2>3. S \in Seq(Entry) /\ Len(S) = Len(fr["small"])
    BY <2>1, ChunksOfIs
  <2>4. \A k \in 1..Len(fr["small"]) :
          /\ S[k].class = "small"
          /\ S[k].marker = ChunksOf("small", fr["small"])[k].marker
          /\ S[k].data = ChunksOf("small", fr["small"])[k].data
    BY <2>1, ChunksOfIs
  <2> HIDE DEF S
  <2> QED BY <2>1, <2>2, <2>3, <2>4
<1>6. /\ M \in Seq(Entry) /\ Len(M) = Len(more["main"]) /\ Len(M) \in Nat
      /\ \A k \in 1..Len(M) : /\ M[k].class = "main"
                              /\ M[k].marker = more["main"][k].marker
                              /\ M[k].data = more["main"][k].data
  <2>1. fr["main"] \in Seq(FragmentSet) /\ Len(fr["main"]) \in Nat /\ "main" \in Class
    BY <1>1
  <2>2. more["main"] = ChunksOf("main", fr["main"]) /\ Len(more["main"]) = Len(fr["main"])
    BY <1>1, <1>2
  <2> HIDE DEF more
  <2>3. M \in Seq(Entry) /\ Len(M) = Len(fr["main"])
    BY <2>1, ChunksOfIs
  <2>4. \A k \in 1..Len(fr["main"]) :
          /\ M[k].class = "main"
          /\ M[k].marker = ChunksOf("main", fr["main"])[k].marker
          /\ M[k].data = ChunksOf("main", fr["main"])[k].data
    BY <2>1, ChunksOfIs
  <2> HIDE DEF M
  <2> QED BY <2>1, <2>2, <2>3, <2>4
<1>s. seq["small"] \in Nat /\ seq["main"] \in Nat
  BY <1>1
<1> HIDE DEF more, S, M
<1>7. /\ outbox' \in Seq(Entry) /\ Len(outbox') = Len(S) + Len(M) /\ Len(outbox') \in Nat
      /\ \A k \in 1..Len(S) : k \in 1..Len(outbox') /\ outbox'[k] = S[k]
      /\ \A k \in 1..Len(M) : Len(S) + k \in 1..Len(outbox') /\ outbox'[Len(S) + k] = M[k]
      /\ \A k \in 1..Len(outbox') :
           \/ k \in 1..Len(S) /\ outbox'[k] = S[k]
           \/ k - Len(S) \in 1..Len(M) /\ outbox'[k] = M[k - Len(S)]
  <2>1. outbox' = S \o M
    BY DEF S, M, Appends
  <2>2. /\ S \o M \in Seq(Entry) /\ Len(S \o M) = Len(S) + Len(M) /\ Len(S \o M) \in Nat
        /\ \A k \in 1..Len(S) : k \in 1..Len(S \o M) /\ (S \o M)[k] = S[k]
        /\ \A k \in 1..Len(M) :
             Len(S) + k \in 1..Len(S \o M) /\ (S \o M)[Len(S) + k] = M[k]
        /\ \A k \in 1..Len(S \o M) :
             \/ k \in 1..Len(S) /\ (S \o M)[k] = S[k]
             \/ k - Len(S) \in 1..Len(M) /\ (S \o M)[k] = M[k - Len(S)]
    <3>1. S \in Seq(Entry) /\ M \in Seq(Entry)
      BY <1>5, <1>6
    <3> QED BY ONLY <3>1, Concatenation
  <2> QED BY <2>1, <2>2
<1>8. ASSUME NEW k \in 1..Len(outbox')
      PROVE  \/ /\ outbox'[k].class = "small" /\ k \in 1..Len(more["small"]) /\ k <= Len(S)
                /\ outbox'[k].marker = more["small"][k].marker
                /\ outbox'[k].data = more["small"][k].data
             \/ /\ outbox'[k].class = "main" /\ k - Len(S) \in 1..Len(more["main"])
                /\ outbox'[k].marker = more["main"][k - Len(S)].marker
                /\ outbox'[k].data = more["main"][k - Len(S)].data
  <2>1. CASE k \in 1..Len(S) /\ outbox'[k] = S[k]
    BY <1>5, <2>1
  <2>2. CASE k - Len(S) \in 1..Len(M) /\ outbox'[k] = M[k - Len(S)]
    BY <1>6, <2>2
  <2> QED BY <1>7, <2>1, <2>2
<1>9. \A k \in 1..Len(outbox') : \E n \in 1..Len(more[outbox'[k].class]) :
        /\ outbox'[k].marker = more[outbox'[k].class][n].marker
        /\ outbox'[k].data = more[outbox'[k].class][n].data
  <2> TAKE k \in 1..Len(outbox')
  <2>1. CASE /\ outbox'[k].class = "small" /\ k \in 1..Len(more["small"])
             /\ outbox'[k].marker = more["small"][k].marker
             /\ outbox'[k].data = more["small"][k].data
    BY <2>1
  <2>2. CASE /\ outbox'[k].class = "main" /\ k - Len(S) \in 1..Len(more["main"])
             /\ outbox'[k].marker = more["main"][k - Len(S)].marker
             /\ outbox'[k].data = more["main"][k - Len(S)].data
    BY <2>2
  <2> QED BY <1>8, <2>1, <2>2
<1>10. ASSUME NEW j \in 1..Len(outbox'), NEW k \in 1..Len(outbox'), j < k,
              outbox'[j].class = outbox'[k].class
       PROVE  outbox'[j].marker.seq < outbox'[k].marker.seq
  <2>0. j \in Int /\ k \in Int /\ Len(S) \in Int
    BY <1>5, <1>7
  <2>1. CASE outbox'[j].class = "small"
    <3>1. outbox'[j].marker.seq = seq["small"] + j - 1 /\ outbox'[k].marker.seq = seq["small"] + k - 1
      <4>1. /\ j \in 1..Len(more["small"]) /\ outbox'[j].marker = more["small"][j].marker
            /\ k \in 1..Len(more["small"]) /\ outbox'[k].marker = more["small"][k].marker
        BY <1>8, <1>10, <2>1
      <4> QED BY <1>1, <1>3, <4>1
    <3> QED BY <1>s, <1>10, <2>0, <3>1
  <2>2. CASE outbox'[j].class = "main"
    <3>1. /\ outbox'[j].marker.seq = seq["main"] + (j - Len(S)) - 1
          /\ outbox'[k].marker.seq = seq["main"] + (k - Len(S)) - 1
      <4> DEFINE p == j - Len(S)
                 q == k - Len(S)
      <4>1. /\ p \in 1..Len(more["main"]) /\ outbox'[j].marker = more["main"][p].marker
            /\ q \in 1..Len(more["main"]) /\ outbox'[k].marker = more["main"][q].marker
        BY <1>8, <1>10, <2>2
      <4> HIDE DEF p, q
      <4>2. /\ outbox'[j].marker.seq = seq["main"] + p - 1
            /\ outbox'[k].marker.seq = seq["main"] + q - 1
        BY <1>1, <1>3, <4>1
      <4> QED BY <4>2 DEF p, q
    <3> QED BY <1>s, <1>10, <2>0, <3>1
  <2> QED BY <1>8, <2>1, <2>2
<1>11. ASSUME NEW c \in Class, NEW n \in 1..Len(more[c])
       PROVE  \E k \in 1..Len(outbox') : outbox'[k].class = c /\ outbox'[k].marker = more[c][n].marker
  <2>1. CASE c = "small"
    <3>1. n \in 1..Len(S)
      BY <1>5, <2>1
    <3>2. n \in 1..Len(outbox') /\ outbox'[n] = S[n]
      BY <1>7, <3>1
    <3> QED BY <1>5, <2>1, <3>1, <3>2
  <2>2. CASE c = "main"
    <3>1. n \in 1..Len(M)
      BY <1>6, <2>2
    <3>2. Len(S) + n \in 1..Len(outbox') /\ outbox'[Len(S) + n] = M[n]
      BY <1>7, <3>1
    <3> QED BY <1>6, <2>2, <3>1, <3>2
  <2> QED BY <1>1, <2>1, <2>2
<1>12. Numbering(more)
  BY <1>2, <1>3, <1>4, <1>7, <1>9, <1>10, <1>11 DEF Numbering
<1> QED BY <1>12 DEF more

\* A chunk carries what a fragment does.
Carries(ch, x) == ch.marker.body = x.body /\ ch.marker.file = x.file /\ ch.data = x.data

\* The numbered chunks carry what the fragments do.
Alike(more, fr) ==
  \A c \in Class :
    /\ Len(more[c]) = Len(fr[c])
    /\ \A k \in 1..Len(fr[c]) : Carries(more[c][k], fr[c][k])

LEMMA AppendsNumber ==
  ASSUME NEW fr, Apart(fr), seq \in [Class -> Nat], Appends(fr)
  PROVE  \E more : Numbering(more) /\ Alike(more, fr)
<1> DEFINE more == [c \in Class |-> ChunksOf(c, fr[c])]
<1>1. Numbering(more)
  BY NumberingIs
<1>2. ASSUME NEW c \in Class
      PROVE  /\ Len(more[c]) = Len(fr[c])
             /\ \A k \in 1..Len(fr[c]) : Carries(more[c][k], fr[c][k])
  <2>1. fr[c] \in Seq(FragmentSet) /\ more[c] = ChunksOf(c, fr[c])
    BY DEF Apart
  <2> HIDE DEF more
  <2>2. Len(ChunksOf(c, fr[c])) = Len(fr[c])
    BY <2>1, ChunksOfIs
  <2>3. \A k \in 1..Len(fr[c]) : Carries(ChunksOf(c, fr[c])[k], fr[c][k])
    BY <2>1, ChunksOfIs DEF Carries
  <2> QED BY <2>1, <2>2, <2>3
<1> HIDE DEF more
<1>3. Alike(more, fr)
  BY <1>2 DEF Alike
<1> QED BY <1>1, <1>3

\* new is str and the chunks that carry the fragments fr.
Grown(str, new, fr) ==
  \A c \in Class :
    /\ str[c] \in Seq(Chunk) /\ new[c] \in Seq(Chunk) /\ Len(fr[c]) \in Nat
    /\ Len(new[c]) = Len(str[c]) + Len(fr[c])
    /\ \A k \in 1..Len(str[c]) : new[c][k] = str[c][k]
    /\ \A k \in 1..Len(fr[c]) : Carries(new[c][Len(str[c]) + k], fr[c][k])

LEMMA ExtendedGrows ==
  ASSUME NEW str, NEW put, Carried(str, put), NEW more, Numbering(more),
         NEW fr, Alike(more, fr)
  PROVE  Grown(str, Extended(str, more), fr)
<1>1. str \in [Class -> Seq(Chunk)] /\ more \in [Class -> Seq(Chunk)]
  BY DEF Carried, Streams, Numbering
<1>2. PICK new : new = Extended(str, more)
  OBVIOUS
<1> SUFFICES ASSUME NEW c \in Class
             PROVE  /\ str[c] \in Seq(Chunk) /\ new[c] \in Seq(Chunk) /\ Len(fr[c]) \in Nat
                    /\ Len(new[c]) = Len(str[c]) + Len(fr[c])
                    /\ \A k \in 1..Len(str[c]) : new[c][k] = str[c][k]
                    /\ \A k \in 1..Len(fr[c]) : Carries(new[c][Len(str[c]) + k], fr[c][k])
  BY <1>2 DEF Grown
<1>3. /\ new \in [Class -> Seq(Chunk)]
      /\ Len(more[c]) \in Nat
      /\ Len(new[c]) = Len(str[c]) + Len(more[c])
      /\ \A k \in 1..Len(str[c]) : new[c][k] = str[c][k]
      /\ \A k \in 1..Len(more[c]) : new[c][Len(str[c]) + k] = more[c][k]
  BY <1>1, <1>2, ExtendedIs
<1>4. Len(more[c]) = Len(fr[c]) /\ \A k \in 1..Len(fr[c]) : Carries(more[c][k], fr[c][k])
  BY DEF Alike
<1> QED BY <1>1, <1>3, <1>4

\* What capture() adds at its end.
LEMMA EndFragmentsAre ==
  ASSUME metadata \in Seq(File)
  PROVE  /\ Apart(EndFragments)
         /\ Len(EndFragments["small"]) = 3 /\ Len(EndFragments["main"]) = 1
         /\ EndFragments["small"][1].file = MetadataFile /\ EndFragments["small"][1].body = "Filename"
         /\ EndFragments["small"][2].data = metadata
         /\ EndFragments["small"][2].file = None /\ EndFragments["small"][2].body = "FileData"
         /\ EndFragments["small"][3].file = None /\ EndFragments["small"][3].body = "FileEof"
         /\ EndFragments["main"][1].body = "ImageEof"
<1> DEFINE a == Fragment("Filename", MetadataFile, << >>)
           b == Fragment("FileData", None, metadata)
           e == Fragment("FileEof", None, << >>)
           i == Fragment("ImageEof", None, << >>)
<1>1. None # MetadataFile /\ metadata \in Seq(Data) /\ << >> \in Seq(Data)
  <2>1. File \subseteq Data
    BY DataAssumption
  <2> QED BY <2>1, ImageAssumption
<1>2. /\ a \in FragmentSet /\ b \in FragmentSet /\ e \in FragmentSet /\ i \in FragmentSet
  BY <1>1 DEF FragmentSet, Fragment, Body, FileName
<1>3. /\ a.file = MetadataFile /\ a.body = "Filename"
      /\ b.file = None /\ b.body = "FileData" /\ b.data = metadata
      /\ e.file = None /\ e.body = "FileEof"
      /\ i.file = None /\ i.body = "ImageEof"
  BY DEF Fragment
<1>4. EndFragments = [small |-> <<a, b>> \o <<e>>, main |-> <<i>>]
  BY DEF EndFragments, EofFragment
<1> HIDE DEF a, b, e, i
<1> DEFINE S == <<a, b>> \o <<e>>
           M == <<i>>
<1>5. S \in Seq(FragmentSet) /\ Len(S) = 3 /\ S[1] = a /\ S[2] = b /\ S[3] = e
  <2>1. <<a, b>> \in Seq(FragmentSet) /\ <<e>> \in Seq(FragmentSet)
    BY <1>2
  <2>2. /\ Len(<<a, b>>) = 2 /\ Len(<<e>>) = 1
        /\ <<a, b>>[1] = a /\ <<a, b>>[2] = b /\ <<e>>[1] = e
    OBVIOUS
  <2> QED BY <2>1, <2>2
<1>6. M \in Seq(FragmentSet) /\ Len(M) = 1 /\ M[1] = i
  BY <1>2
<1> HIDE DEF S, M
<1>7. EndFragments["small"] = S /\ EndFragments["main"] = M
  BY <1>4 DEF S, M
<1>8. EndFragments \in [Class -> Seq(FragmentSet)]
  <2>1. EndFragments = [small |-> S, main |-> M]
    BY <1>4 DEF S, M
  <2>2. [small |-> S, main |-> M] \in [{"small", "main"} -> Seq(FragmentSet)]
    BY <1>5, <1>6
  <2> QED BY <2>1, <2>2 DEF Class
<1>9. Apart(EndFragments)
  <2>1. ASSUME NEW k \in 1..Len(M)
        PROVE  M[k].file # MetadataFile
    <3>1. k = 1
      BY <1>6
    <3> QED BY <1>1, <1>3, <1>6, <3>1
  <2>2. ASSUME NEW k \in 1..Len(S)
        PROVE  S[k].body # "ImageEof"
    <3>1. k = 1 \/ k = 2 \/ k = 3
      BY <1>5
    <3>2. S[k] \in {a, b, e}
      BY <1>5, <3>1
    <3> QED BY <1>3, <3>2
  <2> QED BY <1>7, <1>8, <2>1, <2>2 DEF Apart
<1> QED BY <1>3, <1>5, <1>6, <1>7, <1>9

\* What drain_img_file() adds.
LEMMA DivisionBounds ==
  ASSUME NEW len \in Nat, NEW n \in Nat \ {0}, NEW k \in 1..((len + n - 1) \div n)
  PROVE  (k - 1) * n \in Nat /\ (k - 1) * n < len
<1> DEFINE q == (len + n - 1) \div n
<1>1. q \in Int /\ q * n <= len + n - 1
  OBVIOUS
<1> HIDE DEF q
<1>2. k \in Int /\ 1 <= k /\ k <= q
  BY <1>1 DEF q
<1>3. k * n <= q * n
  BY <1>1, <1>2
<1>4. (k - 1) * n = k * n - n
  BY <1>2
<1>5. (k - 1) * n \in Nat
  BY <1>2
<1> QED BY <1>1, <1>2, <1>3, <1>4, <1>5

LEMMA DataFragmentsAre ==
  ASSUME NEW f \in File, produced \in [File -> 0..MaxSize], drained \in [File -> 0..MaxSize],
         drained[f] <= produced[f]
  PROVE  DataFragments(f) \in Seq(Ordinary)
<1> DEFINE len == Fionread(f)
           count == (len + ChunkMax - 1) \div ChunkMax
           Units(done) == [i \in 1..DataSize(len - done) |-> <<f, drained[f] + done + i>>]
<1>1. /\ produced[f] \in 0..MaxSize /\ drained[f] \in 0..MaxSize /\ len = produced[f] - drained[f]
      /\ MaxSize \in Nat /\ ChunkMax \in Nat /\ ChunkMax # 0
  BY SerializerAssumption DEF Fionread
<1>2. len \in Nat /\ drained[f] + len <= MaxSize
  BY <1>1
<1> HIDE DEF len
<1>3. count \in Nat
  <2>1. len + ChunkMax - 1 \in Nat /\ ChunkMax \in Nat \ {0}
    BY <1>1, <1>2
  <2> QED BY <2>1
<1>4. ASSUME NEW k \in 1..count
      PROVE  Units((k - 1) * ChunkMax) \in Seq(Data)
  <2> DEFINE done == (k - 1) * ChunkMax
  <2>1. done \in Nat /\ done < len
    BY <1>1, <1>2, DivisionBounds
  <2> HIDE DEF done
  <2>2. DataSize(len - done) \in Nat /\ DataSize(len - done) <= len - done
    BY <1>1, <1>2, <2>1 DEF DataSize
  <2>3. ASSUME NEW i \in 1..DataSize(len - done)
        PROVE  <<f, drained[f] + done + i>> \in Data
    <3>1. drained[f] + done + i \in 1..MaxSize
      BY <1>1, <1>2, <2>1, <2>2
    <3> QED BY <3>1, DataAssumption
  <2>4. Units(done) \in Seq(Data)
    BY <2>2, <2>3
  <2> QED BY <2>4 DEF done
<1>5. ASSUME NEW k \in 1..count
      PROVE  Fragment("FileData", None, Units((k - 1) * ChunkMax)) \in Ordinary
  <2>1. None # MetadataFile
    BY ImageAssumption
  <2> HIDE DEF Units
  <2> QED BY <1>4, <2>1 DEF Ordinary, FragmentSet, Fragment, Body
<1>6. DataFragments(f) = [k \in 1..count |-> Fragment("FileData", None, Units((k - 1) * ChunkMax))]
  BY DEF DataFragments, len
<1> HIDE DEF Units, count
<1> QED BY <1>3, <1>5, <1>6

-----------------------------------------------------------------------------
\* The fold of ReplayChunks, chunk by chunk.

\* g is what the fold of ReplayChunks computes for all the sets of D.
IsReplay(c, x, q, D, g) ==
  g = [s \in D |-> IF s = {} THEN x ELSE Applied(c, g[s \ {Max(s)}], q[Max(s)])]

ReplayTable(c, x, q) == CHOOSE g : IsReplay(c, x, q, SUBSET (DOMAIN q), g)

LEMMA ReplayIsInTable ==
  ASSUME NEW c, NEW x, NEW q
  PROVE  ReplayChunks(c, x, q) = ReplayTable(c, x, q)[DOMAIN q]
BY DEF ReplayChunks, FoldLeft, MapThenFoldSet, ReplayTable, IsReplay, Applied

LEMMA MaxIs ==
  ASSUME NEW n \in Nat, NEW s \in SUBSET (1..n), s # {}
  PROVE  Max(s) \in s /\ \A i \in s : Max(s) >= i
<1>1. PICK T : T = {n - i : i \in s}
  OBVIOUS
<1>2. T \in SUBSET Nat /\ T # {}
  <2>1. \A i \in s : i \in 1..n
    OBVIOUS
  <2>2. \A i \in 1..n : n - i \in Nat
    OBVIOUS
  <2> QED BY <1>1, <2>1, <2>2
<1>3. PICK m \in T : \A k \in T : m <= k
  BY <1>2, LeastElement
<1>4. PICK i \in s : m = n - i
  BY <1>1
<1>5. \A j \in s : i >= j
  <2> TAKE j \in s
  <2>1. n - j \in T /\ i \in Int /\ j \in Int
    BY <1>1
  <2>2. n - i <= n - j
    BY <1>3, <1>4, <2>1
  <2> QED BY <2>1, <2>2
<1> QED BY <1>5 DEF Max

LEMMA ReplayTableExists ==
  ASSUME NEW c, NEW x, NEW q, NEW l \in Nat
  PROVE  \E g : IsReplay(c, x, q, SUBSET (1..l), g)
<1> DEFINE S == 1..l
           T == {n \in Nat : \E g : IsReplay(c, x, q, UpTo(S, n), g)}
<1>0. IsFiniteSet(S)
  BY FS_Interval
<1> HIDE DEF S
<1>1. 0 \in T
  <2>1. \A s \in UpTo(S, 0) : s = {}
    BY <1>0, FS_Subset, FS_EmptySet, FS_CardinalityType DEF UpTo
  <2>2. IsReplay(c, x, q, UpTo(S, 0), [s \in UpTo(S, 0) |-> x])
    BY <2>1 DEF IsReplay
  <2> QED BY <2>2
<1>2. ASSUME NEW n \in T
      PROVE  n + 1 \in T
  <2>1. PICK g : IsReplay(c, x, q, UpTo(S, n), g)
    OBVIOUS
  <2> DEFINE h == [s \in UpTo(S, n + 1) |->
                     IF s = {} THEN x ELSE Applied(c, g[s \ {Max(s)}], q[Max(s)])]
  <2>2. ASSUME NEW s \in UpTo(S, n + 1), s # {}
        PROVE  s \ {Max(s)} \in UpTo(S, n) /\ s \ {Max(s)} \in UpTo(S, n + 1)
    <3>1. IsFiniteSet(s) /\ Cardinality(s) <= n + 1
      BY <1>0, FS_Subset DEF UpTo
    <3>2. Max(s) \in s
      BY <2>2, MaxIs DEF UpTo, S
    <3>3. PICK r : r = s \ {Max(s)}
      OBVIOUS
    <3>4. IsFiniteSet(r) /\ Cardinality(r) = Cardinality(s) - 1 /\ Cardinality(s) \in Nat
      BY <3>1, <3>2, <3>3, FS_RemoveElement, FS_CardinalityType
    <3>5. r \in SUBSET S
      BY <3>3 DEF UpTo
    <3>6. n \in Nat /\ Cardinality(r) <= n /\ Cardinality(r) <= n + 1
      BY <3>1, <3>4
    <3> QED BY <3>3, <3>5, <3>6 DEF UpTo
  <2>3. ASSUME NEW s \in UpTo(S, n)
        PROVE  g[s] = h[s]
    <3>1. Cardinality(s) \in Nat
      BY <1>0, FS_Subset, FS_CardinalityType DEF UpTo
    <3>2. s \in UpTo(S, n + 1)
      BY <3>1 DEF UpTo
    <3> QED BY <2>1, <3>2 DEF IsReplay
  <2>4. h = [s \in UpTo(S, n + 1) |->
               IF s = {} THEN x ELSE Applied(c, h[s \ {Max(s)}], q[Max(s)])]
    <3> HIDE DEF h
    <3>1. \A s \in UpTo(S, n + 1) : s # {} => g[s \ {Max(s)}] = h[s \ {Max(s)}]
      BY <2>2, <2>3
    <3>2. h = [s \in UpTo(S, n + 1) |->
                 IF s = {} THEN x ELSE Applied(c, g[s \ {Max(s)}], q[Max(s)])]
      BY DEF h
    <3> QED BY <3>1, <3>2
  <2>5. \E t : IsReplay(c, x, q, UpTo(S, n + 1), t)
    BY <2>4 DEF IsReplay
  <2> QED BY <2>5
<1>3. T = Nat
  <2> HIDE DEF T
  <2>1. T \in SUBSET Nat
    BY DEF T
  <2> QED BY <1>1, <1>2, <2>1, SetInduction
<1>4. Cardinality(S) \in T
  BY <1>0, <1>3, FS_CardinalityType
<1>5. UpTo(S, Cardinality(S)) = SUBSET S
  BY <1>0, FS_Subset DEF UpTo
<1> QED BY <1>4, <1>5 DEF S

LEMMA ReplayTableIs ==
  ASSUME NEW c, NEW x, NEW U, NEW q \in Seq(U), NEW g, g = ReplayTable(c, x, q)
  PROVE  /\ g[1..0] = x
         /\ g[1..Len(q)] = ReplayChunks(c, x, q)
         /\ \A n \in 0..(Len(q) - 1) : g[1..(n + 1)] = Applied(c, g[1..n], q[n + 1])
<1>1. Len(q) \in Nat /\ DOMAIN q = 1..Len(q)
  OBVIOUS
<1>2. IsReplay(c, x, q, SUBSET (1..Len(q)), g)
  BY <1>1, ReplayTableExists DEF ReplayTable
<1>3. 1..0 = {} /\ {} \in SUBSET (1..Len(q))
  BY <1>1
<1>4. g[1..0] = x
  BY <1>2, <1>3 DEF IsReplay
<1>5. g[1..Len(q)] = ReplayChunks(c, x, q)
  BY <1>1, ReplayIsInTable
<1>6. ASSUME NEW n \in 0..(Len(q) - 1)
      PROVE  g[1..(n + 1)] = Applied(c, g[1..n], q[n + 1])
  <2>1. PICK s, m : s = 1..(n + 1) /\ m = n + 1
    OBVIOUS
  <2>0. n \in Nat /\ n + 1 <= Len(q)
    BY <1>1
  <2>7. Len(q) \in Nat
    BY <1>1
  <2>2. s \in SUBSET (1..Len(q)) /\ s # {} /\ n + 1 \in Nat
    <3>1. PICK l \in Nat : l = Len(q)
      BY <1>1
    <3>2. \A i \in 1..(n + 1) : i \in 1..l
      BY ONLY <2>0, <3>1, n \in Nat, l \in Nat
    <3>3. n + 1 \in 1..(n + 1) /\ n + 1 \in Nat
      BY ONLY <2>0
    <3> QED BY <2>1, <3>1, <3>2, <3>3
  <2>3. Max(s) \in s /\ \A i \in s : Max(s) >= i
    BY <1>1, <2>2, MaxIs
  <2>4. Max(s) = m
    BY <2>1, <2>2, <2>3
  <2>5. s \ {m} = 1..n
    BY <2>1, <2>2
  <2>6. g[s] = Applied(c, g[s \ {m}], q[m])
    BY <1>2, <2>2, <2>4 DEF IsReplay
  <2> QED BY <2>1, <2>5, <2>6
<1> QED BY <1>4, <1>5, <1>6

LEMMA ReplayNone ==
  ASSUME NEW c, NEW x
  PROVE  ReplayChunks(c, x, << >>) = x
<1>1. << >> \in Seq({}) /\ Len(<< >>) = 0
  OBVIOUS
<1>2. PICK g : g = ReplayTable(c, x, << >>)
  OBVIOUS
<1>3. g[1..0] = x /\ g[1..Len(<< >>)] = ReplayChunks(c, x, << >>)
  <2>1. PICK q : q = << >>
    OBVIOUS
  <2>2. PICK U : q \in Seq(U)
    BY <1>1, <2>1
  <2>3. g = ReplayTable(c, x, q)
    BY <1>2, <2>1
  <2>4. g[1..0] = x /\ g[1..Len(q)] = ReplayChunks(c, x, q)
    BY ONLY <2>2, <2>3, ReplayTableIs
  <2> QED BY <2>1, <2>4
<1> QED BY <1>1, <1>3

\* at[n] is the image after n chunks of q, of which a is the first part.
Passes(at, c, x, a, q) ==
  /\ at[Len(a)] = ReplayChunks(c, x, a)
  /\ at[Len(q)] = ReplayChunks(c, x, q)
  /\ \A n \in Len(a)..(Len(q) - 1) : at[n + 1] = Applied(c, at[n], q[n + 1])

\* A replay that goes on passes through what it was, and on chunk by chunk.
LEMMA ReplayGoesOn ==
  ASSUME NEW c, NEW x, NEW U, NEW a \in Seq(U), NEW q \in Seq(U), Len(a) <= Len(q),
         \A i \in 1..Len(a) : a[i] = q[i]
  PROVE  \E at : Passes(at, c, x, a, q)
<1>1. PICK g, h : g = ReplayTable(c, x, q) /\ h = ReplayTable(c, x, a)
  OBVIOUS
<1>2. /\ g[1..0] = x /\ g[1..Len(q)] = ReplayChunks(c, x, q)
      /\ \A n \in 0..(Len(q) - 1) : g[1..(n + 1)] = Applied(c, g[1..n], q[n + 1])
  BY <1>1, ReplayTableIs
<1>3. /\ h[1..0] = x /\ h[1..Len(a)] = ReplayChunks(c, x, a)
      /\ \A n \in 0..(Len(a) - 1) : h[1..(n + 1)] = Applied(c, h[1..n], a[n + 1])
  BY <1>1, ReplayTableIs
<1>4. Len(a) \in Nat /\ Len(q) \in Nat
  OBVIOUS
<1> DEFINE T == {n \in Nat : n <= Len(a) => g[1..n] = h[1..n]}
<1>5. ASSUME NEW n \in T
      PROVE  n + 1 \in T
  <2>1. CASE n + 1 <= Len(a)
    <3>1. n \in 0..(Len(a) - 1) /\ n \in 0..(Len(q) - 1) /\ n + 1 \in 1..Len(a) /\ n \in Nat
      BY <1>4, <2>1
    <3>2. a[n + 1] = q[n + 1] /\ g[1..n] = h[1..n]
      BY <1>4, <3>1, <2>1
    <3> QED BY <1>2, <1>3, <3>1, <3>2
  <2>2. CASE ~(n + 1 <= Len(a))
    BY <2>2
  <2> QED BY <2>1, <2>2
<1>6. T = Nat
  <2>1. 0 \in T
    BY <1>2, <1>3
  <2> HIDE DEF T
  <2>2. T \in SUBSET Nat
    BY DEF T
  <2> QED BY <1>5, <2>1, <2>2, SetInduction
<1>7. g[1..Len(a)] = ReplayChunks(c, x, a)
  BY <1>3, <1>4, <1>6
<1> DEFINE at == [n \in 0..Len(q) |-> g[1..n]]
<1>8. \A n \in 0..Len(q) : at[n] = g[1..n]
  OBVIOUS
<1> HIDE DEF at
<1>9. at[Len(a)] = ReplayChunks(c, x, a) /\ at[Len(q)] = ReplayChunks(c, x, q)
  BY <1>2, <1>4, <1>7, <1>8
<1>10. ASSUME NEW n \in Len(a)..(Len(q) - 1)
       PROVE  at[n + 1] = Applied(c, at[n], q[n + 1])
  <2>1. n \in 0..Len(q) /\ n + 1 \in 0..Len(q) /\ n \in 0..(Len(q) - 1)
    BY <1>4
  <2> QED BY <1>2, <1>8, <2>1
<1> QED BY <1>9, <1>10 DEF Passes

LEMMA ReplayingExists ==
  ASSUME NEW c, NEW x, NEW q \in Seq(Chunk)
  PROVE  \E at : Replaying(at, c, x, q)
<1>1. PICK a : a = << >> /\ a \in Seq(Chunk)
  <2>1. << >> \in Seq(Chunk)
    OBVIOUS
  <2> QED BY <2>1
<1>2. Len(a) = 0 /\ 1..Len(a) = {} /\ Len(a) <= Len(q)
  BY <1>1
<1>3. PICK at : Passes(at, c, x, a, q)
  <2>1. PICK U : U = Chunk
    OBVIOUS
  <2>2. a \in Seq(U) /\ q \in Seq(U) /\ \A i \in 1..Len(a) : a[i] = q[i]
    BY <1>1, <1>2, <2>1
  <2> QED BY <1>2, <2>2, ReplayGoesOn
<1>4. ReplayChunks(c, x, a) = x
  BY <1>1, ReplayNone
<1> QED BY <1>2, <1>3, <1>4 DEF Passes, Replaying

-----------------------------------------------------------------------------
\* What each kind of chunk does to an image.

LEMMA ImageFields ==
  ASSUME NEW r \in Image
  PROVE  /\ r # None
         /\ r.current_img_file \in FileName \cup {None} /\ r.img_files \in SUBSET FileName
         /\ r.content \in [FileName -> Seq(Data)] /\ r.inserted \in SUBSET FileName
         /\ r.metadata \in Seq(Data) \cup {None} /\ r.image_eof \in BOOLEAN
         /\ r = [current_img_file |-> r.current_img_file, img_files |-> r.img_files,
                 content |-> r.content, inserted |-> r.inserted, metadata |-> r.metadata,
                 image_eof |-> r.image_eof]
BY NoneAssumption DEF Image

LEMMA NamesFile ==
  ASSUME NEW r \in Image, NEW f \in FileName, NEW s, s = SelectImgFile(r, f)
  PROVE  /\ s \in Image
         /\ s.current_img_file = f
         /\ s.img_files = Begun(r) \ {f}
         /\ s.content = [r.content EXCEPT ![f] = IF f \in Begun(r) THEN @ ELSE << >>]
         /\ s.inserted = r.inserted /\ s.metadata = r.metadata /\ s.image_eof = r.image_eof
<1>1. PICK files, content : /\ files = Begun(r) \ {f}
                            /\ content = [r.content EXCEPT ![f] = IF f \in Begun(r) THEN @ ELSE << >>]
  OBVIOUS
<1>2. files \in SUBSET FileName /\ content \in [FileName -> Seq(Data)]
  BY <1>1, ImageFields DEF Begun
<1>3. s = [current_img_file |-> f, img_files |-> files, content |-> content,
           inserted |-> r.inserted, metadata |-> r.metadata, image_eof |-> r.image_eof]
  <2>1. PICK cur, fs, ct, ins, md, eof :
          r = [current_img_file |-> cur, img_files |-> fs, content |-> ct, inserted |-> ins,
               metadata |-> md, image_eof |-> eof]
    BY ImageFields
  <2>2. s = [current_img_file |-> f, img_files |-> files, content |-> content,
             inserted |-> ins, metadata |-> md, image_eof |-> eof]
    BY <1>1, <2>1 DEF SelectImgFile, Begun
  <2> QED BY <2>1, <2>2
<1>4. s \in Image
  BY <1>2, <1>3, ImageFields DEF Image
<1> QED BY <1>1, <1>3, <1>4

\* What data does to the current file.
Given(r, f, data, s) ==
  /\ s \in Image
  /\ s.current_img_file = f
  /\ s.img_files = r.img_files
  /\ s.content = [r.content EXCEPT ![f] = @ \o data]
  /\ s.inserted = r.inserted /\ s.metadata = r.metadata /\ s.image_eof = r.image_eof

LEMMA GivesData ==
  ASSUME NEW r \in Image, NEW f \in File, r.current_img_file = f, NEW data \in Seq(Data),
         NEW c, NEW s, s = ApplyData(c, r, data)
  PROVE  Given(r, f, data, s)
<1>1. PICK content : content = [r.content EXCEPT ![f] = @ \o data]
  OBVIOUS
<1>2. f \in FileName /\ f # MetadataFile
  BY ImageAssumption DEF FileName
<1>3. r.content[f] \in Seq(Data)
  BY <1>2, ImageFields
<1>4. r.content[f] \o data \in Seq(Data)
  BY <1>3, ConcatProperties
<1>5. content \in [FileName -> Seq(Data)]
  BY <1>1, <1>4, ImageFields
<1>6. s = [current_img_file |-> f, img_files |-> r.img_files, content |-> content,
           inserted |-> r.inserted, metadata |-> r.metadata, image_eof |-> r.image_eof]
  <2>1. PICK fs, ct, ins, md, eof :
          r = [current_img_file |-> f, img_files |-> fs, content |-> ct, inserted |-> ins,
               metadata |-> md, image_eof |-> eof]
    BY ImageFields
  <2>2. s = [current_img_file |-> f, img_files |-> fs, content |-> content,
             inserted |-> ins, metadata |-> md, image_eof |-> eof]
    <3>1. s = [r EXCEPT !.content[f] = @ \o data]
      BY <1>2, Zenon DEF ApplyData, IsMetadata
    <3>2. s = [r EXCEPT !.content = content]
      BY <1>1, <2>1, <3>1
    <3> QED BY <2>1, <3>2
  <2> QED BY <2>1, <2>2
<1>7. s \in Image
  BY <1>2, <1>5, <1>6, ImageFields DEF Image
<1> QED BY <1>1, <1>6, <1>7 DEF Given

LEMMA GivesMetadata ==
  ASSUME NEW r \in Image, r.current_img_file = MetadataFile, NEW data \in Seq(Data),
         NEW s, s = ApplyData("small", r, data)
  PROVE  /\ s \in Image
         /\ s.current_img_file = MetadataFile
         /\ s.img_files = r.img_files /\ s.content = r.content
         /\ s.inserted = r.inserted /\ s.metadata = data /\ s.image_eof = r.image_eof
<1>1. s = [current_img_file |-> MetadataFile, img_files |-> r.img_files,
           content |-> r.content, inserted |-> r.inserted, metadata |-> data,
           image_eof |-> r.image_eof]
  BY ImageFields DEF ApplyData, IsMetadata
<1>2. s \in Image
  BY <1>1, ImageFields DEF Image, FileName
<1> QED BY <1>1, <1>2

\* What its end does to the current file.
Ended(c, r, f, s) ==
  /\ s \in Image
  /\ s.current_img_file = None
  /\ s.img_files = r.img_files /\ s.content = r.content
  /\ s.inserted = IF c = "small" /\ f = MetadataFile
                  THEN r.inserted ELSE r.inserted \cup {f}
  /\ s.metadata = r.metadata /\ s.image_eof = r.image_eof

LEMMA EndsFile ==
  ASSUME NEW r \in Image, NEW f \in FileName, r.current_img_file = f,
         NEW c, NEW s, s = ApplyFileEof(c, r)
  PROVE  Ended(c, r, f, s)
<1>1. PICK inserted : inserted = IF c = "small" /\ f = MetadataFile
                                 THEN r.inserted ELSE r.inserted \cup {f}
  OBVIOUS
<1>2. s = [current_img_file |-> None, img_files |-> r.img_files,
           content |-> r.content, inserted |-> inserted, metadata |-> r.metadata,
           image_eof |-> r.image_eof]
  <2>1. PICK fs, ct, ins, md, eof :
          r = [current_img_file |-> f, img_files |-> fs, content |-> ct, inserted |-> ins,
               metadata |-> md, image_eof |-> eof]
    BY ImageFields
  <2>2. s = [current_img_file |-> None, img_files |-> fs, content |-> ct,
             inserted |-> inserted, metadata |-> md, image_eof |-> eof]
    <3>1. inserted = IF IsMetadata(c, r) THEN r.inserted ELSE r.inserted \cup {r.current_img_file}
      BY <1>1 DEF IsMetadata
    <3>2. s = [r EXCEPT !.current_img_file = None, !.inserted = inserted]
      BY <3>1, Zenon DEF ApplyFileEof
    <3>3. PICK y : y = inserted
      OBVIOUS
    <3>4. s = [r EXCEPT !.current_img_file = None, !.inserted = y]
      BY <3>2, <3>3
    <3>5. s = [current_img_file |-> None, img_files |-> fs, content |-> ct,
               inserted |-> y, metadata |-> md, image_eof |-> eof]
      BY ONLY <2>1, <3>4
    <3> QED BY <3>3, <3>5
  <2> QED BY <2>1, <2>2
<1>3. inserted \in SUBSET FileName
  BY <1>1, ImageFields
<1>4. s \in Image
  BY <1>2, <1>3, ImageFields DEF Image
<1> QED BY <1>1, <1>2, <1>4 DEF Ended

LEMMA EndsImage ==
  ASSUME NEW r \in Image, NEW s, NEW b \in BOOLEAN, b = TRUE, s = [r EXCEPT !.image_eof = b]
  PROVE  /\ s \in Image
         /\ s.current_img_file = r.current_img_file
         /\ s.img_files = r.img_files /\ s.content = r.content
         /\ s.inserted = r.inserted /\ s.metadata = r.metadata /\ s.image_eof = b
<1>1. s = [current_img_file |-> r.current_img_file, img_files |-> r.img_files,
           content |-> r.content, inserted |-> r.inserted, metadata |-> r.metadata,
           image_eof |-> b]
  <2>1. PICK cur, fs, ct, ins, md, eof :
          r = [current_img_file |-> cur, img_files |-> fs, content |-> ct, inserted |-> ins,
               metadata |-> md, image_eof |-> eof]
    BY ImageFields
  <2>2. s = [current_img_file |-> cur, img_files |-> fs, content |-> ct,
             inserted |-> ins, metadata |-> md, image_eof |-> b]
    BY <2>1
  <2> QED BY <2>1, <2>2
<1>2. s \in Image
  BY <1>1, ImageFields DEF Image
<1> QED BY <1>1, <1>2

LEMMA UnitsAre ==
  ASSUME NEW f \in File, NEW n \in 0..MaxSize
  PROVE  /\ UnitsTo(f, n) \in Seq(Data) /\ Len(UnitsTo(f, n)) = n
         /\ \A i \in 1..n : UnitsTo(f, n)[i] = <<f, i>>
<1>1. MaxSize \in Nat /\ n \in Nat /\ n <= MaxSize
  BY SerializerAssumption
<1>2. ASSUME NEW i \in 1..n
      PROVE  <<f, i>> \in Data
  <2>1. i \in 1..MaxSize
    BY <1>1
  <2> QED BY <2>1, DataAssumption
<1>3. [i \in 1..n |-> <<f, i>>] \in [1..n -> Data]
  BY <1>2
<1> QED BY <1>1, <1>3 DEF UnitsTo

LEMMA NoUnits ==
  ASSUME NEW f \in File
  PROVE  UnitsTo(f, 0) = << >>
BY SerializerAssumption DEF UnitsTo

\* What follows the first units of a file.
LEMMA MoreUnits ==
  ASSUME NEW f \in File, NEW n \in Nat, NEW d \in Nat, n + d <= MaxSize,
         NEW data \in Seq(Data), Len(data) = d, \A i \in 1..d : data[i] = <<f, n + i>>
  PROVE  UnitsTo(f, n) \o data = UnitsTo(f, n + d)
<1>1. MaxSize \in Nat
  BY SerializerAssumption
<1>2. PICK m \in 0..MaxSize : m = n + d
  BY <1>1
<1>3. n \in 0..MaxSize
  BY <1>1
<1>4. PICK a, b : a = UnitsTo(f, n) /\ b = UnitsTo(f, m)
  OBVIOUS
<1>5. a \in Seq(Data) /\ Len(a) = n /\ \A i \in 1..n : a[i] = <<f, i>>
  BY <1>3, <1>4, UnitsAre
<1>6. b \in Seq(Data) /\ Len(b) = m /\ \A i \in 1..m : b[i] = <<f, i>>
  BY <1>4, UnitsAre
<1>7. /\ a \o data \in Seq(Data) /\ Len(a \o data) = n + d
      /\ \A i \in 1..(n + d) : (a \o data)[i] = IF i <= n THEN a[i] ELSE data[i - n]
  BY <1>5, ConcatProperties
<1>8. ASSUME NEW i \in 1..Len(b)
      PROVE  b[i] = (a \o data)[i]
  <2>1. i \in 1..m /\ i \in 1..(n + d)
    BY <1>2, <1>6
  <2>2. CASE i <= n
    <3>1. i \in 1..n
      BY <2>1, <2>2
    <3> QED BY <1>5, <1>6, <1>7, <2>1, <2>2, <3>1
  <2>3. CASE ~(i <= n)
    <3>1. PICK j \in Nat : j = i - n
      BY <2>1, <2>3
    <3>2. j \in 1..d /\ n + j = i
      BY <2>1, <2>3, <3>1
    <3> QED BY <1>6, <1>7, <2>1, <2>3, <3>1, <3>2
  <2> QED BY <2>2, <2>3
<1>9. Len(b) = Len(a \o data)
  BY <1>2, <1>6, <1>7
<1>10. b = a \o data
  BY <1>6, <1>7, <1>8, <1>9, SeqEqual
<1> QED BY <1>2, <1>4, <1>10

LEMMA AppliedFilename ==
  ASSUME NEW r \in Image, NEW f, NEW ch, ch.marker.body = "Filename", ch.marker.file = f, NEW c
  PROVE  Applied(c, r, ch) = SelectImgFile(r, f)
BY ImageFields DEF Applied, CanApply, Apply

LEMMA AppliedData ==
  ASSUME NEW r \in Image, r.current_img_file # None, NEW ch, ch.marker.body = "FileData", NEW c
  PROVE  Applied(c, r, ch) = ApplyData(c, r, ch.data)
BY ImageFields DEF Applied, CanApply, Apply

LEMMA AppliedFileEof ==
  ASSUME NEW r \in Image, r.current_img_file # None, NEW ch, ch.marker.body = "FileEof", NEW c
  PROVE  Applied(c, r, ch) = ApplyFileEof(c, r)
BY ImageFields DEF Applied, CanApply, Apply

LEMMA AppliedImageEof ==
  ASSUME NEW r \in Image, r.img_files = {}, NEW ch, ch.marker.body = "ImageEof"
  PROVE  Applied("main", r, ch) = [r EXCEPT !.image_eof = TRUE]
BY ImageFields DEF Applied, CanApply, Apply

-----------------------------------------------------------------------------
\* What the chunks of a call of drain_img_file() do.

\* How much of len the first k chunks hold.
Reached(len, k) == IF k * ChunkMax < len THEN k * ChunkMax ELSE len

LEMMA ReachedIs ==
  ASSUME NEW len \in Nat, NEW K, K = (len + ChunkMax - 1) \div ChunkMax
  PROVE  /\ K \in Nat /\ Reached(len, 0) = 0 /\ Reached(len, K) = len
         /\ \A k \in 1..K :
              /\ Reached(len, k - 1) = (k - 1) * ChunkMax
              /\ Reached(len, k - 1) \in 0..len
              /\ Reached(len, k) = Reached(len, k - 1) + DataSize(len - (k - 1) * ChunkMax)
              /\ DataSize(len - (k - 1) * ChunkMax) \in Nat
              /\ Reached(len, k) \in 0..len
<1>1. PICK n \in Nat \ {0} : n = ChunkMax
  BY SerializerAssumption
<1>2. K = (len + n - 1) \div n
  BY <1>1
<1>3. K \in Nat /\ K * n >= len
  <2>1. len + n - 1 \in Nat
    OBVIOUS
  <2>2. K \in Int /\ K >= 0
    BY <1>2, <2>1
  <2>3. len + n - 1 < (K + 1) * n
    BY <1>2, <2>1
  <2>4. (K + 1) * n = K * n + n /\ K * n \in Int
    BY <2>2
  <2> QED BY <2>2, <2>3, <2>4
<1>4. Reached(len, K) = len
  <2>1. ~(K * n < len)
    BY <1>3
  <2> QED BY <1>1, <2>1 DEF Reached
<1>5. Reached(len, 0) = 0
  BY <1>1 DEF Reached
<1>6. ASSUME NEW k \in 1..K
      PROVE  /\ Reached(len, k - 1) = (k - 1) * ChunkMax
             /\ Reached(len, k - 1) \in 0..len
             /\ Reached(len, k) = Reached(len, k - 1) + DataSize(len - (k - 1) * ChunkMax)
             /\ DataSize(len - (k - 1) * ChunkMax) \in Nat
             /\ Reached(len, k) \in 0..len
  <2>1. (k - 1) * n \in Nat /\ (k - 1) * n < len
    <3>1. k \in Int /\ 1 <= k /\ k <= K
      BY <1>3
    <3>2. K * n <= len + n - 1
      BY <1>2
    <3>3. k * n <= K * n
      BY <1>3, <3>1
    <3>4. (k - 1) * n = k * n - n /\ k * n \in Int /\ K * n \in Int
      BY <1>3, <3>1
    <3>5. (k - 1) * n \in Nat
      BY <3>1
    <3> QED BY <3>2, <3>3, <3>4, <3>5
  <2>2. PICK d \in Nat : d = (k - 1) * n
    BY <2>1
  <2>3. k * n = d + n
    BY <1>3, <2>2
  <2>4. d < len
    BY <2>1, <2>2
  <2>5. Reached(len, k - 1) = d
    BY <1>1, <2>2, <2>4 DEF Reached
  <2>6. Reached(len, k) = IF d + n < len THEN d + n ELSE len
    BY <1>1, <2>3 DEF Reached
  <2>7. DataSize(len - d) = IF len - d < n THEN len - d ELSE n
    BY <1>1 DEF DataSize
  <2>8. /\ Reached(len, k) = d + DataSize(len - d)
        /\ DataSize(len - d) \in Nat /\ d \in 0..len /\ Reached(len, k) \in 0..len
    BY <2>4, <2>6, <2>7
  <2> QED BY <1>1, <2>2, <2>5, <2>8
<1> QED BY <1>3, <1>4, <1>5, <1>6

\* A chunk of data holds what comes after those before it.
Holds(x, f, from, size) ==
  /\ x.body = "FileData"
  /\ x.data \in Seq(Data)
  /\ Len(x.data) = size
  /\ \A i \in 1..size : x.data[i] = <<f, from + i>>

LEMMA DataFragmentsHold ==
  ASSUME NEW f \in File, NEW p \in 0..MaxSize, NEW d \in 0..MaxSize, d <= p,
         produced[f] = p, drained[f] = d
  PROVE  /\ Len(DataFragments(f)) \in Nat
         /\ Reached(p - d, Len(DataFragments(f))) = p - d
         /\ \A k \in 1..Len(DataFragments(f)) :
              /\ Reached(p - d, k - 1) \in 0..(p - d)
              /\ Reached(p - d, k) \in 0..(p - d)
              /\ Holds(DataFragments(f)[k], f, d + Reached(p - d, k - 1),
                       Reached(p - d, k) - Reached(p - d, k - 1))
<1>1. PICK len \in Nat : len = p - d
  BY SerializerAssumption
<1>2. PICK K : K = (len + ChunkMax - 1) \div ChunkMax
  OBVIOUS
<1> DEFINE Units(done) == [i \in 1..DataSize(len - done) |-> <<f, d + done + i>>]
<1>3. Fionread(f) = len
  BY <1>1 DEF Fionread
<1>4. DataFragments(f) = [k \in 1..K |-> Fragment("FileData", None, Units((k - 1) * ChunkMax))]
  BY <1>2, <1>3 DEF DataFragments
<1>5. /\ K \in Nat /\ Reached(len, K) = len
      /\ \A k \in 1..K :
           /\ Reached(len, k - 1) = (k - 1) * ChunkMax
           /\ Reached(len, k - 1) \in 0..len
           /\ Reached(len, k) = Reached(len, k - 1) + DataSize(len - (k - 1) * ChunkMax)
           /\ DataSize(len - (k - 1) * ChunkMax) \in Nat
           /\ Reached(len, k) \in 0..len
  BY <1>2, ReachedIs
<1>6. Len(DataFragments(f)) = K
  BY <1>4, <1>5
<1>7. MaxSize \in Nat /\ d + len <= MaxSize
  BY <1>1, SerializerAssumption
<1>8. ASSUME NEW k \in 1..K
      PROVE  Holds(DataFragments(f)[k], f, d + Reached(len, k - 1),
                   Reached(len, k) - Reached(len, k - 1))
  <2>1. PICK done \in 0..len : done = (k - 1) * ChunkMax /\ done = Reached(len, k - 1)
    BY <1>5
  <2>2. PICK size \in Nat : size = DataSize(len - done) /\ done + size = Reached(len, k)
    BY <1>5, <2>1
  <2>3. size = Reached(len, k) - Reached(len, k - 1) /\ done + size <= len
    BY <1>5, <2>1, <2>2
  <2>4. PICK data : data = Units(done)
    OBVIOUS
  <2>5. DataFragments(f)[k] = Fragment("FileData", None, data)
    <3> HIDE DEF Units
    <3> QED BY <1>4, <2>1, <2>4
  <2>6. data = [i \in 1..size |-> <<f, d + done + i>>]
    BY <2>2, <2>4
  <2>7. ASSUME NEW i \in 1..size
        PROVE  <<f, d + done + i>> \in Data
    <3>1. d + done + i \in 1..MaxSize
      BY <1>7, <2>3
    <3> QED BY <3>1, DataAssumption
  <2>8. data \in Seq(Data) /\ Len(data) = size /\ \A i \in 1..size : data[i] = <<f, (d + done) + i>>
    <3>1. data \in [1..size -> Data]
      BY <2>6, <2>7
    <3>2. data \in Seq(Data) /\ Len(data) = size
      BY <3>1
    <3>3. \A i \in 1..size : data[i] = <<f, (d + done) + i>>
      BY <2>6
    <3> QED BY <3>2, <3>3
  <2> QED BY <2>1, <2>3, <2>5, <2>8 DEF Holds, Fragment
<1> QED BY <1>1, <1>5, <1>6, <1>8

\* The image r, where f is current and has its first n units.
Midway(r, f, n, s) ==
  /\ s \in Image
  /\ s.current_img_file = f
  /\ s.img_files = Begun(r) \ {f}
  /\ s.content = [r.content EXCEPT ![f] = UnitsTo(f, n)]
  /\ s.inserted = r.inserted /\ s.metadata = r.metadata /\ s.image_eof = r.image_eof

LEMMA MidwayNamed ==
  ASSUME NEW r \in Image, NEW f \in File, NEW n \in Nat, NEW ch,
         ch.marker.body = "Filename", ch.marker.file = f,
         f \in Begun(r) => r.content[f] = UnitsTo(f, n),
         f \notin Begun(r) => n = 0,
         NEW c
  PROVE  Midway(r, f, n, Applied(c, r, ch))
<1>1. f \in FileName
  BY DEF FileName
<1>2. PICK s : s = SelectImgFile(r, f)
  OBVIOUS
<1>3. Applied(c, r, ch) = s
  BY <1>2, AppliedFilename
<1>4. /\ s \in Image
      /\ s.current_img_file = f
      /\ s.img_files = Begun(r) \ {f}
      /\ s.content = [r.content EXCEPT ![f] = IF f \in Begun(r) THEN @ ELSE << >>]
      /\ s.inserted = r.inserted /\ s.metadata = r.metadata /\ s.image_eof = r.image_eof
  BY <1>1, <1>2, NamesFile
<1>5. (IF f \in Begun(r) THEN r.content[f] ELSE << >>) = UnitsTo(f, n)
  BY NoUnits
<1>6. s.content = [r.content EXCEPT ![f] = UnitsTo(f, n)]
  BY <1>4, <1>5
<1> QED BY <1>3, <1>4, <1>6 DEF Midway

LEMMA MidwayCurrent ==
  ASSUME NEW r \in Image, NEW f \in File, NEW n \in Nat, r.current_img_file = f,
         f \notin r.img_files, r.content[f] = UnitsTo(f, n)
  PROVE  Midway(r, f, n, r)
<1>1. f \in FileName /\ f # None
  BY ImageAssumption DEF FileName
<1>2. r.img_files = Begun(r) \ {f}
  BY <1>1 DEF Begun
<1>3. r.content = [r.content EXCEPT ![f] = UnitsTo(f, n)]
  BY <1>1, ImageFields
<1> QED BY <1>2, <1>3 DEF Midway

LEMMA MidwayData ==
  ASSUME NEW r \in Image, NEW f \in File, NEW n \in Nat, NEW m \in Nat, n + m <= MaxSize,
         NEW s, Midway(r, f, n, s), NEW ch, ch.marker.body = "FileData",
         ch.data \in Seq(Data), Len(ch.data) = m, \A i \in 1..m : ch.data[i] = <<f, n + i>>,
         NEW c
  PROVE  Midway(r, f, n + m, Applied(c, s, ch))
<1>1. f \in FileName /\ f # None
  BY ImageAssumption DEF FileName
<1>2. PICK data : data = ch.data
  OBVIOUS
<1>3. PICK t : t = ApplyData(c, s, data)
  OBVIOUS
<1>4. s \in Image /\ s.current_img_file = f
  BY DEF Midway
<1>5. Applied(c, s, ch) = t
  BY <1>1, <1>2, <1>3, <1>4, AppliedData
<1>6. data \in Seq(Data)
  BY <1>2
<1>7. /\ t \in Image /\ t.current_img_file = f /\ t.img_files = s.img_files
      /\ t.content = [s.content EXCEPT ![f] = @ \o data]
      /\ t.inserted = s.inserted /\ t.metadata = s.metadata /\ t.image_eof = s.image_eof
  <2>1. Given(s, f, data, t)
    BY ONLY <1>3, <1>4, <1>6, f \in File, GivesData
  <2> QED BY <2>1 DEF Given
<1>8. UnitsTo(f, n) \o data = UnitsTo(f, n + m)
  BY <1>2, MoreUnits
<1>9. s.content = [r.content EXCEPT ![f] = UnitsTo(f, n)]
  BY DEF Midway
<1>10. r.content \in [FileName -> Seq(Data)]
  BY ImageFields
<1>11. t.content = [r.content EXCEPT ![f] = UnitsTo(f, n + m)]
  <2>1. PICK rc, a, b : rc = r.content /\ a = UnitsTo(f, n) /\ b = UnitsTo(f, n + m)
    OBVIOUS
  <2>2. s.content = [rc EXCEPT ![f] = a] /\ a \o data = b /\ rc \in [FileName -> Seq(Data)]
    BY <1>8, <1>9, <1>10, <2>1
  <2>3. s.content[f] = a
    BY <1>1, <2>2
  <2>4. t.content = [s.content EXCEPT ![f] = b]
    BY <1>7, <2>2, <2>3
  <2>5. t.content = [rc EXCEPT ![f] = b]
    BY <2>2, <2>4
  <2> QED BY <2>1, <2>5
<1> QED BY <1>5, <1>7, <1>11 DEF Midway

LEMMA MidwayAll ==
  ASSUME NEW r \in Image, NEW f \in File, NEW p \in 0..MaxSize, NEW d \in 0..MaxSize, d <= p,
         produced[f] = p, drained[f] = d, NEW c, NEW at, NEW q, NEW l \in Nat,
         Midway(r, f, d, at[l]),
         \A k \in 1..Len(DataFragments(f)) :
           at[l + k] = Applied(c, at[l + k - 1], q[l + k]) /\ Carries(q[l + k], DataFragments(f)[k])
  PROVE  /\ Midway(r, f, p, at[l + Len(DataFragments(f))])
         /\ \A k \in 0..Len(DataFragments(f)) : \E n \in d..p : Midway(r, f, n, at[l + k])
<1>1. PICK F : F = DataFragments(f)
  OBVIOUS
<1>k. PICK K \in Nat : K = Len(F)
  BY <1>1, DataFragmentsHold
<1>2. PICK len \in Nat : len = p - d /\ d + len = p /\ p <= MaxSize /\ MaxSize \in Nat /\ d \in Nat
  BY SerializerAssumption
<1>3. /\ Reached(len, K) = len
      /\ \A k \in 1..K :
           /\ Reached(len, k - 1) \in 0..len
           /\ Reached(len, k) \in 0..len
           /\ Holds(F[k], f, d + Reached(len, k - 1), Reached(len, k) - Reached(len, k - 1))
  BY <1>1, <1>k, <1>2, DataFragmentsHold
<1>4. Reached(len, 0) = 0
  BY <1>2, ReachedIs
<1>5. \A k \in 1..K : at[l + k] = Applied(c, at[l + k - 1], q[l + k]) /\ Carries(q[l + k], F[k])
  BY <1>1, <1>k
<1> DEFINE T == {k \in Nat : k <= K => Midway(r, f, d + Reached(len, k), at[l + k])}
<1>6. 0 \in T
  BY <1>2, <1>4
<1>7. ASSUME NEW k \in T
      PROVE  k + 1 \in T
  <2>1. CASE k + 1 <= K
    <3>1. PICK j : j = k + 1
      OBVIOUS
    <3>2. j \in 1..K /\ k \in Nat /\ k <= K /\ j - 1 = k /\ l + j - 1 = l + k
      BY <2>1, <3>1
    <3>3. Midway(r, f, d + Reached(len, k), at[l + k])
      BY <3>2
    <3>4. /\ Reached(len, k) \in 0..len /\ Reached(len, j) \in 0..len
          /\ Holds(F[j], f, d + Reached(len, k), Reached(len, j) - Reached(len, k))
      BY <1>3, <3>2
    <3>5. PICK ch, s : ch = q[l + j] /\ s = at[l + k]
      OBVIOUS
    <3>6. at[l + j] = Applied(c, s, ch) /\ Carries(ch, F[j])
      BY <1>5, <3>2, <3>5
    <3>7. PICK n \in Nat, m \in Int : n = d + Reached(len, k) /\ m = Reached(len, j) - Reached(len, k)
      BY <1>2, <3>4
    <3>8. /\ ch.marker.body = "FileData" /\ ch.data \in Seq(Data) /\ Len(ch.data) = m
          /\ \A i \in 1..m : ch.data[i] = <<f, n + i>>
      BY <3>4, <3>6, <3>7 DEF Holds, Carries
    <3>9. m \in Nat /\ n + m = d + Reached(len, j) /\ n + m <= MaxSize
      <4>1. m \in Nat
        BY <3>8
      <4>2. PICK a \in Nat, b \in Nat : a = Reached(len, k) /\ b = Reached(len, j) /\ b <= len
        BY <1>2, <3>4
      <4>3. n = d + a /\ m = b - a
        BY <3>7, <4>2
      <4>4. n + m = d + b
        BY ONLY <4>3, d \in Nat, a \in Nat, b \in Nat
      <4>5. d + b <= MaxSize
        <5>1. d + b <= d + len
          BY <1>2, <4>2
        <5>2. d + len <= MaxSize
          BY <1>2
        <5> QED BY <5>1, <5>2, <1>2, <4>2
      <4> QED BY <4>1, <4>2, <4>4, <4>5
    <3>10. Midway(r, f, n, s)
      BY <3>3, <3>5, <3>7
    <3>11. Midway(r, f, n + m, Applied(c, s, ch))
      BY ONLY <3>8, <3>9, <3>10, r \in Image, f \in File, n \in Nat, MidwayData
    <3>12. Midway(r, f, d + Reached(len, j), at[l + j])
      BY <3>6, <3>9, <3>11
    <3> QED BY <3>1, <3>2, <3>12
  <2>2. CASE ~(k + 1 <= K)
    BY <2>2
  <2> QED BY <2>1, <2>2
<1>8. T = Nat
  <2> HIDE DEF T
  <2>1. T \in SUBSET Nat
    BY DEF T
  <2> QED BY <1>6, <1>7, <2>1, SetInduction
<1>9. Midway(r, f, d + Reached(len, K), at[l + K])
  BY <1>8
<1>10. ASSUME NEW k \in 0..K
       PROVE  \E n \in d..p : Midway(r, f, n, at[l + k])
  <2>1. Midway(r, f, d + Reached(len, k), at[l + k])
    BY <1>8
  <2>2. Reached(len, k) \in 0..len
    <3>1. CASE k = 0
      BY <1>4, <3>1
    <3>2. CASE k # 0
      BY <1>3, <3>2
    <3> QED BY <3>1, <3>2
  <2>3. d + Reached(len, k) \in d..p
    BY <1>2, <2>2
  <2> QED BY <2>1, <2>3
<1> QED BY <1>1, <1>k, <1>2, <1>3, <1>9, <1>10

\* The fragments a call of drain_img_file() queues, for its class and for the other.
DrainedBy(f) == FilenameFragment(f) \o (IF IsEof(f) THEN EofFragment ELSE DataFragments(f))

QueuedBy(f) == [c \in Class |-> IF c = ClassOf(f) THEN DrainedBy(f) ELSE << >>]

\* What a drain of f makes of r goes through the images at, m being the one where the
\* file has all its data.
Drains(r, f, c, x, a, q, m, at) ==
  /\ Midway(r, f, produced[f], m)
  /\ ReplayChunks(c, x, q) = IF IsEof(f) THEN ApplyFileEof(c, m) ELSE m
  /\ Passes(at, c, x, a, q)
  /\ \A i \in (Len(a) + 1)..Len(q) :
       \/ at[i] = ReplayChunks(c, x, q)
       \/ \E n \in drained[f]..produced[f] : Midway(r, f, n, at[i])

\* The last image is the one where the file has all its data, its end applied
\* if it has come; those before it have some of it.
LEMMA DrainReplayed ==
  ASSUME LoopTyped, NEW f \in File, DrainReady(f), NEW str, NEW new,
         Grown(str, new, QueuedBy(f)), NEW c, c = ClassOf(f), NEW x, NEW r,
         r = ReplayChunks(c, x, str[c]), Effect(c, x, r)
  PROVE  \E m, at : Drains(r, f, c, x, str[c], new[c], m, at)
<1>1. c \in Class /\ f \in OfClass(c) /\ f # None /\ f \in FileName
  BY ImageAssumption DEF ClassOf, Class, OfClass, FileName
<1>2. PICK p \in 0..MaxSize, d \in 0..MaxSize : p = produced[f] /\ d = drained[f] /\ d <= p
  BY DEF LoopTyped
<1>3. PICK F, D : /\ F = FilenameFragment(f)
                  /\ D = IF IsEof(f) THEN EofFragment ELSE DataFragments(f)
  OBVIOUS
<1>4. F \in Seq(Ordinary) /\ D \in Seq(Ordinary)
  <2>1. None # MetadataFile /\ f # MetadataFile /\ << >> \in Seq(Data)
    BY ImageAssumption
  <2>2. Fragment("Filename", f, << >>) \in Ordinary /\ Fragment("FileEof", None, << >>) \in Ordinary
    BY <1>1, <2>1 DEF Ordinary, FragmentSet, Fragment, Body
  <2>3. FilenameFragment(f) \in Seq(Ordinary) /\ EofFragment \in Seq(Ordinary)
    BY <2>2 DEF FilenameFragment, EofFragment
  <2>4. DataFragments(f) \in Seq(Ordinary)
    BY DataFragmentsAre DEF LoopTyped
  <2> QED BY <1>3, <2>3, <2>4
<1>5. PICK a, q, G : a = str[c] /\ q = new[c] /\ G = F \o D
  OBVIOUS
<1>6. QueuedBy(f)[c] = G
  BY <1>1, <1>3, <1>5 DEF QueuedBy, DrainedBy
<1>7. /\ a \in Seq(Chunk) /\ q \in Seq(Chunk)
      /\ Len(q) = Len(a) + Len(G)
      /\ \A k \in 1..Len(a) : q[k] = a[k]
      /\ \A k \in 1..Len(G) : Carries(q[Len(a) + k], G[k])
  BY <1>1, <1>5, <1>6 DEF Grown
<1>8. PICK l \in Nat, g \in Nat, h \in Nat : l = Len(a) /\ g = Len(F) /\ h = Len(D)
  BY <1>4, <1>7
<1>9. /\ Len(G) = g + h
      /\ \A k \in 1..g : k \in 1..(g + h) /\ G[k] = F[k]
      /\ \A k \in 1..h : g + k \in 1..(g + h) /\ G[g + k] = D[k]
  BY <1>4, <1>5, <1>8, Concatenation
<1>10. PICK at : /\ Passes(at, c, x, a, q)
                 /\ at[l] = r
                 /\ at[l + g + h] = ReplayChunks(c, x, q)
                 /\ \A n \in l..(l + g + h - 1) : at[n + 1] = Applied(c, at[n], q[n + 1])
  <2>1. Len(a) <= Len(q) /\ \A i \in 1..Len(a) : a[i] = q[i]
    BY <1>7, <1>8, <1>9
  <2>2. a \in Seq(Chunk) /\ q \in Seq(Chunk)
    BY <1>7
  <2>4. \E at : Passes(at, c, x, a, q)
    BY ONLY <2>1, <2>2, ReplayGoesOn
  <2>3. Len(q) = l + g + h
    BY <1>7, <1>8, <1>9
  <2> QED BY <1>5, <1>8, <2>3, <2>4 DEF Passes
<1>11. ASSUME NEW k \in 1..(g + h)
       PROVE  at[l + k] = Applied(c, at[l + k - 1], q[l + k]) /\ Carries(q[l + k], G[k])
  <2>1. PICK n : n = l + k - 1
    OBVIOUS
  <2>2. n \in l..(l + g + h - 1) /\ n + 1 = l + k
    BY <1>8, <2>1
  <2> QED BY <1>7, <1>8, <1>9, <1>10, <2>1, <2>2
<1>12. /\ r \in Image /\ r.current_img_file \notin r.img_files
       /\ f \in Begun(r) <=> d > 0
       /\ d > 0 => r.content[f] = UnitsTo(f, d)
       /\ current_filename = f => r.current_img_file = f
  <2>1. file_state[f] = "open"
    BY DEF DrainReady, FileReady
  <2> QED BY <1>1, <1>2, <2>1 DEF Effect
<1>13. Midway(r, f, d, at[l + g])
  <2>1. CASE current_filename = f
    <3>1. F = << >> /\ g = 0
      BY <1>3, <1>8, <2>1 DEF FilenameFragment
    <3>2. r.current_img_file = f /\ f \notin r.img_files /\ f \in Begun(r)
      BY <1>1, <1>12, <2>1 DEF Begun
    <3>3. r.content[f] = UnitsTo(f, d)
      BY <1>12, <3>2
    <3>4. Midway(r, f, d, r)
      BY <1>12, <3>2, <3>3, MidwayCurrent
    <3> QED BY <1>8, <1>10, <3>1, <3>4
  <2>2. CASE current_filename # f
    <3>1. F = <<Fragment("Filename", f, << >>)>>
      BY <1>3, <2>2 DEF FilenameFragment
    <3>2. g = 1 /\ F[1] = Fragment("Filename", f, << >>)
      BY <1>8, <3>1
    <3>3. at[l + 1] = Applied(c, at[l + 1 - 1], q[l + 1]) /\ Carries(q[l + 1], G[1]) /\ G[1] = F[1]
      BY <1>8, <1>9, <1>11, <3>2
    <3>4. PICK ch : ch = q[l + 1]
      OBVIOUS
    <3>5. ch.marker.body = "Filename" /\ ch.marker.file = f /\ at[l + 1] = Applied(c, r, ch)
      <4>1. l + 1 - 1 = l
        BY <1>8
      <4> QED BY <1>10, <3>2, <3>3, <3>4, <4>1 DEF Carries, Fragment
    <3>6. (f \in Begun(r) => r.content[f] = UnitsTo(f, d)) /\ (f \notin Begun(r) => d = 0)
      BY <1>2, <1>12
    <3>7. Midway(r, f, d, Applied(c, r, ch))
      BY <1>12, <3>5, <3>6, MidwayNamed
    <3> QED BY <3>2, <3>5, <3>7
  <2> QED BY <2>1, <2>2
<1>14. PICK b \in Nat : b = l + g
  BY <1>8
<1>15. ASSUME NEW k \in 1..h
       PROVE  at[b + k] = Applied(c, at[b + k - 1], q[b + k]) /\ Carries(q[b + k], D[k])
  <2>1. PICK j : j = g + k
    OBVIOUS
  <2>2. j \in 1..(g + h) /\ G[j] = D[k] /\ l + j = b + k
    BY <1>8, <1>9, <1>14, <2>1
  <2> QED BY <1>11, <2>2
<1>16. g = 0 \/ g = 1
  <2>1. F = << >> \/ F = <<Fragment("Filename", f, << >>)>>
    BY <1>3 DEF FilenameFragment
  <2> QED BY <1>8, <2>1
<1>17. ASSUME NEW m, Midway(r, f, p, m), at[b + h] = IF IsEof(f) THEN ApplyFileEof(c, m) ELSE m,
              at[b + h] = ReplayChunks(c, x, q),
              \A i \in (l + 1)..(b + h) :
                at[i] = ReplayChunks(c, x, q) \/ \E n \in d..p : Midway(r, f, n, at[i])
       PROVE  Drains(r, f, c, x, str[c], new[c], m, at)
  <2>1. Len(new[c]) = b + h /\ Len(str[c]) = l
    <3>1. Len(q) = l + (g + h)
      BY <1>7, <1>8, <1>9
    <3>2. l + (g + h) = b + h
      BY <1>14
    <3> QED BY <1>5, <1>8, <3>1, <3>2
  <2>2. Passes(at, c, x, str[c], new[c])
    BY <1>5, <1>10
  <2>3. /\ Midway(r, f, produced[f], m)
        /\ ReplayChunks(c, x, new[c]) = IF IsEof(f) THEN ApplyFileEof(c, m) ELSE m
        /\ \A i \in (Len(str[c]) + 1)..Len(new[c]) :
             \/ at[i] = ReplayChunks(c, x, new[c])
             \/ \E n \in drained[f]..produced[f] : Midway(r, f, n, at[i])
    BY <1>2, <1>5, <1>17, <2>1
  <2> QED BY <2>2, <2>3 DEF Drains
<1>18. CASE IsEof(f)
  <2>1. D = <<Fragment("FileEof", None, << >>)>>
    BY <1>3, <1>18 DEF EofFragment
  <2>2. h = 1 /\ D[1] = Fragment("FileEof", None, << >>)
    BY <1>8, <2>1
  <2>3. p = d
    BY <1>2, <1>18 DEF IsEof, Fionread
  <2>4. PICK m, ch : m = at[b] /\ ch = q[b + 1]
    OBVIOUS
  <2>5. ch.marker.body = "FileEof" /\ at[b + 1] = Applied(c, m, ch)
    <3>1. b + 1 - 1 = b /\ 1 \in 1..h
      BY <2>2
    <3> QED BY <1>15, <2>2, <2>4, <3>1 DEF Carries, Fragment
  <2>6. Midway(r, f, p, m)
    BY <1>13, <1>14, <2>3, <2>4
  <2>7. m \in Image /\ m.current_img_file # None
    BY <1>1, <2>6 DEF Midway
  <2>8. at[b + 1] = ApplyFileEof(c, m)
    BY <2>5, <2>7, AppliedFileEof
  <2>9. at[b + 1] = ReplayChunks(c, x, q)
    BY <1>10, <1>14, <2>2
  <2>10. \A i \in (l + 1)..(b + 1) :
           at[i] = ReplayChunks(c, x, q) \/ \E n \in d..p : Midway(r, f, n, at[i])
    <3> SUFFICES ASSUME NEW i \in (l + 1)..(b + 1), i # b + 1
                 PROVE  \E n \in d..p : Midway(r, f, n, at[i])
      BY <2>9
    <3>1. i = b
      BY <1>14, <1>16
    <3>2. d \in d..p
      BY <2>3
    <3> QED BY <1>13, <1>14, <3>1, <3>2
  <2> QED BY <1>2, <1>17, <1>18, <2>2, <2>6, <2>8, <2>9, <2>10
<1>19. CASE ~IsEof(f)
  <2>1. D = DataFragments(f)
    BY <1>3, <1>19
  <2>2. Midway(r, f, d, at[b])
    BY <1>13, <1>14
  <2>3. \A k \in 1..Len(DataFragments(f)) :
          at[b + k] = Applied(c, at[b + k - 1], q[b + k]) /\ Carries(q[b + k], DataFragments(f)[k])
    BY <1>8, <1>15, <2>1
  <2>4. /\ Midway(r, f, p, at[b + Len(DataFragments(f))])
        /\ \A k \in 0..Len(DataFragments(f)) : \E n \in d..p : Midway(r, f, n, at[b + k])
    BY ONLY <1>2, <1>12, <2>2, <2>3, f \in File, b \in Nat, p \in 0..MaxSize, d \in 0..MaxSize, MidwayAll
  <2>5. Midway(r, f, p, at[b + h])
    BY <1>8, <2>1, <2>4
  <2>6. \A k \in 0..h : \E n \in d..p : Midway(r, f, n, at[b + k])
    BY <1>8, <2>1, <2>4
  <2>7. \A i \in (l + 1)..(b + h) :
          at[i] = ReplayChunks(c, x, q) \/ \E n \in d..p : Midway(r, f, n, at[i])
    <3> TAKE i \in (l + 1)..(b + h)
    <3>1. PICK k : k = i - b
      OBVIOUS
    <3>2. k \in 0..h /\ i = b + k
      BY <1>8, <1>14, <1>16, <3>1
    <3> QED BY <2>6, <3>2
  <2>8. at[b + h] = ReplayChunks(c, x, q)
    BY <1>10, <1>14
  <2> QED BY <1>2, <1>17, <1>19, <2>5, <2>7, <2>8
<1> QED BY <1>18, <1>19

LEMMA DrainMoves ==
  ASSUME LoopTyped, NEW f \in File, DrainReady(f)
  PROVE  /\ file_state[f] = "open" /\ ~finished /\ finished' = finished
         /\ current_filename' = f /\ produced' = produced /\ writer' = writer
         /\ drained' \in [File -> 0..MaxSize] /\ drained'[f] = produced[f]
         /\ \A g \in File \ {f} : drained'[g] = drained[g] /\ file_state'[g] = file_state[g]
         /\ file_state'[f] = IF IsEof(f) THEN "removed" ELSE "open"
         /\ IsEof(f) => drained[f] = produced[f] /\ writer[f] = "closed"
         /\ ~IsEof(f) => produced[f] > 0
         /\ produced[f] \in 0..MaxSize /\ drained[f] \in 0..MaxSize
<1>1. /\ current_filename' = f /\ drained' = [drained EXCEPT ![f] = produced[f]]
      /\ file_state' = [file_state EXCEPT ![f] = IF IsEof(f) THEN "removed" ELSE @]
      /\ finished' = finished /\ produced' = produced /\ writer' = writer
      /\ FileReady(f) /\ file_state[f] = "open"
  BY DEF DrainReady, DrainImgFile, FileReady
<1>2. ~finished
  BY <1>1 DEF LoopTyped
<1>3. PICK p \in Nat, d \in Nat : p = produced[f] /\ d = drained[f] /\ d <= p
  <2>1. MaxSize \in Nat /\ produced[f] \in 0..MaxSize /\ drained[f] \in 0..MaxSize
    BY SerializerAssumption DEF LoopTyped
  <2> QED BY <2>1 DEF LoopTyped
<1>4. IsEof(f) => p = d /\ writer[f] = "closed"
  <2>1. IsEof(f) => p - d = 0
    BY <1>3 DEF IsEof, Fionread
  <2>2. p - d > 0 \/ writer[f] = "closed"
    BY <1>1, <1>3 DEF FileReady, Fionread
  <2> QED BY <1>3, <2>1, <2>2
<1>5. ~IsEof(f) => p > 0
  <2>1. ~IsEof(f) => p - d # 0
    BY <1>3 DEF IsEof, Fionread
  <2> QED BY <1>3, <2>1
<1>6. drained' \in [File -> 0..MaxSize] /\ drained'[f] = produced[f]
  BY <1>1 DEF LoopTyped
<1>7. /\ \A g \in File \ {f} : drained'[g] = drained[g] /\ file_state'[g] = file_state[g]
      /\ file_state'[f] = IF IsEof(f) THEN "removed" ELSE "open"
  BY <1>1 DEF LoopTyped
<1>8. produced[f] \in 0..MaxSize /\ drained[f] \in 0..MaxSize
  BY DEF LoopTyped
<1> QED BY <1>1, <1>2, <1>3, <1>4, <1>5, <1>6, <1>7, <1>8

\* A class is not affected by what is drained of the other.
LEMMA DrainOther ==
  ASSUME LoopTyped, NEW f \in File, DrainReady(f), NEW c \in Class, c # ClassOf(f),
         NEW x, NEW r, Effect(c, x, r)
  PROVE  Effect(c, x, r)'
<1>1. \A g \in OfClass(c) : g \in File /\ g # f
  BY DEF OfClass
<1>2. \A g \in OfClass(c) : drained'[g] = drained[g] /\ file_state'[g] = file_state[g]
  BY <1>1, DrainMoves
<1>3. finished' = finished /\ ~finished /\ current_filename' = f
  BY DrainMoves
<1> QED BY <1>1, <1>2, <1>3 DEF Effect

\* The effect of all data, or of the end.
LEMMA DrainOwn ==
  ASSUME LoopTyped, NEW f \in File, DrainReady(f), NEW c, c = ClassOf(f),
         NEW x, NEW r, Effect(c, x, r), NEW m, Midway(r, f, produced[f], m),
         NEW s, s = IF IsEof(f) THEN ApplyFileEof(c, m) ELSE m
  PROVE  Effect(c, x, s)'
<1>1. /\ c \in Class /\ f \in OfClass(c) /\ f # None /\ f \in FileName /\ f # MetadataFile
      /\ OfClass(c) \subseteq File /\ File \subseteq FileName
  BY ImageAssumption DEF ClassOf, Class, OfClass, FileName
<1>2. PICK p : p = produced[f]
  OBVIOUS
<1>3. /\ file_state[f] = "open" /\ ~finished /\ finished' = finished
      /\ current_filename' = f /\ drained'[f] = p
      /\ \A g \in File \ {f} : drained'[g] = drained[g] /\ file_state'[g] = file_state[g]
      /\ file_state'[f] = IF IsEof(f) THEN "removed" ELSE "open"
      /\ ~IsEof(f) => p > 0
  BY <1>2, DrainMoves
<1>4. /\ m \in Image /\ m.current_img_file = f /\ m.img_files = Begun(r) \ {f}
      /\ m.content = [r.content EXCEPT ![f] = UnitsTo(f, p)]
      /\ m.inserted = r.inserted /\ m.metadata = r.metadata /\ m.image_eof = r.image_eof
  BY <1>2 DEF Midway
<1>5. /\ r \in Image
      /\ Begun(r) = {g \in OfClass(c) : file_state[g] = "open" /\ drained[g] > 0}
      /\ r.inserted = x.inserted \cup {g \in OfClass(c) : file_state[g] = "removed"}
      /\ \A g \in OfClass(c) :
           file_state[g] = "removed" \/ drained[g] > 0 => r.content[g] = UnitsTo(g, drained[g])
      /\ \A g \in File \ OfClass(c) : r.content[g] = x.content[g]
      /\ r.metadata = x.metadata /\ r.image_eof = x.image_eof
  BY <1>3 DEF Effect
<1>6. /\ m.content[f] = UnitsTo(f, p)
      /\ \A g \in FileName \ {f} : m.content[g] = r.content[g]
  BY <1>1, <1>4, <1>5, ImageFields
<1>7. PICK e \in BOOLEAN : e <=> IsEof(f)
  OBVIOUS
<1>8. /\ s \in Image
      /\ s.current_img_file = IF e THEN None ELSE f
      /\ s.img_files = Begun(r) \ {f}
      /\ s.content = m.content
      /\ s.inserted = IF e THEN r.inserted \cup {f} ELSE r.inserted
      /\ s.metadata = x.metadata /\ s.image_eof = x.image_eof
  <2>1. CASE e
    <3>1. s = ApplyFileEof(c, m)
      BY <1>7, <2>1
    <3>2. Ended(c, m, f, s)
      BY ONLY <1>1, <1>4, <3>1, EndsFile
    <3>3. s.inserted = m.inserted \cup {f}
      BY <1>1, <3>2 DEF Ended
    <3> QED BY <1>4, <1>5, <2>1, <3>2, <3>3 DEF Ended
  <2>2. CASE ~e
    BY <1>4, <1>5, <1>7, <2>2
  <2> QED BY <2>1, <2>2
<1>9. /\ \A g \in OfClass(c) \ {f} : drained'[g] = drained[g] /\ file_state'[g] = file_state[g]
      /\ drained'[f] = p /\ file_state'[f] = IF e THEN "removed" ELSE "open"
      /\ ~e => p > 0
  BY <1>1, <1>3, <1>7
<1>10. s.current_img_file \notin s.img_files
  <2>1. None \notin Begun(r)
    BY <1>5, ImageAssumption DEF OfClass
  <2> QED BY <1>8, <2>1
<1>11. Begun(s) = {g \in OfClass(c) : file_state'[g] = "open" /\ drained'[g] > 0}
  <2>1. CASE e
    <3>1. Begun(s) = Begun(r) \ {f}
      BY <1>8, <2>1 DEF Begun
    <3>2. \A g \in OfClass(c) : file_state'[g] = "open" /\ drained'[g] > 0
             <=> g # f /\ file_state[g] = "open" /\ drained[g] > 0
      BY <1>9, <2>1
    <3> QED BY <1>5, <3>1, <3>2
  <2>2. CASE ~e
    <3>1. Begun(s) = Begun(r) \cup {f}
      BY <1>1, <1>8, <2>2 DEF Begun
    <3>2. \A g \in OfClass(c) : file_state'[g] = "open" /\ drained'[g] > 0
             <=> g = f \/ (file_state[g] = "open" /\ drained[g] > 0)
      BY <1>9, <2>2
    <3> QED BY <1>1, <1>5, <3>1, <3>2
  <2> QED BY <2>1, <2>2
<1>12. s.inserted = x.inserted \cup {g \in OfClass(c) : file_state'[g] = "removed"}
  <2>1. CASE e
    <3>1. \A g \in OfClass(c) : file_state'[g] = "removed" <=> g = f \/ file_state[g] = "removed"
      BY <1>9, <2>1
    <3> QED BY <1>1, <1>5, <1>8, <2>1, <3>1
  <2>2. CASE ~e
    <3>1. \A g \in OfClass(c) : file_state'[g] = "removed" <=> file_state[g] = "removed"
      BY <1>3, <1>9, <2>2
    <3> QED BY <1>5, <1>8, <2>2, <3>1
  <2> QED BY <2>1, <2>2
<1>13. ASSUME NEW g \in OfClass(c)
       PROVE  /\ file_state'[g] = "removed" \/ drained'[g] > 0 => s.content[g] = UnitsTo(g, drained'[g])
              /\ f = g /\ file_state'[g] = "open" => s.current_img_file = g
  <2>1. CASE g = f
    BY <1>6, <1>8, <1>9, <2>1
  <2>2. CASE g # f
    <3>1. g \in FileName \ {f} /\ g \in OfClass(c) \ {f}
      BY <1>1, <2>2
    <3> QED BY <1>5, <1>6, <1>8, <1>9, <2>2, <3>1
  <2> QED BY <2>1, <2>2
<1>14. \A g \in File \ OfClass(c) : s.content[g] = x.content[g]
  BY <1>1, <1>5, <1>6, <1>8
<1> QED BY <1>3, <1>8, <1>10, <1>11, <1>12, <1>13, <1>14 DEF Effect

\* The replay at of a, and then bt, which goes on with the rest of q.
Joins(ct, c, x, a, q, at, bt) ==
  /\ Replaying(ct, c, x, q)
  /\ \A n \in 0..Len(a) : ct[n] = at[n]
  /\ \A n \in (Len(a) + 1)..Len(q) : ct[n] = bt[n]

\* Two parts of a replay make one.
LEMMA ReplayJoined ==
  ASSUME NEW c, NEW x, NEW a \in Seq(Chunk), NEW q \in Seq(Chunk), Len(a) <= Len(q),
         \A i \in 1..Len(a) : q[i] = a[i],
         NEW at, Replaying(at, c, x, a), NEW bt, Passes(bt, c, x, a, q)
  PROVE  \E ct : Joins(ct, c, x, a, q, at, bt)
<1>1. PICK l \in Nat, k \in Nat : l = Len(a) /\ k = Len(q) /\ l <= k
  OBVIOUS
<1> DEFINE ct == [n \in 0..k |-> IF n <= l THEN at[n] ELSE bt[n]]
<1>2. /\ \A n \in 0..l : ct[n] = at[n]
      /\ \A n \in (l + 1)..k : ct[n] = bt[n]
  BY <1>1
<1> HIDE DEF ct
<1>3. at[l] = bt[l]
  BY <1>1 DEF Replaying, Passes
<1>4. \A n \in l..k : ct[n] = bt[n]
  <2> TAKE n \in l..k
  <2>1. n = l \/ n \in (l + 1)..k
    BY <1>1
  <2>2. l \in 0..l
    BY <1>1
  <2> QED BY <1>2, <1>3, <2>1, <2>2
<1>5. ct[0] = x
  <2>1. 0 \in 0..l
    BY <1>1
  <2> QED BY <1>2, <2>1 DEF Replaying
<1>6. ct[k] = ReplayChunks(c, x, q)
  <2>1. k \in l..k
    BY <1>1
  <2> QED BY <1>1, <1>4, <2>1 DEF Passes
<1>7. ASSUME NEW n \in 0..(k - 1)
      PROVE  ct[n + 1] = Applied(c, ct[n], q[n + 1])
  <2>1. CASE n < l
    <3>1. n \in 0..(l - 1) /\ n \in 0..l /\ n + 1 \in 0..l /\ n + 1 \in 1..l
      BY <1>1, <2>1
    <3>2. at[n + 1] = Applied(c, at[n], a[n + 1])
      BY <1>1, <3>1 DEF Replaying
    <3>3. q[n + 1] = a[n + 1]
      BY <1>1, <3>1
    <3> QED BY <1>2, <3>1, <3>2, <3>3
  <2>2. CASE ~(n < l)
    <3>1. n \in l..(k - 1) /\ n \in l..k /\ n + 1 \in l..k
      BY <1>1, <2>2
    <3>2. bt[n + 1] = Applied(c, bt[n], q[n + 1])
      BY <1>1, <3>1 DEF Passes
    <3> QED BY <1>4, <3>1, <3>2
  <2> QED BY <2>1, <2>2
<1>8. Replaying(ct, c, x, q)
  BY <1>1, <1>5, <1>6, <1>7 DEF Replaying
<1> QED BY <1>1, <1>2, <1>8 DEF Joins

\* More may have been drained of a file, but of none that was removed.
MoreDrained(c) ==
  \A f \in OfClass(c) :
    /\ drained[f] \in Nat /\ drained'[f] \in Nat
    /\ drained[f] <= drained'[f]
    /\ file_state[f] = "removed" => file_state'[f] = "removed" /\ drained'[f] = drained[f]

\* What was replayed of a file is a part of it still when more was drained.
LEMMA PartialKept ==
  ASSUME NEW c, NEW x, NEW r, Partial(c, x, r),
         MoreDrained(c)
  PROVE  Partial(c, x, r)'
<1>1. ASSUME NEW f \in OfClass(c)
      PROVE  /\ \/ r.content[f] = x.content[f]
                \/ \E n \in 0..drained'[f] : r.content[f] = UnitsTo(f, n)
             /\ f \in r.inserted \ x.inserted =>
                  file_state'[f] = "removed" /\ r.content[f] = UnitsTo(f, drained'[f])
  <2>1. \A n \in 0..drained[f] : n \in 0..drained'[f]
    BY DEF MoreDrained
  <2> QED BY <2>1 DEF Partial, MoreDrained
<1> QED BY <1>1 DEF Partial

\* So is a replay of the same chunks.
LEMMA GrowingKept ==
  ASSUME NEW c, NEW x, NEW q, Growing(c, x, q),
         MoreDrained(c)
  PROVE  Growing(c, x, q)'
<1>1. PICK at : Replaying(at, c, x, q) /\ \A n \in 0..Len(q) : Partial(c, x, at[n])
  BY DEF Growing
<1>2. ASSUME NEW n \in 0..Len(q), NEW r, r = at[n]
      PROVE  Partial(c, x, r)'
  <2>1. Partial(c, x, r)
    BY <1>1, <1>2
  <2> QED BY <2>1, PartialKept
<1> QED BY <1>1, <1>2 DEF Growing

\* A replay that goes on with images that are as they should be.
LEMMA GrowingOn ==
  ASSUME NEW c, NEW x, NEW a \in Seq(Chunk), NEW q \in Seq(Chunk), Len(a) <= Len(q),
         \A i \in 1..Len(a) : q[i] = a[i], Growing(c, x, a),
         MoreDrained(c),
         NEW bt, Passes(bt, c, x, a, q),
         \A i \in (Len(a) + 1)..Len(q) : \E r : r = bt[i] /\ Partial(c, x, r)'
  PROVE  Growing(c, x, q)'
<1>1. PICK at : Replaying(at, c, x, a) /\ \A n \in 0..Len(a) : Partial(c, x, at[n])
  BY DEF Growing
<1>2. ASSUME NEW n \in 0..Len(a), NEW r, r = at[n]
      PROVE  Partial(c, x, r)'
  <2>1. Partial(c, x, r)
    BY <1>1, <1>2
  <2> QED BY <2>1, PartialKept
<1>3. PICK ct : Joins(ct, c, x, a, q, at, bt)
  <2>1. /\ Len(a) <= Len(q) /\ \A i \in 1..Len(a) : q[i] = a[i]
        /\ Replaying(at, c, x, a) /\ Passes(bt, c, x, a, q)
    BY <1>1
  <2> QED BY ONLY <2>1, a \in Seq(Chunk), q \in Seq(Chunk), ReplayJoined
<1>4. ASSUME NEW n \in 0..Len(q), NEW r, r = ct[n]
      PROVE  Partial(c, x, r)'
  <2>1. n \in 0..Len(a) \/ n \in (Len(a) + 1)..Len(q)
    OBVIOUS
  <2>2. CASE n \in 0..Len(a)
    BY <1>2, <1>3, <1>4, <2>2 DEF Joins
  <2>3. CASE n \in (Len(a) + 1)..Len(q)
    BY <1>3, <1>4, <2>3 DEF Joins
  <2> QED BY <2>1, <2>2, <2>3
<1> QED BY <1>3, <1>4 DEF Growing, Joins

\* Draining a file is to drain more of it.
LEMMA DrainsMore ==
  ASSUME LoopTyped, NEW f \in File, DrainReady(f), NEW c
  PROVE  MoreDrained(c)
<1> SUFFICES ASSUME NEW g \in OfClass(c)
             PROVE  /\ drained[g] \in Nat /\ drained'[g] \in Nat
                    /\ drained[g] <= drained'[g]
                    /\ file_state[g] = "removed" =>
                         file_state'[g] = "removed" /\ drained'[g] = drained[g]
  BY DEF MoreDrained
<1>1. g \in File /\ drained[g] \in Nat /\ drained[f] \in Nat /\ produced[f] \in Nat
  BY SerializerAssumption DEF OfClass, LoopTyped
<1>2. CASE g = f
  BY <1>1, <1>2, DrainMoves DEF LoopTyped
<1>3. CASE g # f
  BY <1>1, <1>3, DrainMoves
<1> QED BY <1>2, <1>3

\* On the way the file has some of what is drained.
LEMMA MidwayPartial ==
  ASSUME LoopTyped, NEW f \in File, DrainReady(f), NEW c, c = ClassOf(f), NEW x, NEW r,
         Effect(c, x, r), Partial(c, x, r),
         NEW n \in drained[f]..produced[f], NEW m, Midway(r, f, n, m)
  PROVE  Partial(c, x, m)'
<1>1. /\ f \in OfClass(c) /\ f # None /\ f \in FileName
      /\ OfClass(c) \subseteq File /\ File \subseteq FileName
  BY ImageAssumption DEF ClassOf, OfClass, FileName
<1>2. /\ m \in Image /\ r \in Image /\ Begun(m) = Begun(r) \cup {f}
      /\ m.content[f] = UnitsTo(f, n)
      /\ \A g \in FileName \ {f} : m.content[g] = r.content[g]
      /\ m.inserted = r.inserted
  BY <1>1, ImageFields DEF Midway, Effect, Begun
<1>3. /\ file_state[f] = "open" /\ drained'[f] = produced[f] /\ n \in 0..produced[f]
      /\ \A g \in File \ {f} : drained'[g] = drained[g] /\ file_state'[g] = file_state[g]
  <2>1. drained[f] \in Nat /\ produced[f] \in Nat
    BY SerializerAssumption DEF LoopTyped
  <2> QED BY <2>1, DrainMoves
<1>4. f \notin m.inserted \ x.inserted
  BY <1>2, <1>3 DEF Effect
<1>5. ASSUME NEW g \in OfClass(c)
      PROVE  /\ m.content[g] = x.content[g] \/ \E k \in 0..drained'[g] : m.content[g] = UnitsTo(g, k)
             /\ g \in m.inserted \ x.inserted =>
                  file_state'[g] = "removed" /\ m.content[g] = UnitsTo(g, drained'[g])
             /\ g \notin m.inserted \cup Begun(m) => m.content[g] = x.content[g]
  <2>1. CASE g = f
    BY <1>2, <1>3, <1>4, <2>1
  <2>2. CASE g # f
    <3>1. g \in File \ {f} /\ g \in FileName \ {f}
      BY <1>1, <2>2
    <3> QED BY <1>2, <1>3, <2>2, <3>1 DEF Partial
  <2> QED BY <2>1, <2>2
<1>6. /\ \A g \in File \ OfClass(c) : m.content[g] = x.content[g]
      /\ \A g \in FileName \ OfClass(c) : g \in m.inserted <=> g \in x.inserted
  BY <1>1, <1>2 DEF Partial
<1> QED BY <1>2, <1>5, <1>6 DEF Partial

\* The end is applied to a file that has all of it.
LEMMA EofPartial ==
  ASSUME LoopTyped, NEW f \in File, DrainReady(f), NEW c, c = ClassOf(f), NEW x, NEW r,
         Effect(c, x, r), Partial(c, x, r), IsEof(f), NEW m, Midway(r, f, produced[f], m),
         NEW s, s = ApplyFileEof(c, m)
  PROVE  Partial(c, x, s)'
<1>1. /\ f \in OfClass(c) /\ f # None /\ f \in FileName /\ f # MetadataFile
      /\ OfClass(c) \subseteq File /\ File \subseteq FileName
  BY ImageAssumption DEF ClassOf, OfClass, FileName
<1>2. /\ m \in Image /\ r \in Image /\ m.current_img_file = f /\ m.img_files = Begun(r) \ {f}
      /\ m.content[f] = UnitsTo(f, produced[f])
      /\ \A g \in FileName \ {f} : m.content[g] = r.content[g]
      /\ m.inserted = r.inserted
  BY <1>1, ImageFields DEF Midway, Effect
<1>3. Ended(c, m, f, s)
  BY ONLY <1>1, <1>2, s = ApplyFileEof(c, m), EndsFile
<1>4. /\ s \in Image /\ s.content = m.content /\ s.inserted = r.inserted \cup {f}
      /\ Begun(r) \ {f} \subseteq Begun(s)
  BY <1>1, <1>2, <1>3 DEF Ended, Begun
<1>5. /\ file_state'[f] = "removed" /\ drained'[f] = produced[f] /\ produced[f] \in 0..produced[f]
      /\ \A g \in File \ {f} : drained'[g] = drained[g] /\ file_state'[g] = file_state[g]
  <2>1. produced[f] \in Nat
    BY SerializerAssumption DEF LoopTyped
  <2> QED BY <2>1, DrainMoves
<1>6. ASSUME NEW g \in OfClass(c)
      PROVE  /\ s.content[g] = x.content[g] \/ \E k \in 0..drained'[g] : s.content[g] = UnitsTo(g, k)
             /\ g \in s.inserted \ x.inserted =>
                  file_state'[g] = "removed" /\ s.content[g] = UnitsTo(g, drained'[g])
             /\ g \notin s.inserted \cup Begun(s) => s.content[g] = x.content[g]
  <2>1. CASE g = f
    BY <1>2, <1>4, <1>5, <2>1
  <2>2. CASE g # f
    <3>1. g \in File \ {f} /\ g \in FileName \ {f}
      BY <1>1, <2>2
    <3> QED BY <1>2, <1>4, <1>5, <2>2, <3>1 DEF Partial
  <2> QED BY <2>1, <2>2
<1>7. /\ \A g \in File \ OfClass(c) : s.content[g] = x.content[g]
      /\ \A g \in FileName \ OfClass(c) : g \in s.inserted <=> g \in x.inserted
  BY <1>1, <1>2, <1>4 DEF Partial
<1> QED BY <1>4, <1>6, <1>7 DEF Partial

LEMMA DrainReplays ==
  ASSUME LoopTyped, NEW f \in File, DrainReady(f), NEW str, NEW new, Replays(str),
         Grown(str, new, QueuedBy(f))
  PROVE  Replays(new)'
<1> SUFFICES ASSUME NEW c \in Class, NEW x, Fresh(x), NEW s, s = ReplayChunks(c, x, new[c])
             PROVE  Effect(c, x, s)' /\ Growing(c, x, new[c])'
  BY DEF Replays
<1>1. PICK r, a, q : r = ReplayChunks(c, x, str[c]) /\ a = str[c] /\ q = new[c]
  OBVIOUS
<1>2. Effect(c, x, r) /\ Growing(c, x, a)
  BY <1>1 DEF Replays
<1>3. MoreDrained(c)
  BY DrainsMore
<1>4. CASE c = ClassOf(f)
  <2>1. PICK m, at : /\ Midway(r, f, produced[f], m)
                     /\ s = IF IsEof(f) THEN ApplyFileEof(c, m) ELSE m
                     /\ Passes(at, c, x, a, q)
                     /\ \A i \in (Len(a) + 1)..Len(q) :
                          at[i] = s \/ \E n \in drained[f]..produced[f] : Midway(r, f, n, at[i])
    <3>1. PICK m, at : Drains(r, f, c, x, str[c], new[c], m, at)
      BY <1>1, <1>2, <1>4, DrainReplayed
    <3> QED BY <1>1, <3>1 DEF Drains
  <2>2. Effect(c, x, s)'
    BY <1>2, <1>4, <2>1, DrainOwn
  <2>3. /\ a \in Seq(Chunk) /\ q \in Seq(Chunk) /\ Len(a) <= Len(q)
        /\ \A k \in 1..Len(a) : q[k] = a[k]
    <3>1. QueuedBy(f)[c] = DrainedBy(f)
      BY <1>4 DEF QueuedBy
    <3>2. /\ a \in Seq(Chunk) /\ q \in Seq(Chunk) /\ Len(DrainedBy(f)) \in Nat
          /\ Len(q) = Len(a) + Len(DrainedBy(f)) /\ \A k \in 1..Len(a) : q[k] = a[k]
      BY <1>1, <3>1 DEF Grown
    <3> QED BY <3>2
  <2>4. Partial(c, x, r)
    <3>1. PICK bt : Replaying(bt, c, x, a) /\ \A n \in 0..Len(a) : Partial(c, x, bt[n])
      BY <1>2 DEF Growing
    <3>2. bt[Len(a)] = r /\ Len(a) \in 0..Len(a)
      BY <1>1, <2>3, <3>1 DEF Replaying
    <3> QED BY <3>1, <3>2
  <2>5. Partial(c, x, s)'
    <3>1. CASE IsEof(f)
      <4>1. s = ApplyFileEof(c, m)
        BY <2>1, <3>1
      <4> QED BY <1>2, <1>4, <2>1, <2>4, <3>1, <4>1, EofPartial
    <3>2. CASE ~IsEof(f)
      <4>1. s = m
        BY <2>1, <3>2
      <4>2. PICK n \in drained[f]..produced[f] : n = produced[f]
        BY SerializerAssumption DEF LoopTyped
      <4>3. Midway(r, f, n, s)
        BY <2>1, <4>1, <4>2
      <4> QED BY <1>2, <1>4, <2>4, <4>3, MidwayPartial
    <3> QED BY <3>1, <3>2
  <2>6. ASSUME NEW i \in (Len(a) + 1)..Len(q)
        PROVE  \E y : y = at[i] /\ Partial(c, x, y)'
    <3>1. CASE at[i] = s
      BY <2>5, <3>1
    <3>2. ASSUME NEW n \in drained[f]..produced[f], Midway(r, f, n, at[i])
          PROVE  \E y : y = at[i] /\ Partial(c, x, y)'
      <4>1. PICK y : y = at[i]
        OBVIOUS
      <4>2. Midway(r, f, n, y)
        BY <3>2, <4>1
      <4>3. Partial(c, x, y)'
        BY <1>2, <1>4, <2>4, <4>2, MidwayPartial
      <4> QED BY <4>1, <4>3
    <3> QED BY <2>1, <3>1, <3>2
  <2>7. Growing(c, x, q)'
    BY <1>2, <1>3, <2>1, <2>3, <2>6, GrowingOn
  <2> QED BY <1>1, <2>2, <2>7
<1>5. CASE c # ClassOf(f)
  <2>1. a = q
    <3>1. QueuedBy(f)[c] = << >> /\ Len(<< >>) = 0
      BY <1>5 DEF QueuedBy
    <3>2. /\ a \in Seq(Chunk) /\ q \in Seq(Chunk) /\ Len(q) = Len(a) + 0
          /\ \A k \in 1..Len(a) : q[k] = a[k]
      BY <1>1, <3>1 DEF Grown
    <3>3. Len(q) = Len(a)
      BY <3>2
    <3> QED BY <3>2, <3>3, SeqEqual
  <2>2. r = s
    BY <1>1, <2>1
  <2>3. Effect(c, x, s)'
    BY <1>2, <1>5, <2>2, DrainOther
  <2>4. Growing(c, x, a)'
    BY <1>2, <1>3, GrowingKept
  <2> QED BY <1>1, <2>1, <2>3, <2>4
<1> QED BY <1>4, <1>5

LEMMA SameDrained ==
  ASSUME LoopTyped, drained' = drained,
         \A f \in File : file_state[f] = "removed" => file_state'[f] = "removed", NEW c
  PROVE  MoreDrained(c)
<1> SUFFICES ASSUME NEW g \in OfClass(c)
             PROVE  /\ drained[g] \in Nat /\ drained'[g] \in Nat
                    /\ drained[g] <= drained'[g]
                    /\ file_state[g] = "removed" =>
                         file_state'[g] = "removed" /\ drained'[g] = drained[g]
  BY DEF MoreDrained
<1>1. g \in File /\ drained[g] \in Nat
  BY SerializerAssumption DEF OfClass, LoopTyped
<1> QED BY <1>1

\* An image with the same files.
LEMMA PartialAlike ==
  ASSUME NEW c, NEW x, NEW r, Partial(c, x, r), NEW s \in Image,
         \A f \in File : s.content[f] = r.content[f], s.inserted = r.inserted, Begun(r) = {}
  PROVE  Partial(c, x, s)
<1>1. OfClass(c) \subseteq File
  BY DEF OfClass
<1> QED BY <1>1 DEF Partial

LEMMA EffectKept ==
  ASSUME NEW c, NEW x, NEW r, Effect(c, x, r),
         UNCHANGED <<file_state, drained, current_filename, metadata, finished>>
  PROVE  Effect(c, x, r)'
<1>1. /\ file_state' = file_state /\ drained' = drained /\ current_filename' = current_filename
      /\ metadata' = metadata /\ finished' = finished
  OBVIOUS
<1> QED BY <1>1 DEF Effect

LEMMA ReplaysKept ==
  ASSUME LoopTyped, NEW str, Replays(str),
         UNCHANGED <<file_state, drained, current_filename, metadata, finished>>
  PROVE  Replays(str)'
<1> SUFFICES ASSUME NEW c \in Class, NEW x, Fresh(x), NEW q, q = str[c],
                    NEW r, r = ReplayChunks(c, x, q)
             PROVE  Effect(c, x, r)' /\ Growing(c, x, q)'
  BY DEF Replays
<1>1. Effect(c, x, r) /\ Growing(c, x, q)
  BY DEF Replays
<1>2. Effect(c, x, r)'
  BY <1>1, EffectKept
<1>3. Growing(c, x, q)'
  BY <1>1, GrowingKept, SameDrained
<1> QED BY <1>2, <1>3

\* A file that is opened has no data yet, and no chunk has named it.
LEMMA OpenReplays ==
  ASSUME LoopTyped, Sides, NEW str, Replays(str), NEW f \in File, OpenFile(f)
  PROVE  Replays(str)'
<1> SUFFICES ASSUME NEW c \in Class, NEW x, Fresh(x), NEW q, q = str[c],
                    NEW r, r = ReplayChunks(c, x, q)
             PROVE  Effect(c, x, r)' /\ Growing(c, x, q)'
  BY DEF Replays
<1>1. Effect(c, x, r) /\ Growing(c, x, q)
  BY DEF Replays
<1>2. /\ file_state[f] = "absent" /\ file_state' = [file_state EXCEPT ![f] = "open"]
      /\ drained' = drained /\ current_filename' = current_filename
      /\ metadata' = metadata /\ finished' = finished
  BY DEF OpenFile
<1>3. file_state'[f] = "open" /\ \A g \in File \ {f} : file_state'[g] = file_state[g]
  BY <1>2 DEF LoopTyped
<1>4. drained[f] = 0 /\ current_filename # f /\ f # None
  BY <1>2, ImageAssumption DEF Sides
<1>5. OfClass(c) \subseteq File /\ ~(0 > 0)
  BY DEF OfClass
<1>6. /\ \A g \in OfClass(c) : file_state'[g] = "open" /\ drained'[g] > 0
                                 <=> file_state[g] = "open" /\ drained[g] > 0
      /\ \A g \in OfClass(c) : file_state'[g] = "removed" <=> file_state[g] = "removed"
  <2>1. ASSUME NEW g \in OfClass(c)
        PROVE  /\ file_state'[g] = "open" /\ drained'[g] > 0
                    <=> file_state[g] = "open" /\ drained[g] > 0
               /\ file_state'[g] = "removed" <=> file_state[g] = "removed"
    <3>1. CASE g = f
      BY <1>2, <1>3, <1>4, <1>5, <3>1
    <3>2. CASE g # f
      BY <1>2, <1>3, <1>5, <3>2
    <3> QED BY <3>1, <3>2
  <2> QED BY <2>1
<1>7. /\ Begun(r) = {g \in OfClass(c) : file_state'[g] = "open" /\ drained'[g] > 0}
      /\ r.inserted = x.inserted \cup {g \in OfClass(c) : file_state'[g] = "removed"}
  BY <1>1, <1>6 DEF Effect
<1>8. ASSUME NEW g \in OfClass(c)
      PROVE  /\ file_state'[g] = "removed" \/ drained'[g] > 0 => r.content[g] = UnitsTo(g, drained'[g])
             /\ current_filename' = g /\ file_state'[g] = "open" => r.current_img_file = g
  <2>1. CASE g = f
    BY <1>2, <1>3, <1>4, <1>5, <2>1
  <2>2. CASE g # f
    BY <1>1, <1>2, <1>3, <1>5, <2>2 DEF Effect
  <2> QED BY <2>1, <2>2
<1>9. Effect(c, x, r)'
  BY <1>1, <1>2, <1>7, <1>8 DEF Effect
<1>10. Growing(c, x, q)'
  <2>1. \A g \in File : file_state[g] = "removed" => file_state'[g] = "removed"
    BY <1>2, <1>3
  <2> QED BY <1>1, <1>2, <2>1, SameDrained, GrowingKept
<1> QED BY <1>9, <1>10

\* The metadata and ImageEof.
LEMMA EndReplays ==
  ASSUME LoopTyped, NEW str, NEW new, Replays(str), EndCapture, Grown(str, new, EndFragments)
  PROVE  Replays(new)'
<1> SUFFICES ASSUME NEW c \in Class, NEW x, Fresh(x)
             PROVE  Effect(c, x, ReplayChunks(c, x, new[c]))' /\ Growing(c, x, new[c])'
  BY DEF Replays
<1>1. PICK a, q, G, r, s : /\ a = str[c] /\ q = new[c] /\ G = EndFragments[c]
                           /\ r = ReplayChunks(c, x, a) /\ s = ReplayChunks(c, x, q)
  OBVIOUS
<1>2. Effect(c, x, r) /\ Growing(c, x, a)
  BY <1>1 DEF Replays
<1>3. /\ file_state' = file_state /\ drained' = drained /\ current_filename' = current_filename
      /\ metadata' = metadata /\ ~finished /\ finished' = TRUE
      /\ \A f \in File : file_state[f] # "open"
      /\ metadata \in Seq(File) /\ metadata \in Seq(Data)
  <2>1. File \subseteq Data
    BY DataAssumption
  <2> QED BY <2>1 DEF EndCapture, WriteImageEof, LoopTyped
<1>4. /\ r \in Image
      /\ Begun(r) = {}
      /\ r.inserted = x.inserted \cup {f \in OfClass(c) : file_state[f] = "removed"}
      /\ \A f \in OfClass(c) :
           file_state[f] = "removed" \/ drained[f] > 0 => r.content[f] = UnitsTo(f, drained[f])
      /\ \A f \in File \ OfClass(c) : r.content[f] = x.content[f]
      /\ r.metadata = x.metadata /\ r.image_eof = x.image_eof
  BY <1>2, <1>3 DEF Effect, OfClass
<1>5. r.current_img_file = None /\ r.img_files = {}
  BY <1>4 DEF Begun
<1>6. /\ a \in Seq(Chunk) /\ q \in Seq(Chunk) /\ Len(G) \in Nat
      /\ Len(q) = Len(a) + Len(G)
      /\ \A k \in 1..Len(a) : q[k] = a[k]
      /\ \A k \in 1..Len(G) : Carries(q[Len(a) + k], G[k])
  BY <1>1 DEF Grown
<1>7. PICK l \in Nat, g \in Nat : l = Len(a) /\ g = Len(G)
  BY <1>6
<1>8. PICK at : /\ Passes(at, c, x, a, q)
                /\ at[l] = r /\ at[l + g] = s
                /\ \A n \in l..(l + g - 1) : at[n + 1] = Applied(c, at[n], q[n + 1])
  <2>1. Len(a) <= Len(q) /\ \A i \in 1..Len(a) : a[i] = q[i]
    BY <1>6, <1>7
  <2>2. a \in Seq(Chunk) /\ q \in Seq(Chunk)
    BY <1>6
  <2>3. \E at : Passes(at, c, x, a, q)
    BY ONLY <2>1, <2>2, ReplayGoesOn
  <2>4. Len(q) = l + g
    BY <1>6, <1>7
  <2>5. PICK at : Passes(at, c, x, a, q)
    BY <2>3
  <2>6. at[l] = r /\ at[l + g] = s
    BY <1>1, <1>7, <2>4, <2>5 DEF Passes
  <2>7. \A n \in l..(l + g - 1) : at[n + 1] = Applied(c, at[n], q[n + 1])
    BY <1>7, <2>4, <2>5 DEF Passes
  <2> QED BY <2>5, <2>6, <2>7
<1>9. Partial(c, x, r)
  <2>1. PICK bt : Replaying(bt, c, x, a) /\ \A n \in 0..Len(a) : Partial(c, x, bt[n])
    BY <1>2 DEF Growing
  <2>2. bt[Len(a)] = r /\ Len(a) \in 0..Len(a)
    BY <1>1, <1>6, <2>1 DEF Replaying
  <2> QED BY <2>1, <2>2
<1>10. MoreDrained(c)
  BY <1>3, SameDrained
<1>11. ASSUME NEW y \in Image, \A f \in File : y.content[f] = r.content[f],
              y.inserted = r.inserted
       PROVE  Partial(c, x, y)'
  <2>1. Partial(c, x, y)
    BY <1>4, <1>9, <1>11, PartialAlike
  <2> QED BY <1>10, <2>1, PartialKept
<1>12. ASSUME \A i \in (l + 1)..(l + g) :
                \E y \in Image : /\ y = at[i] /\ \A f \in File : y.content[f] = r.content[f]
                                 /\ y.inserted = r.inserted
       PROVE  Growing(c, x, q)'
  <2>1. \A i \in (Len(a) + 1)..Len(q) : \E y : y = at[i] /\ Partial(c, x, y)'
    BY <1>6, <1>7, <1>11, <1>12
  <2>2. Len(a) <= Len(q) /\ \A k \in 1..Len(a) : q[k] = a[k]
    BY <1>6, <1>7
  <2> QED BY <1>2, <1>6, <1>8, <1>10, <2>1, <2>2, GrowingOn
<1>13. CASE c = "small"
  <2>1. /\ g = 3 /\ G[1].file = MetadataFile /\ G[1].body = "Filename"
        /\ G[2].body = "FileData" /\ G[2].data = metadata /\ G[3].body = "FileEof"
    BY <1>1, <1>3, <1>7, <1>13, EndFragmentsAre
  <2>2. PICK c1, c2, c3 : c1 = q[l + 1] /\ c2 = q[l + 2] /\ c3 = q[l + 3]
    OBVIOUS
  <2>3. /\ c1.marker.file = MetadataFile /\ c1.marker.body = "Filename"
        /\ c2.marker.body = "FileData" /\ c2.data = metadata /\ c3.marker.body = "FileEof"
    <3>1. Carries(c1, G[1]) /\ Carries(c2, G[2]) /\ Carries(c3, G[3])
      BY <1>6, <1>7, <2>1, <2>2
    <3> QED BY <2>1, <3>1 DEF Carries
  <2>4. PICK s1, s2 : s1 = at[l + 1] /\ s2 = at[l + 2]
    OBVIOUS
  <2>5. s1 = Applied("small", r, c1) /\ s2 = Applied("small", s1, c2) /\ s = Applied("small", s2, c3)
    <3>1. /\ l \in l..(l + g - 1) /\ l + 1 \in l..(l + g - 1) /\ l + 2 \in l..(l + g - 1)
          /\ l + g = (l + 2) + 1 /\ l + 2 = (l + 1) + 1 /\ l + 3 = (l + 2) + 1
      BY <2>1
    <3> QED BY <1>8, <1>13, <2>2, <2>4, <3>1
  <2>6. MetadataFile \in FileName /\ MetadataFile \notin File /\ MetadataFile # None /\ File \subseteq FileName
    BY ImageAssumption DEF FileName
  <2>7. s1 = SelectImgFile(r, MetadataFile)
    BY <1>4, <2>3, <2>5, AppliedFilename
  <2>8. /\ s1 \in Image /\ s1.current_img_file = MetadataFile /\ s1.img_files = {}
        /\ \A f \in File : s1.content[f] = r.content[f]
        /\ s1.inserted = r.inserted /\ s1.metadata = r.metadata /\ s1.image_eof = r.image_eof
    <3>1. /\ s1 \in Image
          /\ s1.current_img_file = MetadataFile
          /\ s1.img_files = Begun(r) \ {MetadataFile}
          /\ s1.content = [r.content EXCEPT ![MetadataFile] =
                             IF MetadataFile \in Begun(r) THEN @ ELSE << >>]
          /\ s1.inserted = r.inserted /\ s1.metadata = r.metadata /\ s1.image_eof = r.image_eof
      BY <1>4, <2>6, <2>7, NamesFile
    <3>2. \A f \in File : s1.content[f] = r.content[f]
      BY <1>4, <2>6, <3>1, ImageFields
    <3> QED BY <1>4, <3>1, <3>2
  <2>9. s2 = ApplyData("small", s1, metadata)
    BY <2>3, <2>5, <2>6, <2>8, AppliedData
  <2>10. /\ s2 \in Image /\ s2.current_img_file = MetadataFile /\ s2.img_files = s1.img_files
         /\ s2.content = s1.content /\ s2.inserted = s1.inserted
         /\ s2.metadata = metadata /\ s2.image_eof = s1.image_eof
    <3>1. PICK data \in Seq(Data) : data = metadata
      BY <1>3
    <3>2. s2 = ApplyData("small", s1, data)
      BY <2>9, <3>1
    <3> QED BY <2>8, <3>1, <3>2, GivesMetadata
  <2>11. s = ApplyFileEof("small", s2)
    BY <2>3, <2>5, <2>6, <2>10, AppliedFileEof
  <2>12. Ended("small", s2, MetadataFile, s)
    BY ONLY <2>6, <2>10, <2>11, EndsFile
  <2>13. /\ s \in Image /\ s.current_img_file = None /\ s.img_files = {}
         /\ \A f \in File : s.content[f] = r.content[f]
         /\ s.inserted = r.inserted /\ s.metadata = metadata /\ s.image_eof = x.image_eof
    BY <1>4, <2>8, <2>10, <2>12 DEF Ended
  <2>14. Begun(s) = {}
    BY <2>13 DEF Begun
  <2>15. OfClass(c) \subseteq File
    BY DEF OfClass
  <2>16. Effect(c, x, s)'
    BY <1>3, <1>4, <1>13, <2>13, <2>14, <2>15 DEF Effect
  <2>17. Growing(c, x, q)'
    <3>1. \A i \in (l + 1)..(l + g) : i = l + 1 \/ i = l + 2 \/ i = l + g
      BY <2>1
    <3>2. at[l + 1] = s1 /\ at[l + 2] = s2 /\ at[l + g] = s
      BY <1>8, <2>4
    <3>3. /\ s1 \in Image /\ s2 \in Image /\ s \in Image
          /\ s1.inserted = r.inserted /\ s2.inserted = r.inserted /\ s.inserted = r.inserted
          /\ \A f \in File : /\ s1.content[f] = r.content[f] /\ s2.content[f] = r.content[f]
                             /\ s.content[f] = r.content[f]
      BY <2>8, <2>10, <2>13
    <3> QED BY <1>12, <3>1, <3>2, <3>3
  <2> QED BY <1>1, <2>16, <2>17
<1>14. CASE c = "main"
  <2>1. g = 1 /\ G[1].body = "ImageEof"
    BY <1>1, <1>3, <1>7, <1>14, EndFragmentsAre
  <2>2. PICK ch : ch = q[l + 1]
    OBVIOUS
  <2>3. ch.marker.body = "ImageEof"
    <3>1. Carries(ch, G[1])
      BY <1>6, <1>7, <2>1, <2>2
    <3> QED BY <2>1, <3>1 DEF Carries
  <2>4. s = Applied("main", r, ch)
    <3>1. l \in l..(l + g - 1) /\ l + g = l + 1
      BY <2>1
    <3> QED BY <1>8, <1>14, <2>2, <3>1
  <2>5. PICK b \in BOOLEAN : b = TRUE
    OBVIOUS
  <2>6. s = [r EXCEPT !.image_eof = b]
    BY <1>4, <1>5, <2>3, <2>4, <2>5, AppliedImageEof
  <2>7. /\ s \in Image /\ s.current_img_file = r.current_img_file
        /\ s.img_files = r.img_files /\ s.content = r.content
        /\ s.inserted = r.inserted /\ s.metadata = r.metadata /\ s.image_eof = b
    BY <1>4, <2>5, <2>6, EndsImage
  <2>8. Begun(s) = {}
    BY <1>4, <2>7 DEF Begun
  <2>9. Effect(c, x, s)'
    <3>1. s.image_eof = IF finished' /\ c = "main" THEN TRUE ELSE x.image_eof
      BY <1>3, <1>14, <2>5, <2>7
    <3>2. s.metadata = IF finished' /\ c = "small" THEN metadata' ELSE x.metadata
      BY <1>4, <1>14, <2>7
    <3>3. s.current_img_file \notin s.img_files
      BY <1>5, <2>7
    <3>4. OfClass(c) \subseteq File
      BY DEF OfClass
    <3> QED BY <1>3, <1>4, <2>7, <2>8, <3>1, <3>2, <3>3, <3>4 DEF Effect
  <2>10. Growing(c, x, q)'
    <3>1. \A i \in (l + 1)..(l + g) : i = l + g
      BY <2>1
    <3> QED BY <1>8, <1>12, <2>7, <3>1
  <2> QED BY <1>1, <2>9, <2>10
<1> QED BY <1>13, <1>14 DEF Class

-----------------------------------------------------------------------------
\* The steps that add chunks.

LEMMA OrdinaryIs ==
  /\ Ordinary \subseteq FragmentSet
  /\ \A x \in Ordinary : x.file # MetadataFile /\ x.body # "ImageEof"
BY DEF Ordinary

LEMMA DrainFragmentsAre ==
  ASSUME NEW f \in File, produced \in [File -> 0..MaxSize], drained \in [File -> 0..MaxSize],
         drained[f] <= produced[f]
  PROVE  FilenameFragment(f) \o (IF IsEof(f) THEN EofFragment ELSE DataFragments(f))
           \in Seq(Ordinary)
<1>1. f # None /\ f # MetadataFile /\ f \in FileName /\ None # MetadataFile /\ << >> \in Seq(Data)
  BY ImageAssumption DEF FileName
<1>2. Fragment("Filename", f, << >>) \in Ordinary /\ Fragment("FileEof", None, << >>) \in Ordinary
  BY <1>1 DEF Ordinary, FragmentSet, Fragment, Body
<1>3. FilenameFragment(f) \in Seq(Ordinary) /\ EofFragment \in Seq(Ordinary)
  BY <1>2 DEF FilenameFragment, EofFragment
<1>4. DataFragments(f) \in Seq(Ordinary)
  BY DataFragmentsAre
<1> QED BY <1>3, <1>4

LEMMA EmptyNumbered ==
  ASSUME NEW class
  PROVE  Numbered(class, << >>) = << >>
BY DEF Numbered

LEMMA DrainAppends ==
  ASSUME LoopTyped, NEW f \in File, Idle, DrainImgFile(f)
  PROVE  /\ Apart(QueuedBy(f)) /\ Appends(QueuedBy(f))
         /\ \A c \in Class : \A k \in 1..Len(QueuedBy(f)[c]) : QueuedBy(f)[c][k] \in Ordinary
<1> DEFINE frags == FilenameFragment(f) \o (IF IsEof(f) THEN EofFragment ELSE DataFragments(f))
           own == ClassOf(f)
           fr == [c \in Class |-> IF c = own THEN frags ELSE << >>]
<1>1. /\ outbox' = outbox \o Numbered(own, frags)
      /\ seq' = [seq EXCEPT ![own] = @ + Len(frags)]
      /\ pipe' = pipe /\ target' = target
  BY DEF DrainImgFile, Queue, pipeVars
<1>2. frags \in Seq(Ordinary) /\ frags \in Seq(FragmentSet) /\ Len(frags) \in Nat
  <2>1. frags \in Seq(Ordinary)
    BY DrainFragmentsAre DEF LoopTyped
  <2> HIDE DEF frags
  <2> QED BY <2>1, OrdinaryIs
<1>3. own \in Class /\ (own = "small" \/ own = "main") /\ seq \in [Class -> Nat]
  BY DEF ClassOf, Class, LoopTyped
<1> HIDE DEF frags, own
<1>q. QueuedBy(f) = fr
  BY DEF QueuedBy, DrainedBy, own, frags
<1>4. /\ fr[own] = frags
      /\ \A c \in Class : c # own => fr[c] = << >>
      /\ \A c \in Class : fr[c] \in Seq(FragmentSet) /\ fr[c] \in Seq(Ordinary)
      /\ fr \in [Class -> Seq(FragmentSet)]
  BY <1>2, <1>3
<1>5. seq' = [c \in Class |-> seq[c] + Len(fr[c])]
  <2>1. seq' = [c \in Class |-> IF c = own THEN seq[c] + Len(frags) ELSE seq[c]]
    BY <1>1, <1>3
  <2>2. \A c \in Class : seq[c] + Len(fr[c]) = IF c = own THEN seq[c] + Len(frags) ELSE seq[c]
    <3> TAKE c \in Class
    <3>1. CASE c = own
      BY <1>4, <3>1
    <3>2. CASE c # own
      <4>1. fr[c] = << >> /\ seq[c] \in Nat
        BY <1>3, <1>4, <3>2
      <4>2. Len(fr[c]) = 0
        BY <4>1
      <4> QED BY <4>1, <4>2, <3>2
    <3> QED BY <3>1, <3>2
  <2> HIDE DEF fr
  <2> QED BY <2>1, <2>2
<1> HIDE DEF fr
<1>6. outbox' = Numbered("small", fr["small"]) \o Numbered("main", fr["main"])
  <2>1. Numbered(own, frags) \in Seq(Entry)
    BY <1>2, <1>3, ChunksOfIs
  <2>2. outbox' = Numbered(own, frags)
    BY <1>1, <2>1 DEF Idle
  <2>3. CASE own = "small"
    <3>1. fr["small"] = frags /\ fr["main"] = << >>
      BY <1>4, <2>3 DEF Class
    <3>2. Numbered("main", fr["main"]) = << >> /\ Numbered("small", fr["small"]) = Numbered(own, frags)
      BY <3>1, <2>3, EmptyNumbered
    <3> QED BY <2>1, <2>2, <3>2
  <2>4. CASE own = "main"
    <3>1. fr["main"] = frags /\ fr["small"] = << >>
      BY <1>4, <2>4 DEF Class
    <3>2. Numbered("small", fr["small"]) = << >> /\ Numbered("main", fr["main"]) = Numbered(own, frags)
      BY <3>1, <2>4, EmptyNumbered
    <3> QED BY <2>1, <2>2, <3>2
  <2> QED BY <1>3, <2>3, <2>4
<1>7. Appends(fr)
  BY <1>1, <1>5, <1>6 DEF Appends
<1>8. \A c \in Class : \A k \in 1..Len(fr[c]) : fr[c][k] \in Ordinary
  BY <1>4
<1>9. Apart(fr)
  BY <1>4, <1>8, OrdinaryIs DEF Apart, Class
<1> QED BY <1>7, <1>8, <1>9, <1>q

\* The chunks of a file are ordinary ones, and capture() has not ended.
LEMMA DrainCarried ==
  ASSUME LoopTyped, NEW str, NEW put, Carried(str, put), Ends(str), Replays(str), NEW f \in File,
         DrainReady(f)
  PROVE  \E new : Carried(new, put)' /\ Ends(new)' /\ Replays(new)' /\ Continues(str, new)
<1>1. Idle /\ FileReady(f) /\ DrainImgFile(f)
  BY DEF DrainReady
<1>2. ~finished /\ finished' = finished
  BY <1>1 DEF FileReady, LoopTyped, DrainImgFile
<1>3. PICK fr : /\ fr = QueuedBy(f) /\ Apart(fr) /\ Appends(fr)
                /\ \A c \in Class : \A k \in 1..Len(fr[c]) : fr[c][k] \in Ordinary
  BY <1>1, DrainAppends
<1>4. seq \in [Class -> Nat]
  BY DEF LoopTyped
<1>5. PICK more : Numbering(more) /\ Alike(more, fr)
  BY <1>3, <1>4, AppendsNumber
<1> DEFINE new == Extended(str, more)
<1>6. Carried(new, put)'
  BY <1>1, <1>5, NumberedCarried
<1>7. \A c \in Class : \A k \in 1..Len(more[c]) :
        more[c][k].marker.file # MetadataFile /\ more[c][k].marker.body # "ImageEof"
  BY <1>3, <1>5, OrdinaryIs DEF Alike, Carries
<1>8. /\ \A k \in 1..Len(str["small"]) : str["small"][k].marker.file # MetadataFile
      /\ \A k \in 1..Len(str["main"]) : str["main"][k].marker.body # "ImageEof"
  BY <1>2 DEF Ends
<1>9. \A c \in Class :
        /\ Len(str[c]) \in Nat /\ Len(more[c]) \in Nat
        /\ Len(new[c]) = Len(str[c]) + Len(more[c])
        /\ \A k \in 1..Len(str[c]) : k \in 1..Len(new[c]) /\ new[c][k] = str[c][k]
        /\ \A k \in 1..Len(more[c]) :
             Len(str[c]) + k \in 1..Len(new[c]) /\ new[c][Len(str[c]) + k] = more[c][k]
        /\ \A k \in 1..Len(new[c]) :
             k \in 1..Len(str[c]) \/ k - Len(str[c]) \in 1..Len(more[c])
  <2>1. str \in [Class -> Seq(Chunk)] /\ more \in [Class -> Seq(Chunk)]
    BY <1>5 DEF Carried, Streams, Numbering
  <2> QED BY <2>1, ExtendedIs
<1> HIDE DEF new
<1>c. Continues(str, new)
  <2>1. ASSUME NEW c \in Class
        PROVE  Len(str[c]) <= Len(new[c])
    <3>1. PICK a \in Nat, b \in Nat : Len(str[c]) = a /\ Len(more[c]) = b
      BY <1>9
    <3>2. Len(new[c]) = a + b
      BY <1>9, <3>1
    <3> QED BY ONLY <3>1, <3>2
  <2>2. \A c \in Class : \A k \in 1..Len(str[c]) : new[c][k] = str[c][k]
    BY <1>9
  <2> QED BY <2>1, <2>2 DEF Continues
<1>10. ASSUME NEW c \in Class, NEW k \in 1..Len(new[c])
       PROVE  \/ k \in 1..Len(str[c]) /\ new[c][k] = str[c][k]
              \/ \E n \in 1..Len(more[c]) : new[c][k] = more[c][n]
  <2>1. CASE k \in 1..Len(str[c])
    BY <1>9, <2>1
  <2>2. CASE k - Len(str[c]) \in 1..Len(more[c])
    <3> DEFINE n == k - Len(str[c])
    <3>1. Len(str[c]) + n = k /\ n \in 1..Len(more[c])
      BY <1>9, <2>2
    <3> HIDE DEF n
    <3>2. new[c][Len(str[c]) + n] = more[c][n]
      BY <1>9, <3>1
    <3> QED BY <3>1, <3>2
  <2> QED BY <1>9, <2>1, <2>2
<1>11. \A k \in 1..Len(new["small"]) : new["small"][k].marker.file # MetadataFile
  BY <1>7, <1>8, <1>10 DEF Class
<1>12. \A k \in 1..Len(new["main"]) : new["main"][k].marker.body # "ImageEof"
  BY <1>7, <1>8, <1>10 DEF Class
<1>13. Ends(new)'
  BY <1>2, <1>11, <1>12 DEF Ends
<1>14. Replays(new)'
  <2>1. Grown(str, new, QueuedBy(f))
    BY <1>3, <1>5, ExtendedGrows DEF new
  <2> QED BY <2>1, DrainReplays
<1> QED BY <1>c, <1>6, <1>13, <1>14

\* The metadata and ImageEof close the streams.
LEMMA EndCarried ==
  ASSUME LoopTyped, NEW str, NEW put, Carried(str, put), Ends(str), Replays(str), EndCapture
  PROVE  \E new : Carried(new, put)' /\ Ends(new)' /\ Replays(new)' /\ Continues(str, new)
<1>1. Idle /\ WriteImageEof /\ ~finished /\ finished' = TRUE
  BY DEF EndCapture, WriteImageEof
<1>2. seq \in [Class -> Nat] /\ metadata \in Seq(File)
  BY DEF LoopTyped
<1>3. PICK fr : fr = EndFragments
  OBVIOUS
<1>4. /\ Apart(fr)
      /\ Len(fr["small"]) = 3 /\ Len(fr["main"]) = 1
      /\ fr["small"][1].file = MetadataFile
      /\ fr["small"][2].file = None /\ fr["small"][2].body = "FileData"
      /\ fr["small"][3].file = None /\ fr["small"][3].body = "FileEof"
      /\ fr["main"][1].body = "ImageEof"
  BY <1>2, <1>3, EndFragmentsAre
<1>5. Appends(fr)
  BY <1>1, <1>3 DEF WriteImageEof, Appends, pipeVars
<1>6. PICK more : Numbering(more) /\ Alike(more, fr)
  BY <1>2, <1>4, <1>5, AppendsNumber
<1> DEFINE new == Extended(str, more)
<1>7. Carried(new, put)'
  BY <1>1, <1>6, NumberedCarried
<1>8. /\ \A k \in 1..Len(str["small"]) : str["small"][k].marker.file # MetadataFile
      /\ \A k \in 1..Len(str["main"]) : str["main"][k].marker.body # "ImageEof"
  BY <1>1 DEF Ends
<1>9. \A c \in Class :
        /\ Len(str[c]) \in Nat /\ Len(more[c]) \in Nat
        /\ Len(new[c]) = Len(str[c]) + Len(more[c])
        /\ \A k \in 1..Len(str[c]) : k \in 1..Len(new[c]) /\ new[c][k] = str[c][k]
        /\ \A k \in 1..Len(more[c]) :
             Len(str[c]) + k \in 1..Len(new[c]) /\ new[c][Len(str[c]) + k] = more[c][k]
        /\ \A k \in 1..Len(new[c]) :
             k \in 1..Len(str[c]) \/ k - Len(str[c]) \in 1..Len(more[c])
  <2>1. str \in [Class -> Seq(Chunk)] /\ more \in [Class -> Seq(Chunk)]
    BY <1>6 DEF Carried, Streams, Numbering
  <2> QED BY <2>1, ExtendedIs
<1> HIDE DEF new
<1>c. Continues(str, new)
  <2>1. ASSUME NEW c \in Class
        PROVE  Len(str[c]) <= Len(new[c])
    <3>1. PICK a \in Nat, b \in Nat : Len(str[c]) = a /\ Len(more[c]) = b
      BY <1>9
    <3>2. Len(new[c]) = a + b
      BY <1>9, <3>1
    <3> QED BY ONLY <3>1, <3>2
  <2>2. \A c \in Class : \A k \in 1..Len(str[c]) : new[c][k] = str[c][k]
    BY <1>9
  <2> QED BY <2>1, <2>2 DEF Continues
<1>10. /\ Len(more["small"]) = 3 /\ Len(more["main"]) = 1
       /\ more["small"][1].marker.file = MetadataFile
       /\ more["small"][2].marker.file = None /\ more["small"][2].marker.body = "FileData"
       /\ more["small"][3].marker.file = None /\ more["small"][3].marker.body = "FileEof"
       /\ more["main"][1].marker.body = "ImageEof"
  <2>1. "small" \in Class /\ "main" \in Class
    BY DEF Class
  <2>2. Len(more["small"]) = Len(fr["small"]) /\ Len(more["main"]) = Len(fr["main"])
    BY <1>6, <2>1 DEF Alike
  <2>3. /\ \A k \in 1..3 : /\ more["small"][k].marker.body = fr["small"][k].body
                           /\ more["small"][k].marker.file = fr["small"][k].file
        /\ \A k \in 1..1 : more["main"][k].marker.body = fr["main"][k].body
    BY <1>4, <1>6, <2>1 DEF Alike, Carries
  <2> QED BY <1>4, <2>2, <2>3
<1>11. EndsWithMetadata(new["small"])
  <2> DEFINE S == new["small"]
             l == Len(str["small"])
  <2>1. /\ l \in Nat /\ Len(S) = l + 3
        /\ \A k \in 1..l : S[k] = str["small"][k]
        /\ S[l + 1] = more["small"][1] /\ S[l + 2] = more["small"][2]
        /\ S[l + 3] = more["small"][3]
    <3>1. /\ l \in Nat /\ Len(S) = l + Len(more["small"])
          /\ \A k \in 1..l : S[k] = str["small"][k]
          /\ \A k \in 1..Len(more["small"]) : S[l + k] = more["small"][k]
      BY <1>9 DEF Class
    <3> HIDE DEF S, l
    <3> QED BY <1>10, <3>1
  <2> HIDE DEF S, l
  <2>2. None # MetadataFile
    BY ImageAssumption
  <2>3. ASSUME NEW k \in 1..Len(S)
        PROVE  S[k].marker.file = MetadataFile <=> k = Len(S) - 2
    <3>1. CASE k \in 1..l
      <4>1. S[k].marker.file # MetadataFile
        BY <1>8, <2>1, <3>1 DEF l
      <4> QED BY <2>1, <3>1, <4>1
    <3>2. CASE k = l + 1
      BY <1>10, <2>1, <3>2
    <3>3. CASE k = l + 2
      BY <1>10, <2>1, <2>2, <3>3
    <3>4. CASE k = l + 3
      BY <1>10, <2>1, <2>2, <3>4
    <3> QED BY <2>1, <3>1, <3>2, <3>3, <3>4
  <2>4. Len(S) >= 3 /\ Len(S) - 1 = l + 2 /\ Len(S) = l + 3
    BY <2>1
  <2>5. S[Len(S) - 1].marker.body = "FileData" /\ S[Len(S)].marker.body = "FileEof"
    BY <1>10, <2>1, <2>4
  <2>6. EndsWithMetadata(S)
    BY <2>3, <2>4, <2>5 DEF EndsWithMetadata
  <2> QED BY <2>6 DEF S
<1>12. EndsWithImageEof(new["main"])
  <2> DEFINE M == new["main"]
             l == Len(str["main"])
  <2>1. /\ l \in Nat /\ Len(M) = l + 1
        /\ \A k \in 1..l : M[k] = str["main"][k]
        /\ M[l + 1] = more["main"][1]
    <3>1. /\ l \in Nat /\ Len(M) = l + Len(more["main"])
          /\ \A k \in 1..l : M[k] = str["main"][k]
          /\ \A k \in 1..Len(more["main"]) : M[l + k] = more["main"][k]
      BY <1>9 DEF Class
    <3> HIDE DEF M, l
    <3> QED BY <1>10, <3>1
  <2> HIDE DEF M, l
  <2>2. ASSUME NEW k \in 1..Len(M)
        PROVE  M[k].marker.body = "ImageEof" <=> k = Len(M)
    <3>1. CASE k \in 1..l
      <4>1. M[k].marker.body # "ImageEof"
        BY <1>8, <2>1, <3>1 DEF l
      <4> QED BY <2>1, <3>1, <4>1
    <3>2. CASE k = l + 1
      BY <1>10, <2>1, <3>2
    <3> QED BY <2>1, <3>1, <3>2
  <2>3. EndsWithImageEof(M)
    BY <2>1, <2>2 DEF EndsWithImageEof
  <2> QED BY <2>3 DEF M
<1>13. Ends(new)'
  BY <1>1, <1>11, <1>12 DEF Ends
<1>14. Replays(new)'
  <2>1. Grown(str, new, EndFragments)
    BY <1>3, <1>6, ExtendedGrows DEF new
  <2> QED BY <2>1, EndReplays
<1> QED BY <1>c, <1>7, <1>13, <1>14

\* The steps that leave the chunks and the end of capture() alone.
LEMMA UntouchedCarried ==
  ASSUME NEW str, NEW put, Carried(str, put), Ends(str),
         UNCHANGED <<seq, outbox, target, finished>>
  PROVE  Carried(str, put)' /\ Ends(str)'
<1>1. UNCHANGED <<seq, outbox, target>> /\ finished' = finished
  OBVIOUS
<1>2. Carried(str, put)'
  BY <1>1, StillCarried
<1>3. Ends(str)'
  BY <1>1 DEF Ends
<1> QED BY <1>2, <1>3

\* What a step of the loop puts in the pipes comes from the head of outbox.
Puts(put, wrote) ==
  \/ pipe' = pipe /\ wrote = put
  \/ \E s \in Shard, slot \in Slot :
       /\ ending[s] = "open" /\ ~(finished /\ Idle) /\ ending' = ending
       /\ Len(pipe[s]) < Capacity
       /\ pipe' = [pipe EXCEPT ![s] = Append(@, slot)]
       /\ wrote = [put EXCEPT ![s] = Append(@, slot)]

\* A step of the loop numbers more chunks, or writes a slot of them.
LEMMA LoopCarried ==
  ASSUME LoopTyped, Sides, NEW str, NEW put, Carried(str, put), Ends(str), Replays(str),
         [LoopNext]_loopVars
  PROVE  \E new, wrote :
           /\ Carried(new, wrote)' /\ Ends(new)' /\ Replays(new)'
           /\ Continues(str, new) /\ Puts(put, wrote)
<1>0. Continues(str, str)
  <2>1. \A c \in Class : Len(str[c]) \in Nat
    BY DEF Carried, Streams
  <2> QED BY <2>1 DEF Continues
<1>1. CASE ClientStep
  <2>1. UNCHANGED <<pipe, seq, outbox, target, finished>>
    BY <1>1 DEF ClientStep, ClientCreate, OpenFile, LastRequest, ClientWrite, ClientClose,
         pipeVars, serializerVars
  <2>2. ASSUME NEW f \in File, OpenFile(f)
        PROVE  Replays(str)'
    BY <2>2, OpenReplays
  <2>3. ASSUME ~\E f \in File : OpenFile(f)
        PROVE  Replays(str)'
    <3>1. UNCHANGED <<file_state, drained, current_filename, metadata, finished>>
      BY <1>1, <2>3 DEF ClientStep, ClientCreate, LastRequest, ClientWrite, ClientClose,
           pipeVars, serializerVars
    <3> QED BY <3>1, ReplaysKept
  <2>4. Puts(put, put)
    BY <2>1 DEF Puts
  <2>5. Carried(str, put)' /\ Ends(str)'
    BY <2>1, UntouchedCarried
  <2> QED BY <1>0, <2>2, <2>3, <2>4, <2>5
<1>2. ASSUME NEW f \in File, DrainReady(f)
      PROVE  /\ \E new : /\ Carried(new, put)' /\ Ends(new)' /\ Replays(new)'
                         /\ Continues(str, new)
             /\ Puts(put, put)
  <2>1. pipe' = pipe
    BY <1>2 DEF DrainReady, DrainImgFile, pipeVars
  <2>2. Puts(put, put)
    BY <2>1 DEF Puts
  <2> QED BY <1>2, <2>2, DrainCarried
<1>3. ASSUME EndCapture
      PROVE  /\ \E new : /\ Carried(new, put)' /\ Ends(new)' /\ Replays(new)'
                         /\ Continues(str, new)
             /\ Puts(put, put)
  <2>1. pipe' = pipe
    BY <1>3 DEF EndCapture, WriteImageEof, pipeVars
  <2>2. Puts(put, put)
    BY <2>1 DEF Puts
  <2> QED BY <1>3, <2>2, EndCarried
<1>4. CASE WritePayload
  <2>1. /\ target \in Shard /\ finished' = finished /\ ending' = ending
        /\ outbox # << >> /\ target # None
        /\ Put(target, MakePayload(Head(outbox).data))
    BY <1>4 DEF LoopTyped, WritePayload, Carried, Queued
  <2>2. PICK wrote : wrote = [put EXCEPT ![target] = Append(@, MakePayload(Head(outbox).data))]
    OBVIOUS
  <2>3. Carried(str, wrote)'
    BY <1>4, <2>1, <2>2, WritePayloadCarried
  <2>4. Replays(str)'
    BY <1>4, ReplaysKept DEF WritePayload
  <2>5. Puts(put, wrote)
    <3>1. MakePayload(Head(outbox).data) \in Slot
      <4>1. Head(outbox).data \in Seq(Data)
        BY <2>1, HeadOfOutbox
      <4> QED BY <4>1 DEF MakePayload, Slot, Payload
    <3>2. ~Idle /\ ending[target] = "open" /\ Len(pipe[target]) < Capacity
          /\ pipe' = [pipe EXCEPT ![target] = Append(@, MakePayload(Head(outbox).data))]
      BY <2>1 DEF Put, Idle
    <3> QED BY <2>1, <2>2, <3>1, <3>2 DEF Puts
  <2>6. Ends(str)'
    BY <2>1 DEF Ends
  <2> QED BY <1>0, <2>3, <2>4, <2>5, <2>6
<1>5. ASSUME NEW s \in Shard, WriteMarker(s)
      PROVE  \E wrote : /\ Carried(str, wrote)' /\ Ends(str)' /\ Replays(str)'
                        /\ Puts(put, wrote)
  <2>1. /\ finished' = finished /\ ending' = ending /\ outbox # << >>
        /\ Put(s, Head(outbox).marker)
    BY <1>5 DEF WriteMarker, Idle
  <2>2. PICK wrote : wrote = [put EXCEPT ![s] = Append(@, Head(outbox).marker)]
    OBVIOUS
  <2>3. Carried(str, wrote)'
    BY <1>5, <2>2, WriteMarkerCarried
  <2>4. Replays(str)'
    BY <1>5, ReplaysKept DEF WriteMarker
  <2>5. Puts(put, wrote)
    <3>1. Head(outbox).marker \in Slot
      <4>1. Head(outbox).marker \in Marker
        BY <2>1, HeadOfOutbox
      <4> QED BY <4>1 DEF Slot
    <3>2. ~Idle /\ ending[s] = "open" /\ Len(pipe[s]) < Capacity
          /\ pipe' = [pipe EXCEPT ![s] = Append(@, Head(outbox).marker)]
      BY <2>1 DEF Put, Idle
    <3> QED BY <2>1, <2>2, <3>1, <3>2 DEF Puts
  <2>6. Ends(str)'
    BY <2>1 DEF Ends
  <2> QED BY <2>3, <2>4, <2>5, <2>6
<1>6. CASE CloseShards \/ Exited \/ UNCHANGED loopVars
  <2>1. UNCHANGED <<pipe, seq, outbox, target, finished>>
    BY <1>6 DEF CloseShards, Exited, loopVars, pipeVars, serializerVars
  <2>2. UNCHANGED <<file_state, drained, current_filename, metadata, finished>>
    BY <1>6 DEF CloseShards, Exited, loopVars, pipeVars, serializerVars
  <2>3. Puts(put, put)
    BY <2>1 DEF Puts
  <2>4. Carried(str, put)' /\ Ends(str)' /\ Replays(str)'
    BY <2>1, <2>2, UntouchedCarried, ReplaysKept
  <2> QED BY <1>0, <2>3, <2>4
<1>7. CASE \E f \in File : DrainReady(f)
  BY <1>2, <1>7
<1>8. CASE \E s \in Shard : WriteMarker(s)
  BY <1>0, <1>5, <1>8
<1> QED
  BY <1>1, <1>3, <1>4, <1>6, <1>7, <1>8 DEF LoopNext, CaptureStep, WriteShards

\* When nobody reads the pipes they hold what was put in them.
LEMMA PutsKept ==
  ASSUME NEW put, NEW wrote, put = pipe, Puts(put, wrote)
  PROVE  wrote = pipe'
BY DEF Puts

LEMMA CarriedAgain ==
  ASSUME NEW str, NEW put, Carried(str, put)', put = pipe'
  PROVE  Carried(str, pipe)'
<1>1. Streams(str)' /\ Queued(str, put)' /\ Placed(str, put)' /\ Ordered(put)' /\ Complete(str, put)'
  BY DEF Carried
<1>2. Queued(str, pipe)'
  BY <1>1 DEF Queued
<1>3. Placed(str, pipe)'
  BY <1>1 DEF Placed
<1>4. Ordered(pipe)'
  BY <1>1 DEF Ordered, Increasing, NoTwice
<1>5. Complete(str, pipe)'
  BY <1>1 DEF Complete
<1> QED BY <1>1, <1>2, <1>3, <1>4, <1>5 DEF Carried

-----------------------------------------------------------------------------
\* The other variables.

LEMMA LoopTypedInit ==
  ASSUME LoopInit
  PROVE  LoopTyped
<1>1. /\ writer = [f \in File |-> IF f \in ExtFile THEN "open" ELSE "none"]
      /\ file_state = [f \in File |-> IF f \in ExtFile THEN "open" ELSE "absent"]
      /\ produced = [f \in File |-> 0] /\ drained = [f \in File |-> 0]
      /\ current_filename = None /\ seq = [c \in Class |-> 0] /\ metadata = << >>
      /\ target = None /\ finished = FALSE /\ expecting = TRUE
      /\ ending = [s \in Shard |-> "open"]
  BY DEF LoopInit, SerializerInit, PipesInit
<1>2. 0 \in 0..MaxSize
  BY SerializerAssumption
<1>3. /\ writer \in [File -> {"none", "open", "closed"}]
      /\ file_state \in [File -> {"absent", "open", "removed"}]
  BY <1>1
<1>4. /\ produced \in [File -> 0..MaxSize] /\ drained \in [File -> 0..MaxSize]
      /\ \A f \in File : drained[f] <= produced[f]
  BY <1>1, <1>2
<1>5. seq \in [Class -> Nat] /\ metadata \in Seq(File) /\ ending \in [Shard -> {"open", "eof"}]
  BY <1>1
<1> QED BY <1>1, <1>3, <1>4, <1>5 DEF LoopTyped

LEMMA DrainTyped ==
  ASSUME LoopTyped, NEW f \in File, DrainReady(f)
  PROVE  LoopTyped'
<1>1. /\ seq' = [seq EXCEPT ![ClassOf(f)] =
                   @ + Len(FilenameFragment(f)
                           \o (IF IsEof(f) THEN EofFragment ELSE DataFragments(f)))]
      /\ current_filename' = f
      /\ drained' = [drained EXCEPT ![f] = produced[f]]
      /\ metadata' = Listed(f)
      /\ file_state' = [file_state EXCEPT ![f] = IF IsEof(f) THEN "removed" ELSE @]
      /\ ending' = ending /\ writer' = writer /\ produced' = produced /\ target' = target
      /\ finished' = finished /\ expecting' = expecting /\ file_state[f] = "open"
  BY DEF DrainReady, DrainImgFile, Queue, FileReady, pipeVars
<1>2. Len(FilenameFragment(f) \o (IF IsEof(f) THEN EofFragment ELSE DataFragments(f))) \in Nat
  BY DrainFragmentsAre DEF LoopTyped
<1>3. ClassOf(f) \in Class
  BY DEF ClassOf, Class
<1>4. seq' \in [Class -> Nat]
  BY <1>1, <1>2, <1>3 DEF LoopTyped
<1>5. /\ drained' \in [File -> 0..MaxSize]
      /\ \A g \in File : drained'[g] <= produced'[g]
  <2>1. MaxSize \in Nat /\ produced[f] \in 0..MaxSize
    BY SerializerAssumption DEF LoopTyped
  <2> QED BY <1>1, <2>1 DEF LoopTyped
<1>6. metadata' \in Seq(File)
  BY <1>1 DEF Listed, LoopTyped
<1>7. /\ file_state' \in [File -> {"absent", "open", "removed"}]
      /\ \A g \in File : file_state'[g] = "open" => file_state[g] = "open"
  BY <1>1 DEF LoopTyped
<1>8. finished' => ~expecting' /\ \A g \in File : file_state'[g] # "open"
  BY <1>1, <1>7 DEF LoopTyped
<1> QED BY <1>1, <1>4, <1>5, <1>6, <1>7, <1>8 DEF LoopTyped

LEMMA ClientTyped ==
  ASSUME LoopTyped, ClientStep
  PROVE  LoopTyped'
<1>1. ASSUME NEW f \in File, ClientCreate(f)
      PROVE  LoopTyped'
  BY <1>1 DEF LoopTyped, ClientCreate, pipeVars
<1>2. ASSUME NEW f \in File, OpenFile(f)
      PROVE  LoopTyped'
  BY <1>2 DEF LoopTyped, OpenFile, pipeVars
<1>3. CASE LastRequest
  BY <1>3 DEF LoopTyped, LastRequest, pipeVars, serializerVars
<1>4. ASSUME NEW f \in File, ClientWrite(f), UNCHANGED expecting
      PROVE  LoopTyped'
  <2>1. MaxSize \in Nat /\ produced[f] \in 0..MaxSize /\ produced[f] < MaxSize
    BY <1>4, SerializerAssumption DEF LoopTyped, ClientWrite
  <2>2. /\ produced' = [produced EXCEPT ![f] = @ + 1]
        /\ produced' \in [File -> 0..MaxSize]
    BY <1>4, <2>1 DEF LoopTyped, ClientWrite
  <2>3. \A g \in File : drained[g] <= produced'[g]
    <3> TAKE g \in File
    <3>1. /\ drained[g] <= produced[g] /\ drained[g] \in Int /\ produced[g] \in Int
      BY <2>1 DEF LoopTyped
    <3>2. produced'[g] = produced[g] \/ produced'[g] = produced[g] + 1
      BY <2>2 DEF LoopTyped
    <3> QED BY <3>1, <3>2
  <2> QED BY <1>4, <2>2, <2>3 DEF LoopTyped, ClientWrite, pipeVars
<1>5. ASSUME NEW f \in File, ClientClose(f), UNCHANGED expecting
      PROVE  LoopTyped'
  BY <1>5 DEF LoopTyped, ClientClose, pipeVars
<1> QED BY <1>1, <1>2, <1>3, <1>4, <1>5 DEF ClientStep

LEMMA WritesTyped ==
  ASSUME LoopTyped, WriteShards
  PROVE  LoopTyped'
<1>1. CASE WritePayload
  <2>1. target' = None
    BY <1>1 DEF WritePayload
  <2> QED BY <1>1, <2>1 DEF LoopTyped, WritePayload, WriteShards
<1>2. ASSUME NEW s \in Shard, WriteMarker(s)
      PROVE  LoopTyped'
  <2>1. target' \in Shard \cup {None}
    BY <1>2 DEF LoopTyped, WriteMarker
  <2> QED BY <1>2, <2>1 DEF LoopTyped, WriteMarker, WriteShards
<1>3. CASE CloseShards
  <2>1. ending' \in [Shard -> {"open", "eof"}]
    BY <1>3 DEF CloseShards
  <2> QED BY <1>3, <2>1 DEF LoopTyped, CloseShards, serializerVars, WriteShards
<1> QED BY <1>1, <1>2, <1>3 DEF WriteShards

LEMMA LoopTypedNext ==
  ASSUME LoopTyped, [LoopNext]_loopVars
  PROVE  LoopTyped'
<1>1. CASE ClientStep
  BY <1>1, ClientTyped
<1>2. ASSUME NEW f \in File, DrainReady(f)
      PROVE  LoopTyped'
  BY <1>2, DrainTyped
<1>3. CASE EndCapture
  <2>1. /\ seq' = [c \in Class |-> seq[c] + Len(EndFragments[c])]
        /\ finished' = TRUE /\ ~expecting /\ \A f \in File : file_state[f] # "open"
    BY <1>3 DEF EndCapture, WriteImageEof
  <2>2. \A c \in Class : Len(EndFragments[c]) \in Nat
    BY EndFragmentsAre DEF LoopTyped, Class
  <2>3. seq' \in [Class -> Nat]
    BY <2>1, <2>2 DEF LoopTyped
  <2> QED BY <1>3, <2>1, <2>3 DEF LoopTyped, EndCapture, WriteImageEof, pipeVars
<1>4. CASE WriteShards
  BY <1>4, WritesTyped
<1>5. CASE Exited \/ UNCHANGED loopVars
  BY <1>5 DEF LoopTyped, Exited, loopVars, pipeVars, serializerVars
<1> QED
  BY <1>1, <1>2, <1>3, <1>4, <1>5 DEF LoopNext, CaptureStep

-----------------------------------------------------------------------------
\* At first nothing is numbered, and nothing written.
LEMMA CarriedInit ==
  ASSUME LoopInit
  PROVE  \E str : Carried(str, pipe) /\ Ends(str) /\ Replays(str)
<1>1. /\ pipe = [s \in Shard |-> << >>] /\ seq = [c \in Class |-> 0]
      /\ outbox = << >> /\ target = None /\ finished = FALSE
  BY DEF LoopInit, SerializerInit, PipesInit
<1> DEFINE str == [c \in Class |-> << >>]
<1>2. /\ str \in [Class -> Seq(Chunk)]
      /\ \A c \in Class : Len(str[c]) = 0 /\ 1..Len(str[c]) = {}
  OBVIOUS
<1>3. \A s \in Shard : Len(pipe[s]) = 0 /\ 1..Len(pipe[s]) = {}
  BY <1>1
<1> HIDE DEF str
<1>4. Streams(str)
  BY <1>1, <1>2 DEF Streams
<1>5. 1..Len(outbox) = {} /\ outbox \in Seq(Entry)
  BY <1>1
<1>6. Queued(str, pipe)
  BY <1>1, <1>5 DEF Queued
<1>7. Placed(str, pipe)
  <2>1. pipe \in [Shard -> Seq(Slot)]
    BY <1>1
  <2> QED BY <2>1, <1>3, ShardsAre DEF Placed
<1>8. Ordered(pipe)
  <2>1. \A s \in Shard : Increasing(pipe, s)
    BY <1>3 DEF Increasing
  <2>2. NoTwice(pipe)
    BY <1>3 DEF NoTwice, Shard
  <2> QED BY <1>3, <2>1, <2>2, ShardsAre DEF Ordered
<1>9. Complete(str, pipe)
  BY <1>2 DEF Complete
<1>10. Ends(str)
  BY <1>1, <1>2 DEF Ends, Class
<1>11. Replays(str)
  <2>1. \A c \in Class : str[c] = << >>
    BY DEF str
  <2>2. /\ \A f \in File : drained[f] = 0 /\ file_state[f] # "removed"
        /\ current_filename = None
    BY DEF LoopInit, SerializerInit
  <2>3. ASSUME NEW c \in Class, NEW x, Fresh(x)
        PROVE  Effect(c, x, x)
    <3>1. OfClass(c) \subseteq File /\ ~(0 > 0) /\ \A f \in File : f # None
      BY ImageAssumption DEF OfClass
    <3>2. x \in Image /\ x.current_img_file \notin x.img_files /\ Begun(x) = {}
      BY <2>3 DEF Fresh, Begun
    <3> QED BY <1>1, <2>2, <3>1, <3>2 DEF Effect
  <2>4. ASSUME NEW c \in Class, NEW x, Fresh(x)
        PROVE  Growing(c, x, str[c])
    <3>1. OfClass(c) \subseteq File /\ x \in Image
      BY <2>4 DEF OfClass, Fresh
    <3>2. Partial(c, x, x)
      BY <3>1 DEF Partial
    <3>3. PICK q \in Seq(Chunk) : q = str[c] /\ q = << >> /\ Len(q) = 0
      BY <1>2, <2>1
    <3>4. PICK at : Replaying(at, c, x, q)
      BY <3>3, ReplayingExists
    <3>5. \A n \in 0..Len(q) : at[n] = x
      BY <3>3, <3>4 DEF Replaying
    <3> QED BY <3>2, <3>3, <3>4, <3>5 DEF Growing
  <2> QED BY <2>1, <2>3, <2>4, ReplayNone DEF Replays
<1> QED BY <1>4, <1>6, <1>7, <1>8, <1>9, <1>10, <1>11 DEF Carried

LEMMA SidesInit ==
  ASSUME LoopInit
  PROVE  Sides
<1>1. /\ file_state = [f \in File |-> IF f \in ExtFile THEN "open" ELSE "absent"]
      /\ writer = [f \in File |-> IF f \in ExtFile THEN "open" ELSE "none"]
      /\ drained = [f \in File |-> 0] /\ current_filename = None
  BY DEF LoopInit, SerializerInit
<1> QED BY <1>1 DEF Sides

LEMMA SidesNext ==
  ASSUME LoopTyped, Sides, [LoopNext]_loopVars
  PROVE  Sides'
<1>1. ASSUME NEW f \in File, ClientCreate(f)
      PROVE  Sides'
  BY <1>1 DEF Sides, ClientCreate, LoopTyped
<1>2. ASSUME NEW f \in File, OpenFile(f)
      PROVE  Sides'
  BY <1>2 DEF Sides, OpenFile, LoopTyped
<1>3. ASSUME NEW f \in File, ClientWrite(f)
      PROVE  Sides'
  <2>1. /\ writer[f] = "open" /\ writer' = writer /\ file_state' = file_state
        /\ drained' = drained /\ current_filename' = current_filename
        /\ \A g \in File \ {f} : produced'[g] = produced[g]
    BY <1>3 DEF ClientWrite, LoopTyped
  <2> QED BY <2>1 DEF Sides
<1>4. ASSUME NEW f \in File, ClientClose(f)
      PROVE  Sides'
  BY <1>4 DEF Sides, ClientClose, LoopTyped
<1>5. ASSUME NEW f \in File, DrainReady(f)
      PROVE  Sides'
  <2>1. /\ file_state[f] = "open" /\ current_filename' = f /\ produced' = produced
        /\ writer' = writer /\ drained'[f] = produced[f]
        /\ \A g \in File \ {f} : drained'[g] = drained[g] /\ file_state'[g] = file_state[g]
        /\ file_state'[f] = IF IsEof(f) THEN "removed" ELSE "open"
        /\ IsEof(f) => drained[f] = produced[f] /\ writer[f] = "closed"
    BY <1>5, DrainMoves
  <2>2. ASSUME NEW g \in File
        PROVE  /\ writer'[g] = "none" => file_state'[g] = "absent"
               /\ file_state'[g] = "absent" => drained'[g] = 0
               /\ file_state'[g] = "removed" => writer'[g] = "closed" /\ drained'[g] = produced'[g]
    <3>1. CASE g = f
      BY <2>1, <3>1 DEF Sides
    <3>2. CASE g # f
      BY <2>1, <3>2 DEF Sides
    <3> QED BY <3>1, <3>2
  <2>3. file_state'[f] # "absent"
    BY <2>1
  <2> QED BY <2>1, <2>2, <2>3 DEF Sides
<1>6. CASE UNCHANGED <<writer, file_state, produced, drained, current_filename>>
  BY <1>6 DEF Sides
<1>7. LastRequest \/ EndCapture \/ WriteShards \/ Exited \/ UNCHANGED loopVars
        => UNCHANGED <<writer, file_state, produced, drained, current_filename>>
  BY DEF LastRequest, EndCapture, WriteImageEof, WriteShards, WritePayload, WriteMarker,
         CloseShards, Exited, loopVars, serializerVars
<1> QED
  BY <1>1, <1>2, <1>3, <1>4, <1>5, <1>6, <1>7 DEF LoopNext, ClientStep, CaptureStep

LEMMA LoopInvInit == LoopInit => LoopInv
BY LoopTypedInit, SidesInit, CarriedInit DEF LoopInv

LEMMA LoopInvNext == LoopInv /\ [LoopNext]_loopVars => LoopInv'
<1> SUFFICES ASSUME LoopInv, [LoopNext]_loopVars
             PROVE  LoopInv'
  OBVIOUS
<1>1. LoopTyped /\ Sides /\ \E str : Carried(str, pipe) /\ Ends(str) /\ Replays(str)
  BY DEF LoopInv
<1>2. PICK str : Carried(str, pipe) /\ Ends(str) /\ Replays(str)
  BY <1>1
<1>3. LoopTyped' /\ Sides'
  BY <1>1, LoopTypedNext, SidesNext
<1>4. PICK put : put = pipe
  OBVIOUS
<1>5. Carried(str, put)
  <2>1. Streams(str) /\ Queued(str, pipe) /\ Placed(str, pipe) /\ Ordered(pipe)
        /\ Complete(str, pipe)
    BY <1>2 DEF Carried
  <2>2. Queued(str, put)
    BY <1>4, <2>1 DEF Queued
  <2>3. Placed(str, put)
    BY <1>4, <2>1 DEF Placed
  <2>4. Ordered(put)
    BY <1>4, <2>1 DEF Ordered, Increasing, NoTwice
  <2>5. Complete(str, put)
    BY <1>4, <2>1 DEF Complete
  <2> QED BY <2>1, <2>2, <2>3, <2>4, <2>5 DEF Carried
<1>6. PICK new, wrote : /\ Carried(new, wrote)' /\ Ends(new)' /\ Replays(new)'
                        /\ Puts(put, wrote)
  BY <1>1, <1>2, <1>5, LoopCarried
<1>7. Carried(new, pipe)'
  BY <1>4, <1>6, PutsKept, CarriedAgain
<1> QED BY <1>3, <1>6, <1>7 DEF LoopInv

LEMMA InvReplays ==
  ASSUME LoopInv
  PROVE  ShardsReplay
<1> DEFINE sent == {f \in File : file_state[f] # "absent"}
           image1 == ReplayChunks("small", EmptyImage, Written["small"])
           image2 == ReplayChunks("main", image1, Written["main"])
<1> SUFFICES ASSUME AllWritten
             PROVE  /\ image2 # None
                    /\ image2.image_eof
                    /\ image2.inserted = sent
                    /\ image2.metadata = metadata
                    /\ \A f \in sent : image2.content[f] = [i \in 1..produced[f] |-> <<f, i>>]
  BY Zenon DEF ShardsReplay
<1>1. PICK str : Carried(str, pipe) /\ Replays(str)
  BY DEF LoopInv
<1>2. finished /\ Written = str
  BY <1>1, WrittenIs DEF AllWritten
<1>3. /\ LoopTyped /\ Sides /\ "small" \in Class /\ "main" \in Class
      /\ \A f \in File : file_state[f] \in {"absent", "removed"}
  BY <1>2 DEF LoopInv, LoopTyped, Class
<1>4. PICK x, y, z : x = EmptyImage /\ y = image1 /\ z = image2
  OBVIOUS
<1>5. Fresh(x)
  <2>1. [f \in FileName |-> << >>] \in [FileName -> Seq(Data)]
    OBVIOUS
  <2>2. x \in Image
    BY <1>4, <2>1 DEF EmptyImage, Image
  <2> QED BY <1>4, <2>2 DEF Fresh, EmptyImage
<1>6. x.inserted = {}
  BY <1>4 DEF EmptyImage
<1>7. Effect("small", x, y)
  BY <1>1, <1>2, <1>3, <1>4, <1>5 DEF Replays
<1>8. \A c \in Class : \A f \in OfClass(c) : f \in File /\ file_state[f] # "open"
  BY <1>3 DEF OfClass
<1>9. Fresh(y)
  <2>1. y \in Image /\ Begun(y) = {}
    BY <1>3, <1>7, <1>8 DEF Effect
  <2> QED BY <2>1 DEF Fresh, Begun
<1>10. Effect("main", y, z)
  BY <1>1, <1>2, <1>3, <1>4, <1>9 DEF Replays
<1>11. \A f \in File : f \in OfClass("small") \/ f \in OfClass("main")
  BY DEF OfClass, ClassOf
<1>12. OfClass("small") \cap OfClass("main") = {}
  BY DEF OfClass
<1>13. z # None
  BY <1>10, ImageFields DEF Effect
<1>14. z.image_eof /\ z.metadata = metadata
  <2>1. z.metadata = y.metadata /\ y.metadata = metadata
    BY <1>2, <1>7, <1>10 DEF Effect
  <2>2. z.image_eof = TRUE
    BY <1>2, <1>10 DEF Effect
  <2> QED BY <2>1, <2>2
<1>15. z.inserted = sent
  <2>1. /\ y.inserted = {f \in OfClass("small") : file_state[f] = "removed"}
        /\ z.inserted = y.inserted \cup {f \in OfClass("main") : file_state[f] = "removed"}
    BY <1>6, <1>7, <1>10 DEF Effect
  <2> QED BY <1>3, <1>8, <1>11, <2>1
<1>16. ASSUME NEW f \in sent
       PROVE  z.content[f] = [i \in 1..produced[f] |-> <<f, i>>]
  <2>1. f \in File /\ file_state[f] = "removed" /\ drained[f] = produced[f]
    BY <1>3 DEF Sides
  <2>2. CASE f \in OfClass("main")
    <3>1. z.content[f] = UnitsTo(f, drained[f])
      BY <1>10, <2>1, <2>2 DEF Effect
    <3> QED BY <2>1, <3>1 DEF UnitsTo
  <2>3. CASE f \in OfClass("small")
    <3>1. y.content[f] = UnitsTo(f, drained[f])
      BY <1>7, <2>1, <2>3 DEF Effect
    <3>2. z.content[f] = y.content[f]
      BY <1>10, <1>12, <2>1, <2>3 DEF Effect
    <3> QED BY <2>1, <3>1, <3>2 DEF UnitsTo
  <2> QED BY <1>11, <2>1, <2>2, <2>3
<1> QED BY <1>4, <1>13, <1>14, <1>15, <1>16

\* The loop of capture() keeps what it queues and writes of its type, whatever
\* the sizes of the files, the pipes and the chunks.
THEOREM LoopTyping == LoopSpec => []LoopTypeOK
<1>1. LoopInv => LoopTypeOK
  <2> SUFFICES ASSUME LoopInv
               PROVE  LoopTypeOK
    OBVIOUS
  <2>1. PICK str : Carried(str, pipe)
    BY DEF LoopInv
  <2>2. outbox \in Seq(Entry) /\ pipe \in [Shard -> Seq(Slot)]
    BY <2>1 DEF Carried, Queued, Placed
  <2>3. \A k \in 1..Len(outbox) :
          /\ outbox[k].class \in Class
          /\ outbox[k].marker \in Marker
          /\ outbox[k].data \in Seq(Data)
    <3> TAKE k \in 1..Len(outbox)
    <3>1. outbox[k] \in Entry
      BY <2>2
    <3> QED BY <3>1 DEF Entry
  <2>4. SerializerTypeOK
    <3>1. LoopTyped
      BY DEF LoopInv
    <3> QED BY <2>3, <3>1, Zenon DEF LoopTyped, SerializerTypeOK
  <2> QED BY <2>2, <2>4 DEF LoopInv, LoopTyped, LoopTypeOK
<1> QED
  BY <1>1, LoopInvInit, LoopInvNext, PTL DEF LoopSpec

\* When capture() is done the shards hold, for each class, chunks numbered
\* without a gap, whole, in increasing order in each shard and none twice, and
\* end with the metadata and ImageEof: for every set of files and shards and
\* whatever shard each write_chunk() picked.  It is what extract relies on.
THEOREM CaptureWellFormed == LoopSpec => []ShardsWellFormed
<1>1. LoopInv => ShardsWellFormed
  BY InvWellFormed
<1> QED
  BY <1>1, LoopInvInit, LoopInvNext, PTL DEF LoopSpec

\* When capture() is done, replaying the shards chunk by chunk gives every file
\* a client sent, whole and in order, and no other, and the list of them: for
\* every set of files, however their clients' writes and the calls of
\* drain_img_file() that cut them into chunks interleave.
THEOREM CaptureReplays == LoopSpec => []ShardsReplay
<1>1. LoopInv => ShardsReplay
  BY InvReplays
<1> QED
  BY <1>1, LoopInvInit, LoopInvNext, PTL DEF LoopSpec
=============================================================================
