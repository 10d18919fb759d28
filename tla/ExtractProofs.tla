----------------------------- MODULE ExtractProofs -----------------------------
(***************************************************************************)
(* Proofs about extract.  Of Restore, for every image, every number of     *)
(* shards, every way of spreading the chunks over them, every capacity of  *)
(* the pipes and every set of cut shards: its invariant, and that it       *)
(* implements the sequential replay of the image.  Of Migration, for every *)
(* set of files and shards and every size of pipes and chunks: that while  *)
(* capture() writes extract keeps the same invariant, never ends with an   *)
(* error, and reads the list of just the files that were drained.          *)
(***************************************************************************)
EXTENDS Restore, Migration, StreamProofs

\* Applying a chunk to an image gives an image.
LEMMA ApplyType ==
  ASSUME NEW c \in Class, NEW x \in Image, NEW m \in Marker, NEW d \in Seq(Data),
         CanApply(c, x, m),
         m.body = "Filename" => m.file # None
  PROVE  Apply(c, x, m, d) \in Image
<1> USE ImageAssumption
<1>1. CASE m.body = "Filename"
  <2>1. m.file \in FileName
    BY <1>1 DEF Marker
  <2> DEFINE f     == m.file
             begun == x.img_files \cup ({x.current_img_file} \ {None})
             cont  == [x.content EXCEPT ![f] = IF f \in begun THEN @ ELSE << >>]
  <2>a. begun \in SUBSET FileName /\ << >> \in Seq(Data)
    BY DEF Image
  <2>b. x.content \in [FileName -> Seq(Data)]
    BY DEF Image
  <2>c. cont \in [FileName -> Seq(Data)]
    BY <2>1, <2>a, <2>b
  <2>d. SelectImgFile(x, f) = [x EXCEPT !.current_img_file = f, !.img_files = begun \ {f},
                                        !.content = cont]
    BY DEF SelectImgFile, Image
  <2>2. SelectImgFile(x, m.file) \in Image
    <3> HIDE DEF begun, cont
    <3> QED BY <2>1, <2>a, <2>c, <2>d DEF Image
  <2> QED BY <1>1, <2>2 DEF Apply
<1>2. CASE m.body = "FileData"
  <2>1. x.current_img_file \in FileName
    BY <1>2 DEF CanApply, Image
  <2>2. x.content[x.current_img_file] \o d \in Seq(Data)
    BY <2>1 DEF Image
  <2>3. ApplyData(c, x, d) \in Image
    BY <2>1, <2>2 DEF ApplyData, Image
  <2> QED BY <1>2, <2>3 DEF Apply
<1>3. CASE m.body = "FileEof"
  <2>1. x.current_img_file \in FileName
    BY <1>3 DEF CanApply, Image
  <2>2. ApplyFileEof(c, x) \in Image
    BY <2>1 DEF ApplyFileEof, Image
  <2> QED BY <1>3, <2>2 DEF Apply
<1>4. CASE m.body = "ImageEof"
  BY <1>4 DEF Apply, Image
<1> QED BY <1>1, <1>2, <1>3, <1>4 DEF Marker, Body

\* What the effect of a marker is on the parts of an image that EndsReached is about.
LEMMA ApplyEnds ==
  ASSUME NEW c \in Class, NEW x \in Image, NEW m \in Marker, NEW d
  PROVE  LET y == Apply(c, x, m, d)
         IN  /\ m.body = "Filename" => /\ y.current_img_file = m.file
                                       /\ y.metadata = x.metadata
                                       /\ y.image_eof = x.image_eof
             /\ m.body = "FileData" => /\ y.current_img_file = x.current_img_file
                                       /\ \/ y.metadata = x.metadata
                                          \/ IsMetadata(c, x) /\ y.metadata = d
                                       /\ y.image_eof = x.image_eof
             /\ m.body = "FileEof"  => /\ y.current_img_file = None
                                       /\ y.metadata = x.metadata
                                       /\ y.image_eof = x.image_eof
             /\ m.body = "ImageEof" => /\ y.current_img_file = x.current_img_file
                                       /\ y.metadata = x.metadata
                                       /\ y.image_eof = TRUE
BY DEF Apply, SelectImgFile, ApplyData, ApplyFileEof, Image

-----------------------------------------------------------------------------
\* What a reader takes from the head of a pipe is the next slot of its shard.
LEMMA NextSlot ==
  ASSUME NEW obj, NEW put, ReaderTyped(obj, put), Fifo(obj, put),
         NEW s \in Shard, pipe[s] # << >>
  PROVE  /\ taken(put, s) \in 0..(Len(obj[s]) - 1)
         /\ Head(pipe[s]) = obj[s][taken(put, s) + 1]
         /\ Head(pipe[s]) \in Slot
         /\ Tail(pipe[s]) \in Seq(Slot)
         /\ Len(Tail(pipe[s])) = Len(pipe[s]) - 1
         /\ \A i \in 1..Len(Tail(pipe[s])) : Tail(pipe[s])[i] = obj[s][taken(put, s) + 1 + i]
<1> DEFINE q == pipe[s]
<1>1. q \in Seq(Slot) /\ Len(q) \in Nat \ {0} /\ put[s] \in Nat /\ obj[s] \in Seq(Slot)
  BY DEF ReaderTyped
<1>2. Head(q) = q[1] /\ Head(q) \in Slot
  BY <1>1
<1>3. /\ Tail(q) \in Seq(Slot)
      /\ Len(Tail(q)) = Len(q) - 1
      /\ \A i \in 1..Len(Tail(q)) : Tail(q)[i] = q[i + 1]
  BY <1>1
<1>4. /\ put[s] \in 0..Len(obj[s])
      /\ Len(q) <= put[s]
      /\ \A i \in 1..Len(q) : q[i] = obj[s][taken(put, s) + i]
  BY DEF Fifo
<1>5. taken(put, s) \in Nat /\ taken(put, s) + Len(q) = put[s]
  BY <1>1, <1>4 DEF taken
<1>6. q[1] = obj[s][taken(put, s) + 1]
  BY <1>1, <1>4
<1>7. \A i \in 1..Len(Tail(q)) : Tail(q)[i] = obj[s][taken(put, s) + 1 + i]
  <2> TAKE i \in 1..Len(Tail(q))
  <2>1. i + 1 \in 1..Len(q) /\ Tail(q)[i] = q[i + 1]
    BY <1>1, <1>3
  <2>2. q[i + 1] = obj[s][taken(put, s) + (i + 1)]
    BY <1>4, <2>1
  <2> QED BY <1>5, <2>1, <2>2
<1> QED
  <2>1. taken(put, s) \in 0..(Len(obj[s]) - 1)
    BY <1>1, <1>4, <1>5
  <2> QED BY <1>2, <1>3, <1>6, <1>7, <2>1

\* Where the reader is in a shard.
LEMMA TakenType ==
  ASSUME NEW obj, NEW put, ReaderTyped(obj, put), Fifo(obj, put), NEW s \in Shard
  PROVE  /\ taken(put, s) \in Nat
         /\ taken(put, s) <= put[s] /\ put[s] <= Len(obj[s])
         /\ put[s] \in Nat /\ Len(obj[s]) \in Nat /\ Len(pipe[s]) \in Nat
BY DEF ReaderTyped, Fifo, taken

\* Taking a slot moves the position of the reader in that shard by one.
LEMMA TakeFifo ==
  ASSUME NEW obj, NEW put, ReaderTyped(obj, put), Fifo(obj, put),
         NEW s \in Shard, pipe[s] # << >>, Take(s)
  PROVE  /\ Fifo(obj, put)'
         /\ pipe' \in [Shard -> Seq(Slot)]
         /\ taken(put, s)' = taken(put, s) + 1
         /\ \A t \in Shard \ {s} : taken(put, t)' = taken(put, t) /\ pipe'[t] = pipe[t]
<1>1. /\ pipe \in [Shard -> Seq(Slot)]
      /\ pipe' = [pipe EXCEPT ![s] = Tail(@)]
      /\ put[s] \in Nat /\ Len(pipe[s]) \in Nat
  BY DEF ReaderTyped, Take
<1>2. pipe'[s] = Tail(pipe[s]) /\ \A t \in Shard \ {s} : pipe'[t] = pipe[t]
  BY <1>1
<1>3. pipe' \in [Shard -> Seq(Slot)]
  BY <1>1, NextSlot
<1>4. taken(put, s)' = taken(put, s) + 1
  BY <1>1, <1>2, NextSlot DEF taken
<1>5. \A t \in Shard \ {s} : taken(put, t)' = taken(put, t)
  BY <1>2 DEF taken
<1>6. Fifo(obj, put)'
  <2> SUFFICES ASSUME NEW t \in Shard
               PROVE  /\ put[t] \in 0..Len(obj[t])
                      /\ Len(pipe'[t]) <= put[t]
                      /\ \A i \in 1..Len(pipe'[t]) : pipe'[t][i] = obj[t][taken(put, t)' + i]
    BY DEF Fifo
  <2>1. CASE t = s
    <3>1. \A i \in 1..Len(pipe'[s]) : pipe'[s][i] = obj[s][taken(put, s)' + i]
      BY <1>2, <1>4, NextSlot
    <3>2. Len(pipe'[s]) <= put[s]
      <4>1. Len(pipe'[s]) = Len(pipe[s]) - 1
        BY <1>2, NextSlot
      <4>2. Len(pipe[s]) <= put[s]
        BY DEF Fifo
      <4> QED BY <1>1, <4>1, <4>2
    <3> QED BY <2>1, <3>1, <3>2 DEF Fifo
  <2>2. CASE t # s
    BY <1>2, <1>5, <2>2 DEF Fifo
  <2> QED BY <2>1, <2>2
<1> QED BY <1>2, <1>3, <1>4, <1>5, <1>6

\* Shards that go on where they ended.
GoesOn(obj, grown) ==
  \A s \in Shard : /\ Len(obj[s]) <= Len(grown[s])
                   /\ \A i \in 1..Len(obj[s]) : grown[s][i] = obj[s][i]

\* The next slot of a shard is put in its pipe.
PutsOn(obj, put, grown, s, more) ==
  /\ ReaderTyped(obj, put) /\ Fifo(obj, put)
  /\ grown \in [Shard -> Seq(Slot)] /\ GoesOn(obj, grown)
  /\ s \in Shard /\ put[s] < Len(grown[s]) /\ ending[s] = "open" /\ ending' = ending
  /\ pipe' = [pipe EXCEPT ![s] = Append(@, grown[s][put[s] + 1])]
  /\ more = [put EXCEPT ![s] = @ + 1]

\* Putting a slot in a pipe moves none of the positions of the reader.
LEMMA PutFifo ==
  ASSUME NEW obj, NEW put, NEW grown, NEW s, NEW more, PutsOn(obj, put, grown, s, more)
  PROVE  /\ Fifo(grown, more)'
         /\ pipe' \in [Shard -> Seq(Slot)]
         /\ more \in [Shard -> Nat]
         /\ \A t \in Shard : taken(more, t)' = taken(put, t)
         /\ \A t \in Shard : AtEof(t) => AtEof(t)'
<1> DEFINE q == pipe[s]
           x == grown[s][put[s] + 1]
<1>0. /\ ReaderTyped(obj, put) /\ Fifo(obj, put)
      /\ grown \in [Shard -> Seq(Slot)] /\ GoesOn(obj, grown)
      /\ s \in Shard /\ put[s] < Len(grown[s]) /\ ending[s] = "open" /\ ending' = ending
      /\ pipe' = [pipe EXCEPT ![s] = Append(@, x)]
      /\ more = [put EXCEPT ![s] = @ + 1]
  BY DEF PutsOn
<1> USE <1>0
<1>1. /\ pipe \in [Shard -> Seq(Slot)]
      /\ pipe' = [pipe EXCEPT ![s] = Append(@, x)]
      /\ put \in [Shard -> Nat]
      /\ put[s] \in Nat /\ Len(q) \in Nat /\ Len(grown[s]) \in Nat
      /\ grown[s] \in Seq(Slot)
  BY DEF ReaderTyped
<1>2. x \in Slot
  BY <1>1
<1>3. q \in Seq(Slot)
  BY <1>1
<1>4. /\ Append(q, x) \in Seq(Slot)
      /\ Len(Append(q, x)) = Len(q) + 1
      /\ \A i \in 1..Len(q) : Append(q, x)[i] = q[i]
      /\ Append(q, x)[Len(q) + 1] = x
  BY <1>2, <1>3
<1>5. /\ pipe'[s] = Append(q, x) /\ more[s] = put[s] + 1
      /\ \A t \in Shard \ {s} : pipe'[t] = pipe[t] /\ more[t] = put[t]
  BY <1>1
<1>6. \A t \in Shard : taken(more, t)' = taken(put, t)
  BY <1>1, <1>4, <1>5 DEF taken
<1>a. ASSUME NEW t \in Shard, NEW i \in 1..Len(pipe[t])
      PROVE  pipe[t][i] = grown[t][taken(put, t) + i]
  <2>1. taken(put, t) + i \in 1..Len(obj[t])
    <3>1. Len(pipe[t]) <= put[t] /\ i \in Nat
      BY DEF Fifo
    <3>2. put[t] <= Len(obj[t]) /\ put[t] \in Nat /\ Len(obj[t]) \in Nat /\ Len(pipe[t]) \in Nat
      BY TakenType
    <3> QED BY ONLY <3>1, <3>2, i \in 1..Len(pipe[t]) DEF taken
  <2> QED BY <2>1 DEF Fifo, GoesOn
<1>b. \A t \in Shard : Len(pipe[t]) <= put[t] /\ put[t] \in Nat /\ put[t] <= Len(grown[t])
  <2> TAKE t \in Shard
  <2>1. put[t] <= Len(obj[t]) /\ Len(obj[t]) <= Len(grown[t])
    BY TakenType DEF GoesOn
  <2>2. Len(obj[t]) \in Nat /\ Len(grown[t]) \in Nat /\ put[t] \in Nat
    BY DEF ReaderTyped
  <2> QED BY <2>1, <2>2 DEF Fifo
<1>8. \A t \in Shard :
        /\ more[t] \in 0..Len(grown[t])
        /\ Len(pipe'[t]) <= more[t]
        /\ \A i \in 1..Len(pipe'[t]) : pipe'[t][i] = grown[t][taken(put, t) + i]
  <2> TAKE t \in Shard
  <2>1. CASE t = s
    <3>1. ASSUME NEW i \in 1..Len(pipe'[s])
          PROVE  pipe'[s][i] = grown[s][taken(put, s) + i]
      <4>1. CASE i \in 1..Len(q)
        BY <1>4, <1>5, <1>a, <4>1
      <4>2. CASE i = Len(q) + 1
        <5>1. taken(put, s) + i = put[s] + 1
          BY <1>1, <4>2 DEF taken
        <5> QED BY <1>4, <1>5, <4>2, <5>1
      <4> QED BY <1>1, <1>4, <1>5, <4>1, <4>2
    <3> QED BY <1>1, <1>4, <1>5, <1>b, <2>1, <3>1
  <2>2. CASE t # s
    <3>1. Len(grown[t]) \in Nat
      OBVIOUS
    <3> QED BY <1>5, <1>a, <1>b, <2>2, <3>1
  <2> QED BY <2>1, <2>2
<1>9. pipe' \in [Shard -> Seq(Slot)] /\ more \in [Shard -> Nat]
  BY <1>1, <1>4
<1>10. \A t \in Shard : AtEof(t) => AtEof(t)'
  BY <1>5 DEF AtEof
<1>11. \A t \in Shard : more[t] - Len(pipe'[t]) = taken(put, t)
  BY ONLY <1>6 DEF taken
<1>12. \A t \in Shard :
         /\ more[t] \in 0..Len(grown[t])
         /\ Len(pipe'[t]) <= more[t]
         /\ \A i \in 1..Len(pipe'[t]) :
              pipe'[t][i] = grown[t][more[t] - Len(pipe'[t]) + i]
  <2> TAKE t \in Shard
  <2>1. more[t] - Len(pipe'[t]) = taken(put, t)
    BY ONLY <1>11, t \in Shard
  <2> QED BY ONLY <1>8, <2>1, t \in Shard
<1>13. Fifo(grown, more)'
  BY ONLY <1>12 DEF Fifo, taken
<1> QED BY <1>6, <1>9, <1>10, <1>13

-----------------------------------------------------------------------------
\* A marker in a shard is that of a chunk of the stream of its class.
LEMMA MarkerInStream ==
  ASSUME NEW str, NEW obj, SoFar(str, obj), NEW c \in Class, NEW s \in ShardsOf(c),
         NEW i \in 1..Len(obj[s]), obj[s][i].kind = "marker"
  PROVE  LET m == obj[s][i]
         IN  /\ s \in Shard
             /\ m \in Marker
             /\ m.seq + 1 \in 1..Len(str[c])
             /\ m = str[c][m.seq + 1].marker
             /\ m.body = "Filename" <=> m.file # None
             /\ m.file = MetadataFile =>
                  c = "small" /\ EndsWithMetadata(str[c]) /\ m.seq = Len(str[c]) - 3
             /\ m.body = "ImageEof" =>
                  c = "main" /\ EndsWithImageEof(str[c]) /\ m.seq = Len(str[c]) - 1
             /\ HasPayload(m) =>
                  /\ str[c][m.seq+1].data \in Seq(Data)
                  /\ i # Len(obj[s]) => obj[s][i+1] = MakePayload(str[c][m.seq+1].data)
<1> DEFINE m == obj[s][i]
<1>1. s \in Shard
  BY DEF ShardsOf, Shard
<1>2. obj[s] \in Seq(Slot) /\ m \in Slot
  BY <1>1 DEF SoFar
<1>3. m \in Marker
  BY <1>2 DEF Slot, Payload
<1>4. FramedSoFar(str, obj, c, s)
  BY DEF SoFar
<1>5. /\ m.seq + 1 \in 1..Len(str[c])
      /\ m = str[c][m.seq + 1].marker
      /\ HasPayload(m) /\ i # Len(obj[s]) => obj[s][i+1] = MakePayload(str[c][m.seq+1].data)
  BY <1>4 DEF FramedSoFar
<1>7. str[c] \in Seq(Chunk) /\ Len(str[c]) \in Nat /\ m.seq \in Nat
  BY <1>3 DEF SoFar, Marker
<1>8. str[c][m.seq+1] \in Chunk
  BY <1>5, <1>7
<1>9. m.body = "Filename" <=> m.file # None
  BY <1>5 DEF SoFar
<1>10. ASSUME m.file = MetadataFile
       PROVE  c = "small" /\ EndsWithMetadata(str[c]) /\ m.seq = Len(str[c]) - 3
  <2>1. c = "small"
    BY <1>5, <1>10 DEF SoFar, Class
  <2>2. EndsWithMetadata(str[c])
    BY <1>5, <1>10, <2>1 DEF SoFar
  <2>3. m.seq + 1 = Len(str[c]) - 2
    BY <1>5, <1>10, <2>2 DEF EndsWithMetadata
  <2> QED BY <1>7, <2>1, <2>2, <2>3
<1>11. ASSUME m.body = "ImageEof"
       PROVE  c = "main" /\ EndsWithImageEof(str[c]) /\ m.seq = Len(str[c]) - 1
  <2>1. c = "main"
    BY <1>5, <1>11 DEF SoFar, Class
  <2>2. EndsWithImageEof(str[c])
    BY <1>5, <1>11, <2>1 DEF SoFar
  <2>3. m.seq + 1 = Len(str[c])
    BY <1>5, <1>11, <2>2 DEF EndsWithImageEof
  <2> QED BY <1>7, <2>1, <2>2, <2>3
<1> QED BY <1>1, <1>3, <1>5, <1>8, <1>9, <1>10, <1>11 DEF Chunk

LEMMA LaterIsHigher ==
  ASSUME NEW str, NEW obj, SoFar(str, obj), NEW c \in Class, NEW s \in ShardsOf(c),
         NEW i \in 1..Len(obj[s]), NEW j \in 1..Len(obj[s]), i < j,
         obj[s][i].kind = "marker", obj[s][j].kind = "marker"
  PROVE  obj[s][i].seq < obj[s][j].seq
<1>1. Increasing(obj, s)
  BY DEF SoFar
<1> QED BY <1>1 DEF Increasing

\* Two markers of a class have different numbers.
LEMMA DistinctNumbers ==
  ASSUME NEW str, NEW obj, SoFar(str, obj),
         NEW c \in Class, NEW s \in ShardsOf(c), NEW t \in ShardsOf(c),
         NEW i \in 1..Len(obj[s]), NEW j \in 1..Len(obj[t]),
         obj[s][i].kind = "marker", obj[t][j].kind = "marker",
         obj[s][i].seq = obj[t][j].seq
  PROVE  s = t /\ i = j
<1>1. obj[s][i].seq \in Nat /\ Len(obj[s]) \in Nat
  <2>1. obj[s][i] \in Marker /\ s \in Shard
    BY MarkerInStream
  <2> QED BY <2>1 DEF Marker, SoFar
<1>2. CASE s # t
  <2>1. s \in MainShard /\ t \in MainShard
    BY <1>2 DEF ShardsOf
  <2> QED BY <1>2, <2>1 DEF SoFar, NoTwice
<1>3. CASE s = t /\ i < j
  BY <1>1, <1>3, LaterIsHigher
<1>4. CASE s = t /\ j < i
  BY <1>1, <1>4, LaterIsHigher
<1> QED BY <1>1, <1>2, <1>3, <1>4

\* The reader stands still: what a step keeps that leaves the pipes alone.
LEMMA StandStill ==
  ASSUME NEW str, NEW obj, NEW put, Reading(str, obj, put), UNCHANGED <<pipe, ending>>
  PROVE  /\ Fifo(obj, put)'
         /\ \A s \in Shard : taken(put, s)' = taken(put, s) /\ (AtEof(s)' <=> AtEof(s))
<1>1. Fifo(obj, put)
  BY DEF Reading
<1>2. \A s \in Shard : taken(put, s)' = taken(put, s) /\ (AtEof(s)' <=> AtEof(s))
  BY DEF taken, AtEof
<1>3. Fifo(obj, put)'
  BY <1>1, <1>2 DEF Fifo
<1> QED BY <1>2, <1>3

\* What is put in the pipes, by whoever does, as long as it comes behind what
\* was there.
LEMMA EnvironmentStep ==
  ASSUME NEW str, NEW obj, NEW put, Reading(str, obj, put), UNCHANGED deserializerVars,
         NEW new, NEW grown, NEW more, SoFar(new, grown), GoesOn(obj, grown),
         EndsReached(new), Fifo(grown, more)',
         pipe' \in [Shard -> Seq(Slot)], more \in [Shard -> Nat],
         ending' \in [Shard -> {"open", "eof", "torn"}],
         \A s \in Shard : taken(more, s)' = taken(put, s),
         \A s \in Shard : AtEof(s) => AtEof(s)'
  PROVE  Reading(new, grown, more)'
<1> USE DEF deserializerVars
<1>0. /\ ReaderTyped(obj, put) /\ Fifo(obj, put) /\ ShardsAccounted
      /\ MarkersAccounted(obj, put) /\ Behind(obj) /\ FramingKept(obj, put)
      /\ \A c \in Class : ShardsOf(c) \subseteq Shard
      /\ next_seq \in [Class -> Nat]
  BY DEF Reading, ReaderTyped, ShardsOf, Shard
<1>1. ReaderTyped(grown, more)'
  BY <1>0 DEF ReaderTyped, SoFar
<1>2. SoFar(new, grown)'
  BY DEF SoFar
<1>3. \A s \in Shard : HeldFrom(s)' <=> HeldFrom(s)
  BY DEF HeldFrom, Running
<1>4. ShardsAccounted'
  <2>1. \A s \in Gone : s \in Shard
    BY DEF Gone, Shard
  <2> QED BY <1>0, <2>1 DEF ShardsAccounted, OfPending, Gone, Running
<1>5. \A s \in Shard : \A i \in 1..Len(obj[s]) :
        i \in 1..Len(grown[s]) /\ grown[s][i] = obj[s][i]
  <2> TAKE s \in Shard
  <2>1. Len(obj[s]) \in Nat /\ Len(grown[s]) \in Nat
    BY <1>0 DEF ReaderTyped, SoFar
  <2> QED BY <2>1 DEF GoesOn
<1>e. /\ phase' = phase /\ pending_markers' = pending_markers /\ held' = held
      /\ next_seq' = next_seq /\ img' = img
  OBVIOUS
<1>6. Behind(grown)'
  <2> SUFFICES ASSUME NEW c \in Class, NEW n \in 0..(next_seq[c] - 1)
               PROVE  \E s \in ShardsOf(c) : \E i \in 1..Len(grown[s]) :
                        grown[s][i].kind = "marker" /\ grown[s][i].seq = n
    BY <1>e DEF Behind
  <2>1. PICK s \in ShardsOf(c) : \E i \in 1..Len(obj[s]) :
          obj[s][i].kind = "marker" /\ obj[s][i].seq = n
    BY <1>0 DEF Behind
  <2>2. PICK i \in 1..Len(obj[s]) : obj[s][i].kind = "marker" /\ obj[s][i].seq = n
    BY <2>1
  <2> QED BY <1>0, <1>5, <2>2
<1>7. MarkersAccounted(grown, more)'
  <2> SUFFICES ASSUME NEW c \in Class, NEW s \in ShardsOf(c), NEW i \in 1..Len(grown[s]),
                      phase # "failed", grown[s][i].kind = "marker"
               PROVE  IF i <= taken(put, s)
                      THEN \/ grown[s][i].seq < next_seq[c]
                           \/ i = taken(put, s) /\ s # SmallShard
                               /\ [marker |-> grown[s][i], shard |-> s] \in pending_markers
                           \/ i = taken(put, s) /\ HeldFrom(s) /\ grown[s][i] = held
                      ELSE grown[s][i].seq >= next_seq[c]
    BY <1>0, <1>3 DEF MarkersAccounted
  <2>1. s \in Shard
    BY <1>0
  <2>2. CASE i \in 1..Len(obj[s])
    BY <1>0, <1>5, <2>1, <2>2 DEF MarkersAccounted
  <2>3. CASE i \notin 1..Len(obj[s])
    <3>1. i > Len(obj[s])
      BY <1>0, <2>1, <2>3 DEF ReaderTyped
    <3>2. ~(i <= taken(put, s))
      BY <1>0, <2>1, <3>1, TakenType
    <3>3. grown[s][i] \in Marker
      BY MarkerInStream
    <3>4. grown[s][i].seq \in Nat /\ next_seq[c] \in Nat
      BY <1>0, <3>3 DEF Marker
    <3>5. ASSUME grown[s][i].seq < next_seq[c]
          PROVE  FALSE
      <4>1. PICK n : n = grown[s][i].seq
        OBVIOUS
      <4>2. n \in 0..(next_seq[c] - 1)
        BY <3>4, <3>5, <4>1
      <4>3. PICK t \in ShardsOf(c) : \E j \in 1..Len(obj[t]) :
               obj[t][j].kind = "marker" /\ obj[t][j].seq = n
        BY <1>0, <4>2 DEF Behind
      <4>4. PICK j \in 1..Len(obj[t]) : obj[t][j].kind = "marker" /\ obj[t][j].seq = n
        BY <4>3
      <4>5. j \in 1..Len(grown[t]) /\ grown[t][j] = obj[t][j]
        BY <1>0, <1>5
      <4>6. s = t /\ i = j
        BY <4>1, <4>4, <4>5, DistinctNumbers
      <4> QED BY <2>3, <4>6
    <3> QED BY <3>2, <3>4, <3>5
  <2> QED BY <2>2, <2>3
<1>8. \A s \in Shard : taken(put, s) > 0 => taken(put, s) \in 1..Len(obj[s])
  <2> TAKE s \in Shard
  <2>1. /\ taken(put, s) \in Nat /\ taken(put, s) <= put[s] /\ put[s] <= Len(obj[s])
        /\ put[s] \in Nat /\ Len(obj[s]) \in Nat
    BY <1>0, TakenType
  <2> QED BY ONLY <2>1
<1>9. FramingKept(grown, more)'
  <2>1. \A p \in pending_markers : p.shard \in Shard
    BY <1>0 DEF ReaderTyped, PendingMarker, Shard
  <2>2. \A s \in Shard : taken(put, s) > 0 => grown[s][taken(put, s)] = obj[s][taken(put, s)]
    BY <1>5, <1>8
  <2>3. \A p \in pending_markers' :
          /\ taken(more, p.shard)' > 0 /\ p.marker = grown[p.shard][taken(more, p.shard)']
          /\ p.marker.seq >= next_seq'["main"]
    BY <1>0, <1>e, <2>1, <2>2 DEF FramingKept
  <2>4. \A s \in Shard :
          HeldFrom(s)' => /\ HasPayload(held')
                          /\ img'.current_img_file # None
                          /\ taken(more, s)' > 0 /\ held' = grown[s][taken(more, s)']
                          /\ held'.seq = next_seq'[IF s = SmallShard THEN "small" ELSE "main"]
    BY <1>0, <1>3, <1>e, <2>2 DEF FramingKept
  <2>5. \A s \in Shard \ OfPending' :
          (phase' # "failed" /\ ~HeldFrom(s)' /\ taken(more, s)' > 0) =>
            ~(/\ grown[s][taken(more, s)'].kind = "marker"
              /\ HasPayload(grown[s][taken(more, s)']))
    <3> SUFFICES ASSUME NEW s \in Shard \ OfPending,
                        phase # "failed", ~HeldFrom(s), taken(put, s) > 0
                 PROVE  ~(/\ grown[s][taken(put, s)].kind = "marker"
                          /\ HasPayload(grown[s][taken(put, s)]))
      BY <1>3, <1>e DEF OfPending
    <3> QED BY <1>0, <2>2 DEF FramingKept
  <2> QED BY <2>3, <2>4, <2>5 DEF FramingKept
<1>10. EndsReached(new)'
  BY DEF EndsReached
<1> QED BY <1>1, <1>2, <1>4, <1>6, <1>7, <1>9, <1>10 DEF Reading

\* A step of the reader that takes nothing from a pipe and applies nothing.
LEMMA QuietStep ==
  ASSUME NEW str, NEW obj, NEW put, Reading(str, obj, put), ReaderTyped(obj, put)', ShardsAccounted', EndsReached(str)',
         UNCHANGED <<pipe, ending, pending_markers, held, next_seq, img>>,
         phase # "failed",
         phase' = "failed" \/ \A s \in Shard : HeldFrom(s)' <=> HeldFrom(s)
  PROVE  Reading(str, obj, put)'
<1>1. /\ Fifo(obj, put)'
      /\ \A s \in Shard : taken(put, s)' = taken(put, s)
  BY StandStill
<1>a. SoFar(str, obj)' /\ Behind(obj)'
  <2>1. next_seq' = next_seq /\ SoFar(str, obj) /\ Behind(obj)
    BY DEF Reading
  <2>2. Behind(obj)'
    BY <2>1 DEF Behind
  <2>3. SoFar(str, obj)'
    BY <2>1 DEF SoFar
  <2> QED BY <2>2, <2>3
<1>2. \A s \in Shard : HeldFrom(s)' => HeldFrom(s)
  BY DEF HeldFrom, Running
<1>3. MarkersAccounted(obj, put)'
  <2>1. MarkersAccounted(obj, put) BY DEF Reading
  <2>2. \A c \in Class : ShardsOf(c) \subseteq Shard BY DEF ShardsOf, Shard
  <2>3. CASE phase' = "failed"
    BY <2>3 DEF MarkersAccounted
  <2>4. CASE phase' # "failed"
    BY <1>1, <2>1, <2>2, <2>4 DEF MarkersAccounted
  <2> QED BY <2>3, <2>4
<1>4. FramingKept(obj, put)'
  <2>1. FramingKept(obj, put) BY DEF Reading
  <2>2. \A p \in pending_markers : p.shard \in Shard
    BY DEF Reading, ReaderTyped, PendingMarker, Shard
  <2>3. CASE phase' = "failed"
    BY <1>1, <1>2, <2>1, <2>2, <2>3 DEF FramingKept, OfPending
  <2>4. CASE phase' # "failed"
    BY <1>1, <2>1, <2>2, <2>4 DEF FramingKept, OfPending
  <2> QED BY <2>3, <2>4
<1> QED BY <1>1, <1>a, <1>3, <1>4 DEF Reading

\* The steps that only move shards between the collections, or end the run.
LEMMA CollectionsStep ==
  ASSUME NEW str, NEW obj, NEW put, Reading(str, obj, put),
         \/ SmallShort \/ SmallEof
         \/ PollShards \/ ReturnFromDrainAll
         \/ \E s \in MainShard : PopReadable(s) \/ PopLoneShard(s)
         \/ ReadEof \/ ReadShort
         \/ \E p \in pending_markers : ProcessReject(p)
  PROVE  Reading(str, obj, put)'
<1> USE ShardAssumption
<1> DEFINE Quiet == UNCHANGED <<pipe, ending, pending_markers, held, next_seq, img>>
<1>0. ReaderTyped(obj, put) /\ ShardsAccounted /\ EndsReached(str)
  BY DEF Reading
<1>1. CASE SmallShort
  <2>1. Quiet /\ phase' = "failed" /\ phase # "failed"
    BY <1>1 DEF SmallShort, Fail
  <2>2. ReaderTyped(obj, put)' /\ EndsReached(str)'
    BY <1>0, <1>1, <2>1 DEF SmallShort, Fail, ReaderTyped, EndsReached
  <2>3. ShardsAccounted'
    BY <1>0, <1>1, <2>1 DEF SmallShort, Fail, ShardsAccounted, Running, OfPending, Gone, AtEof
  <2> QED BY <2>1, <2>2, <2>3, QuietStep
<1>2. CASE SmallEof
  <2>1. Quiet /\ phase = "small" /\ phase' = "select"
    BY <1>2 DEF SmallEof
  <2>2. ReaderTyped(obj, put)' /\ EndsReached(str)'
    BY <1>0, <1>2, <2>1 DEF SmallEof, ReaderTyped, EndsReached
  <2>3. ShardsAccounted'
    BY <1>0, <1>2, <2>1 DEF SmallEof, ShardsAccounted, Running, OfPending, Gone, AtEof
  <2>4. \A s \in Shard : HeldFrom(s)' <=> HeldFrom(s)
    BY <1>0, <2>1 DEF HeldFrom, Running, ShardsAccounted
  <2> QED BY <2>1, <2>2, <2>3, <2>4, QuietStep
<1>3. CASE PollShards
  <2>1. Quiet /\ phase = "select" /\ phase' = "select" /\ picked' = picked
    BY <1>3 DEF PollShards, Selecting
  <2>2. ReaderTyped(obj, put)' /\ EndsReached(str)'
    BY <1>0, <1>3, <2>1 DEF PollShards, ReaderTyped, EndsReached
  <2>3. ShardsAccounted'
    <3>1. shards' \cup readable_shards' = shards \cup readable_shards
      BY <1>3 DEF PollShards
    <3>2. shards' \cap readable_shards' = {}
      BY <1>3 DEF PollShards
    <3> QED BY <1>0, <2>1, <3>1, <3>2 DEF ShardsAccounted, Running, OfPending, Gone, AtEof
  <2>4. \A s \in Shard : HeldFrom(s)' <=> HeldFrom(s)
    BY <2>1 DEF HeldFrom, Running
  <2> QED BY <2>1, <2>2, <2>3, <2>4, QuietStep
<1>4. CASE ReturnFromDrainAll
  <2>1. /\ Quiet /\ phase = "select"
        /\ phase' = "failed" \/ (phase' = "done" /\ img.image_eof)
        /\ UNCHANGED <<shards, readable_shards, picked>>
    BY <1>4 DEF ReturnFromDrainAll, Selecting
  <2>2. ReaderTyped(obj, put)' /\ EndsReached(str)'
    BY <1>0, <2>1 DEF ReaderTyped, EndsReached
  <2>3. ShardsAccounted'
    BY <1>0, <2>1 DEF ShardsAccounted, Running, OfPending, Gone, AtEof
  <2>4. \A s \in Shard : HeldFrom(s)' <=> HeldFrom(s)
    BY <1>0, <2>1 DEF HeldFrom, Running, ShardsAccounted
  <2> QED BY <2>1, <2>2, <2>3, <2>4, QuietStep
<1>5. ASSUME NEW s \in MainShard, PopReadable(s) \/ PopLoneShard(s)
      PROVE  Reading(str, obj, put)'
  <2>1. /\ Quiet /\ phase = "select" /\ phase' = "read" /\ picked' = s
        /\ s \in shards \cup readable_shards
        /\ shards' = shards \ {s} /\ readable_shards' = readable_shards \ {s}
    BY <1>0, <1>5 DEF PopReadable, PopLoneShard, Selecting, ShardsAccounted
  <2>2. ReaderTyped(obj, put)' /\ EndsReached(str)'
    BY <1>0, <2>1 DEF ReaderTyped, EndsReached
  <2>3. ShardsAccounted'
    <3>1. picked = None
      BY <1>0, <2>1 DEF ShardsAccounted, Running
    <3> QED BY <1>0, <2>1, <3>1 DEF ShardsAccounted, Running, OfPending, Gone, AtEof
  <2>4. \A t \in Shard : HeldFrom(t)' <=> HeldFrom(t)
    BY <1>0, <2>1 DEF HeldFrom, Running, ShardsAccounted
  <2> QED BY <2>1, <2>2, <2>3, <2>4, QuietStep
<1>6. CASE ReadEof
  <2>1. /\ Quiet /\ phase = "read" /\ phase' = "select" /\ picked' = None /\ AtEof(picked)
        /\ UNCHANGED <<shards, readable_shards>>
    BY <1>6 DEF ReadEof
  <2>2. ReaderTyped(obj, put)' /\ EndsReached(str)'
    BY <1>0, <2>1 DEF ReaderTyped, EndsReached
  <2>3. ShardsAccounted'
    <3>1. \A s \in Gone' : AtEof(s)'
      BY <1>0, <2>1 DEF ShardsAccounted, OfPending, Gone, AtEof
    <3>2. None \notin MainShard /\ shards \subseteq MainShard /\ readable_shards \subseteq MainShard
      BY <1>0 DEF ReaderTyped
    <3>3. None \notin OfPending
      BY <1>0 DEF OfPending, ReaderTyped, PendingMarker
    <3> QED BY <1>0, <2>1, <3>1, <3>2, <3>3 DEF ShardsAccounted, Running, OfPending
  <2>4. \A s \in Shard : HeldFrom(s)' <=> HeldFrom(s)
    BY <1>0, <2>1 DEF HeldFrom, Running, ShardsAccounted
  <2> QED BY <2>1, <2>2, <2>3, <2>4, QuietStep
<1>7. CASE ReadShort \/ \E p \in pending_markers : ProcessReject(p)
  <2>1. /\ Quiet /\ phase' = "failed" /\ phase # "failed"
        /\ phase \notin {"small", "small_data"}
        /\ UNCHANGED <<shards, readable_shards, picked>>
    BY <1>7 DEF ReadShort, ProcessReject, Fail
  <2>2. ReaderTyped(obj, put)' /\ EndsReached(str)'
    BY <1>0, <2>1 DEF ReaderTyped, EndsReached
  <2>3. ShardsAccounted'
    BY <1>0, <2>1 DEF ShardsAccounted, Running, OfPending, Gone, AtEof
  <2> QED BY <2>1, <2>2, <2>3, QuietStep
<1> QED BY <1>1, <1>2, <1>3, <1>4, <1>5, <1>6, <1>7

-----------------------------------------------------------------------------
\* The steps that take a slot or apply a chunk.

\* An error after a slot was taken from a shard that is not in the collections.
LEMMA FailAfterTake ==
  ASSUME NEW str, NEW obj, NEW put, Reading(str, obj, put), NEW s \in Shard, pipe[s] # << >>, Take(s), Fail,
         s = SmallShard \/ (s = picked /\ phase = "read"), phase # "failed"
  PROVE  Reading(str, obj, put)'
<1> USE ShardAssumption
<1>1. /\ ReaderTyped(obj, put) /\ Fifo(obj, put) /\ ShardsAccounted /\ FramingKept(obj, put) /\ EndsReached(str)
  BY DEF Reading
<1>2. /\ Fifo(obj, put)' /\ pipe' \in [Shard -> Seq(Slot)]
      /\ \A t \in Shard \ {s} : taken(put, t)' = taken(put, t) /\ pipe'[t] = pipe[t]
  BY <1>1, TakeFifo DEF Fail
<1>3. /\ ReaderTyped(obj, put)' /\ EndsReached(str)' /\ MarkersAccounted(obj, put)'
      /\ SoFar(str, obj)' /\ Behind(obj)'
  BY <1>1, <1>2 DEF Reading, SoFar, Behind, Fail, ReaderTyped, EndsReached, MarkersAccounted
<1>4. ShardsAccounted'
  <2>1. \A t \in Gone : t # s /\ t \in Shard
    BY DEF Gone, Shard
  <2>2. \A t \in Gone' : AtEof(t)'
    BY <1>1, <1>2, <2>1 DEF Fail, ShardsAccounted, Gone, OfPending, AtEof
  <2> QED BY <1>1, <2>2 DEF Fail, ShardsAccounted, OfPending, Running
<1>5. FramingKept(obj, put)'
  <2>1. \A p \in pending_markers : p.shard \in Shard /\ p.shard # s
    BY <1>1 DEF ReaderTyped, PendingMarker, Shard, ShardsAccounted, OfPending
  <2> QED BY <1>1, <1>2, <2>1 DEF Fail, FramingKept, HeldFrom, Running
<1> QED BY <1>2, <1>3, <1>4, <1>5 DEF Reading

\* The chunk that is due is applied: what becomes of the image and its ends.
LEMMA ChunkApplied ==
  ASSUME NEW str, NEW obj, NEW put, Reading(str, obj, put), NEW c \in Class, NEW s \in ShardsOf(c), NEW k \in 1..Len(obj[s]),
         NEW d \in Seq(Data),
         obj[s][k].kind = "marker", obj[s][k].seq = next_seq[c],
         CanApply(c, img, obj[s][k]),
         img' = Apply(c, img, obj[s][k], d),
         next_seq' = [next_seq EXCEPT ![c] = @ + 1],
         \/ c = "small" /\ phase \in {"small", "small_data"} /\ phase' = "small"
         \/ c = "main" /\ phase \in {"select", "data"} /\ phase' = "select"
  PROVE  img' \in Image /\ next_seq' \in [Class -> Nat] /\ Behind(obj)' /\ EndsReached(str)'
<1> USE ImageAssumption
<1> DEFINE m == obj[s][k]
<1>0. SoFar(str, obj)
  BY DEF Reading
<1>1. /\ m \in Marker /\ m.seq + 1 \in 1..Len(str[c])
      /\ m.body = "Filename" <=> m.file # None
      /\ m.file = MetadataFile =>
           c = "small" /\ EndsWithMetadata(str[c]) /\ m.seq = Len(str[c]) - 3
      /\ m.body = "ImageEof" =>
           c = "main" /\ EndsWithImageEof(str[c]) /\ m.seq = Len(str[c]) - 1
  BY <1>0, MarkerInStream
<1>2. /\ next_seq \in [Class -> Nat] /\ img \in Image /\ EndsReached(str) /\ Behind(obj)
  BY DEF Reading, ReaderTyped
<1>3. \A b \in Class : Len(str[b]) \in Nat
  BY <1>0 DEF SoFar
<1>4. img' \in Image
  <2> HIDE DEF m
  <2>1. Apply(c, img, m, d) \in Image
    BY <1>1, <1>2, ApplyType DEF m
  <2> QED BY <2>1 DEF m
<1>5. /\ next_seq' \in [Class -> Nat] /\ next_seq'[c] = m.seq + 1 /\ m.seq = next_seq[c]
      /\ \A b \in Class \ {c} : next_seq'[b] = next_seq[b]
  BY <1>2
<1>6. /\ m.body = "Filename" => /\ img'.current_img_file = m.file
                                /\ img'.metadata = img.metadata
                                /\ img'.image_eof = img.image_eof
      /\ m.body = "FileData" => /\ img'.current_img_file = img.current_img_file
                                /\ img'.metadata = img.metadata \/ IsMetadata(c, img)
                                /\ img'.image_eof = img.image_eof
      /\ m.body = "FileEof"  => /\ img'.current_img_file = None
                                /\ img'.metadata = img.metadata
                                /\ img'.image_eof = img.image_eof
      /\ m.body = "ImageEof" => /\ img'.current_img_file = img.current_img_file
                                /\ img'.metadata = img.metadata
                                /\ img'.image_eof = TRUE
      /\ m.body \in Body
  <2> HIDE DEF m
  <2>1. img' = Apply(c, img, m, d)
    BY DEF m
  <2>2. m \in Marker /\ img \in Image
    BY <1>1, <1>2
  <2>3. m.body \in Body
    BY <2>2 DEF Marker
  <2> DEFINE y == Apply(c, img, m, d)
  <2>4. /\ m.body = "Filename" => /\ y.current_img_file = m.file
                                  /\ y.metadata = img.metadata
                                  /\ y.image_eof = img.image_eof
        /\ m.body = "FileData" => /\ y.current_img_file = img.current_img_file
                                  /\ y.metadata = img.metadata \/ IsMetadata(c, img)
                                  /\ y.image_eof = img.image_eof
        /\ m.body = "FileEof"  => /\ y.current_img_file = None
                                  /\ y.metadata = img.metadata
                                  /\ y.image_eof = img.image_eof
        /\ m.body = "ImageEof" => /\ y.current_img_file = img.current_img_file
                                  /\ y.metadata = img.metadata
                                  /\ y.image_eof = TRUE
    BY <2>2, ApplyEnds
  <2> QED BY <2>1, <2>3, <2>4
<1>7. EndsReached(str)'
  <2> HIDE DEF m
  <2>0. "small" \in Class /\ "main" \in Class /\ m.seq \in Nat
    BY <1>1 DEF Class, Marker
  <2>1. img'.metadata # None => /\ EndsWithMetadata(str["small"])
                                /\ next_seq'["small"] >= Len(str["small"]) - 1
    <3>1. \/ img'.metadata = img.metadata
          \/ c = "small" /\ img.current_img_file = MetadataFile
      BY <1>1, <1>6 DEF Body, IsMetadata
    <3> QED BY <1>2, <1>3, <1>5, <2>0, <3>1 DEF EndsReached
  <2>2. img'.current_img_file = MetadataFile =>
          EndsWithMetadata(str["small"]) /\ next_seq'["small"] >= Len(str["small"]) - 2
    <3>1. \/ img'.current_img_file = img.current_img_file
          \/ img'.current_img_file = None
          \/ img'.current_img_file = m.file
      BY <1>1, <1>6 DEF Body
    <3> QED BY <1>1, <1>2, <1>3, <1>5, <2>0, <3>1 DEF EndsReached
  <2>3. img'.image_eof =>
          EndsWithImageEof(str["main"]) /\ next_seq'["main"] >= Len(str["main"])
    <3>1. \/ img'.image_eof = img.image_eof
          \/ m.body = "ImageEof"
      BY <1>1, <1>6 DEF Body
    <3>2. CASE m.body = "ImageEof"
      <4>1. c = "main" /\ EndsWithImageEof(str["main"]) /\ m.seq = Len(str["main"]) - 1
        BY <1>1, <3>2
      <4> QED BY <1>3, <1>5, <2>0, <4>1
    <3>3. next_seq'["main"] >= next_seq["main"] /\ next_seq["main"] \in Nat
          /\ next_seq'["main"] \in Nat /\ Len(str["main"]) \in Nat
      BY <1>2, <1>3, <1>5, <2>0
    <3>4. CASE img'.image_eof = img.image_eof
      <4>1. img.image_eof =>
              EndsWithImageEof(str["main"]) /\ next_seq["main"] >= Len(str["main"])
        BY <1>2 DEF EndsReached
      <4> QED BY <3>3, <3>4, <4>1
    <3> QED BY <3>1, <3>2, <3>4
  <2>4. \A b \in Class : next_seq'[b] <= Len(str[b])
    BY <1>1, <1>2, <1>3, <1>5, <2>0 DEF EndsReached
  <2>5. phase' = "small" => next_seq'["main"] = 0 /\ ~img'.image_eof
    <3>1. c = "small" => img'.image_eof = img.image_eof
      BY <1>1, <1>6 DEF Body
    <3> QED BY <1>2, <1>5, <2>0, <3>1 DEF EndsReached
  <2>6. phase' = "select" => img'.metadata # None
    <3>1. c = "main" => img'.metadata = img.metadata
      BY <1>1, <1>6 DEF Body, IsMetadata
    <3> QED BY <1>2, <3>1 DEF EndsReached
  <2> QED BY <2>1, <2>2, <2>3, <2>4, <2>5, <2>6 DEF EndsReached
<1>8. Behind(obj)'
  <2> SUFFICES ASSUME NEW b \in Class, NEW n \in 0..(next_seq'[b] - 1)
               PROVE  \E t \in ShardsOf(b) : \E i \in 1..Len(obj[t]) :
                        obj[t][i].kind = "marker" /\ obj[t][i].seq = n
    BY DEF Behind
  <2>1. CASE b = c /\ n = next_seq[c]
    BY <2>1
  <2>2. CASE ~(b = c /\ n = next_seq[c])
    <3>1. n \in 0..(next_seq[b] - 1)
      BY <1>2, <2>2
    <3> QED BY <1>2, <3>1 DEF Behind
  <2> QED BY <2>1, <2>2
<1> QED BY <1>4, <1>5, <1>7, <1>8

\* The chunk that is due is applied: no other marker changes sides.
LEMMA ChunkCounted ==
  ASSUME NEW str, NEW obj, NEW put, Reading(str, obj, put), NEW c \in Class, NEW s \in ShardsOf(c), NEW k \in 1..Len(obj[s]),
         obj[s][k].kind = "marker", obj[s][k].seq = next_seq[c],
         phase # "failed",
         next_seq' = [next_seq EXCEPT ![c] = @ + 1],
         pending_markers' = pending_markers \ {[marker |-> obj[s][k], shard |-> s]},
         \A t \in Shard \ {s} : taken(put, t)' = taken(put, t) /\ ~HeldFrom(t),
         HeldFrom(s) => taken(put, s) = k,
         s = SmallShard \/ taken(put, s) = k,
         k <= taken(put, s)',
         \A i \in 1..Len(obj[s]) :
           (i # k /\ obj[s][i].kind = "marker") => (i <= taken(put, s)' <=> i <= taken(put, s))
  PROVE  MarkersAccounted(obj, put)'
<1> DEFINE m == obj[s][k]
<1>0. SoFar(str, obj)
  BY DEF Reading
<1>1. next_seq \in [Class -> Nat] /\ m.seq \in Nat /\ s \in Shard
  <2>1. m \in Marker /\ s \in Shard
    BY <1>0, MarkerInStream
  <2> QED BY <2>1 DEF Reading, ReaderTyped, Marker
<1>2. /\ next_seq'[c] = m.seq + 1
      /\ \A b \in Class \ {c} : next_seq'[b] = next_seq[b]
  BY <1>1
<1> SUFFICES ASSUME NEW b \in Class, NEW t \in ShardsOf(b), NEW i \in 1..Len(obj[t]),
                    obj[t][i].kind = "marker"
             PROVE  IF i <= taken(put, t)'
                    THEN \/ obj[t][i].seq < next_seq'[b]
                         \/ i = taken(put, t)' /\ t # SmallShard
                             /\ [marker |-> obj[t][i], shard |-> t] \in pending_markers'
                    ELSE obj[t][i].seq >= next_seq'[b]
  BY DEF MarkersAccounted
<1>3. obj[t][i].seq \in Nat /\ t \in Shard
  <2>1. obj[t][i] \in Marker /\ t \in Shard
    BY <1>0, MarkerInStream
  <2> QED BY <2>1 DEF Marker
<1>4. IF i <= taken(put, t)
      THEN \/ obj[t][i].seq < next_seq[b]
           \/ i = taken(put, t) /\ t # SmallShard
               /\ [marker |-> obj[t][i], shard |-> t] \in pending_markers
           \/ i = taken(put, t) /\ HeldFrom(t) /\ obj[t][i] = held
      ELSE obj[t][i].seq >= next_seq[b]
  BY DEF Reading, MarkersAccounted
<1>5. t = s => b = c
  BY ShardAssumption DEF ShardsOf, Class
<1>6. CASE t = s /\ i = k
  BY <1>1, <1>2, <1>5, <1>6
<1>7. CASE t = s /\ i # k
  <2>1. obj[t][i].seq # m.seq
    BY <1>0, <1>5, <1>7, DistinctNumbers
  <2>2. i <= taken(put, t) => obj[t][i].seq < next_seq[b]
    BY <1>4, <1>7
  <2> QED BY <1>1, <1>2, <1>3, <1>4, <1>5, <1>7, <2>1, <2>2
<1>8. CASE t # s
  <2>1. b = c => obj[t][i].seq # m.seq
    BY <1>0, <1>8, DistinctNumbers
  <2>2. taken(put, t)' = taken(put, t) /\ ~HeldFrom(t)
    BY <1>3, <1>8
  <2>3. [marker |-> obj[t][i], shard |-> t] # [marker |-> m, shard |-> s]
    BY <1>8
  <2> QED BY <1>1, <1>2, <1>3, <1>4, <2>1, <2>2, <2>3
<1> QED BY <1>6, <1>7, <1>8

\* A marker is set aside until its turn or its payload comes.
LEMMA MarkerSetAside ==
  ASSUME NEW str, NEW obj, NEW put, Reading(str, obj, put), NEW c \in Class, NEW s \in ShardsOf(c), NEW k \in 1..Len(obj[s]),
         obj[s][k].kind = "marker", phase # "failed",
         next_seq' = next_seq, k = taken(put, s)', taken(put, s) \in {k - 1, k},
         \A t \in Shard \ {s} : taken(put, t)' = taken(put, t),
         \A t \in Shard : ~HeldFrom(t),
         taken(put, s) = k - 1 => s \notin OfPending,
         pending_markers \ {[marker |-> obj[s][k], shard |-> s]} \subseteq pending_markers',
         \/ s # SmallShard /\ [marker |-> obj[s][k], shard |-> s] \in pending_markers'
         \/ HeldFrom(s)' /\ held' = obj[s][k]
  PROVE  MarkersAccounted(obj, put)'
<1>1. s \in Shard
  BY DEF ShardsOf, Shard
<1> SUFFICES ASSUME NEW b \in Class, NEW t \in ShardsOf(b), NEW i \in 1..Len(obj[t]),
                    obj[t][i].kind = "marker"
             PROVE  IF i <= taken(put, t)'
                    THEN \/ obj[t][i].seq < next_seq'[b]
                         \/ i = taken(put, t)' /\ t # SmallShard
                             /\ [marker |-> obj[t][i], shard |-> t] \in pending_markers'
                         \/ i = taken(put, t)' /\ HeldFrom(t)' /\ obj[t][i] = held'
                    ELSE obj[t][i].seq >= next_seq'[b]
  BY DEF MarkersAccounted
<1>2. t \in Shard
  BY DEF ShardsOf, Shard
<1>3. IF i <= taken(put, t)
      THEN \/ obj[t][i].seq < next_seq[b]
           \/ i = taken(put, t) /\ t # SmallShard
               /\ [marker |-> obj[t][i], shard |-> t] \in pending_markers
      ELSE obj[t][i].seq >= next_seq[b]
  BY <1>2 DEF Reading, MarkersAccounted
<1>4. CASE t = s
  <2>1. i = taken(put, s) /\ taken(put, s) = k - 1 =>
          [marker |-> obj[t][i], shard |-> t] \notin pending_markers
    BY <1>4 DEF OfPending
  <2> QED BY <1>3, <1>4, <2>1
<1>5. CASE t # s
  BY <1>2, <1>3, <1>5
<1> QED BY <1>4, <1>5

-----------------------------------------------------------------------------
\* The steps of the small file shard.
LEMMA SmallControlStep ==
  ASSUME NEW str, NEW obj, NEW put, Reading(str, obj, put), SmallControl
  PROVE  Reading(str, obj, put)'
<1> USE ShardAssumption
<1> DEFINE s == SmallShard
           k == taken(put, s) + 1
           m == obj[s][k]
<1>1. /\ ReaderTyped(obj, put) /\ Fifo(obj, put) /\ ShardsAccounted /\ FramingKept(obj, put)
      /\ ending' = ending
      /\ s \in Shard /\ s \in ShardsOf("small") /\ "small" \in Class /\ s \notin MainShard
  BY DEF Reading, SmallControl, Shard, ShardsOf, Class
<1>2. /\ pipe[s] # << >> /\ Take(s) /\ Head(pipe[s]) = m /\ k \in 1..Len(obj[s])
      /\ taken(put, s) \in Nat
  <2>1. pipe[s] # << >> /\ Take(s)
    BY DEF SmallControl
  <2>2. /\ taken(put, s) \in 0..(Len(obj[s]) - 1)
        /\ Head(pipe[s]) = m
    BY <1>1, <2>1, NextSlot
  <2>3. Len(obj[s]) \in Nat
    BY <1>1, TakenType
  <2> QED BY <2>1, <2>2, <2>3
<1>3. /\ m.kind = "marker" /\ m.seq = next_seq["small"] /\ CanApply("small", img, m)
      /\ ~HasPayload(m) /\ img' = Apply("small", img, m, << >>)
      /\ phase = "small" /\ phase' = "small"
      /\ next_seq' = [next_seq EXCEPT !["small"] = @ + 1]
      /\ UNCHANGED <<shards, readable_shards, pending_markers, picked, held>>
  BY <1>2 DEF SmallControl, SmallMarkerOk, Advance
<1>4. << >> \in Seq(Data)
  OBVIOUS
<1>5. /\ Fifo(obj, put)' /\ pipe' \in [Shard -> Seq(Slot)] /\ taken(put, s)' = k
      /\ \A t \in Shard \ {s} : taken(put, t)' = taken(put, t) /\ pipe'[t] = pipe[t]
  BY <1>1, <1>2, TakeFifo DEF SmallControl
<1>6. img' \in Image /\ next_seq' \in [Class -> Nat] /\ Behind(obj)' /\ EndsReached(str)'
  BY <1>1, <1>2, <1>3, <1>4, ChunkApplied
<1>7. \A t \in Shard : ~HeldFrom(t) /\ ~HeldFrom(t)'
  BY <1>3 DEF HeldFrom
<1>8. \A p \in pending_markers : p.shard \in Shard \ {s}
  BY <1>1 DEF ReaderTyped, PendingMarker, Shard
<1>9. MarkersAccounted(obj, put)'
  <2>1. pending_markers' = pending_markers \ {[marker |-> m, shard |-> s]}
    BY <1>3, <1>8
  <2>2. \A i \in 1..Len(obj[s]) :
          (i # k /\ obj[s][i].kind = "marker") => (i <= taken(put, s)' <=> i <= taken(put, s))
    BY <1>2, <1>5
  <2>3. k <= taken(put, s)' /\ m = obj[s][k]
    BY <1>2, <1>5
  <2> HIDE DEF m, k
  <2> QED BY <1>1, <1>2, <1>3, <1>5, <1>7, <2>1, <2>2, <2>3, ChunkCounted
<1>10. ReaderTyped(obj, put)'
  BY <1>1, <1>3, <1>5, <1>6 DEF ReaderTyped
<1>11. ShardsAccounted'
  <2>1. \A t \in Gone' : t \in Gone /\ t \in Shard \ {s}
    BY <1>3 DEF Gone, OfPending, Shard
  <2>2. \A t \in Gone' : AtEof(t)'
    BY <1>1, <1>5, <2>1 DEF ShardsAccounted, AtEof
  <2> QED BY <1>1, <1>3, <2>2 DEF ShardsAccounted, OfPending, Running
<1>12. FramingKept(obj, put)'
  <2>1. next_seq'["main"] = next_seq["main"]
    BY <1>1, <1>3 DEF ReaderTyped, Class
  <2> QED BY <1>1, <1>3, <1>5, <1>7, <1>8, <2>1 DEF FramingKept, OfPending
<1> QED BY <1>1, <1>5, <1>6, <1>9, <1>10, <1>11, <1>12 DEF Reading, SoFar

LEMMA SmallDataMarkerStep ==
  ASSUME NEW str, NEW obj, NEW put, Reading(str, obj, put), SmallDataMarker
  PROVE  Reading(str, obj, put)'
<1> USE ShardAssumption
<1> DEFINE s == SmallShard
           k == taken(put, s) + 1
           m == obj[s][k]
<1>1. /\ ReaderTyped(obj, put) /\ Fifo(obj, put) /\ ShardsAccounted /\ FramingKept(obj, put) /\ EndsReached(str)
      /\ ending' = ending
      /\ s \in Shard /\ s \in ShardsOf("small") /\ "small" \in Class /\ s \notin MainShard
  BY DEF Reading, SmallDataMarker, Shard, ShardsOf, Class
<1>2. /\ pipe[s] # << >> /\ Take(s) /\ Head(pipe[s]) = m /\ k \in 1..Len(obj[s])
      /\ taken(put, s) \in Nat
  <2>1. pipe[s] # << >> /\ Take(s)
    BY DEF SmallDataMarker
  <2>2. /\ taken(put, s) \in 0..(Len(obj[s]) - 1)
        /\ Head(pipe[s]) = m
    BY <1>1, <2>1, NextSlot
  <2>3. Len(obj[s]) \in Nat
    BY <1>1, TakenType
  <2> QED BY <2>1, <2>2, <2>3
<1>3. /\ m.kind = "marker" /\ m.seq = next_seq["small"] /\ CanApply("small", img, m)
      /\ HasPayload(m) /\ held' = m
      /\ phase = "small" /\ phase' = "small_data"
      /\ UNCHANGED <<shards, readable_shards, pending_markers, picked, next_seq, img>>
  BY <1>2 DEF SmallDataMarker, SmallMarkerOk
<1>4. m \in Marker
  <2>1. SoFar(str, obj)
    BY DEF Reading
  <2> QED BY <1>1, <1>2, <1>3, <2>1, MarkerInStream
<1>5. /\ Fifo(obj, put)' /\ pipe' \in [Shard -> Seq(Slot)] /\ taken(put, s)' = k
      /\ \A t \in Shard \ {s} : taken(put, t)' = taken(put, t) /\ pipe'[t] = pipe[t]
  BY <1>1, <1>2, TakeFifo DEF SmallDataMarker
<1>6. m # None
  BY <1>4, NoneAssumption
<1>7. /\ \A t \in Shard : ~HeldFrom(t)
      /\ \A t \in Shard : HeldFrom(t)' <=> t = s
  BY <1>1, <1>3, <1>6 DEF HeldFrom, Running
<1>8. \A p \in pending_markers : p.shard \in Shard \ {s}
  BY <1>1 DEF ReaderTyped, PendingMarker, Shard
<1>9. MarkersAccounted(obj, put)'
  <2>1. /\ k = taken(put, s)' /\ taken(put, s) \in {k - 1, k} /\ m = obj[s][k]
        /\ s \notin OfPending /\ HeldFrom(s)' /\ phase # "failed"
    BY <1>1, <1>2, <1>3, <1>5, <1>7, <1>8 DEF OfPending
  <2> HIDE DEF m, k
  <2> QED BY <1>1, <1>2, <1>3, <1>5, <1>7, <2>1, MarkerSetAside
<1>10. ReaderTyped(obj, put)' /\ EndsReached(str)' /\ Behind(obj)'
  BY <1>1, <1>3, <1>4, <1>5 DEF ReaderTyped, EndsReached, Behind, Reading
<1>11. ShardsAccounted'
  <2>1. \A t \in Gone' : t \in Gone /\ t \in Shard \ {s}
    BY <1>3 DEF Gone, OfPending, Shard
  <2>2. \A t \in Gone' : AtEof(t)'
    BY <1>1, <1>5, <2>1 DEF ShardsAccounted, AtEof
  <2> QED BY <1>1, <1>3, <1>6, <2>2 DEF ShardsAccounted, OfPending, Running
<1>12. FramingKept(obj, put)'
  <2>1. img.current_img_file # None
    BY <1>3 DEF CanApply, HasPayload
  <2>2. /\ HeldFrom(s)' /\ taken(put, s)' = k /\ k > 0 /\ k \in Nat /\ m = obj[s][k]
        /\ m.seq = next_seq["small"] /\ HasPayload(m) /\ held' = m
    BY <1>1, <1>2, <1>3, <1>5, <1>7
  <2> HIDE DEF m, k
  <2>3. \A t \in Shard :
          HeldFrom(t)' => /\ HasPayload(held')
                          /\ img'.current_img_file # None
                          /\ taken(put, t)' > 0 /\ held' = obj[t][taken(put, t)']
                          /\ held'.seq = next_seq'[IF t = SmallShard THEN "small" ELSE "main"]
    BY <1>1, <1>3, <1>7, <2>1, <2>2
  <2>4. \A p \in pending_markers' :
          /\ taken(put, p.shard)' > 0 /\ p.marker = obj[p.shard][taken(put, p.shard)']
          /\ p.marker.seq >= next_seq'["main"]
    BY <1>1, <1>3, <1>5, <1>8 DEF FramingKept
  <2>5. \A t \in Shard \ OfPending' :
          (~HeldFrom(t)' /\ taken(put, t)' > 0) =>
            ~(obj[t][taken(put, t)'].kind = "marker" /\ HasPayload(obj[t][taken(put, t)']))
    BY <1>1, <1>3, <1>5, <1>7 DEF FramingKept, OfPending
  <2> QED BY <2>3, <2>4, <2>5 DEF FramingKept
<1> QED BY <1>1, <1>5, <1>9, <1>10, <1>11, <1>12 DEF Reading, SoFar

\* The payload behind the marker that is held, and the slot that follows it.
LEMMA HeldPayload ==
  ASSUME NEW str, NEW obj, NEW put, Reading(str, obj, put), NEW c \in Class, NEW s \in ShardsOf(c), HeldFrom(s), pipe[s] # << >>
  PROVE  /\ taken(put, s) \in 1..Len(obj[s]) /\ held = obj[s][taken(put, s)]
         /\ held \in Marker /\ HasPayload(held) /\ held.seq = next_seq[c]
         /\ Head(pipe[s]) = obj[s][taken(put, s) + 1]
         /\ obj[s][taken(put, s) + 1].kind = "payload"
         /\ Head(pipe[s]).data \in Seq(Data)
         /\ CanApply(c, img, held)
<1>1. /\ ReaderTyped(obj, put) /\ Fifo(obj, put) /\ FramingKept(obj, put) /\ s \in Shard
      /\ (c = "small" <=> s = SmallShard) /\ (c = "main" <=> s # SmallShard)
  BY ShardAssumption DEF Reading, ShardsOf, Shard, Class
<1>2. /\ HasPayload(held) /\ taken(put, s) > 0 /\ held = obj[s][taken(put, s)]
      /\ held.seq = next_seq[c] /\ img.current_img_file # None
  BY <1>1 DEF FramingKept
<1>3. taken(put, s) \in 0..(Len(obj[s]) - 1) /\ Head(pipe[s]) = obj[s][taken(put, s) + 1]
  BY <1>1, NextSlot
<1>4. held \in Marker
  BY <1>1 DEF ReaderTyped, HeldFrom
<1>5. taken(put, s) \in 1..Len(obj[s])
  BY <1>1, <1>2, <1>3 DEF ReaderTyped
<1>6. obj[s][taken(put, s)].kind = "marker"
  BY <1>2, <1>4 DEF Marker
<1>7. /\ obj[s][taken(put, s) + 1] = MakePayload(str[c][held.seq + 1].data)
      /\ str[c][held.seq + 1].data \in Seq(Data)
  <2>1. SoFar(str, obj) /\ taken(put, s) # Len(obj[s])
    BY <1>1, <1>3 DEF Reading, ReaderTyped
  <2> QED BY <1>2, <1>5, <1>6, <2>1, MarkerInStream
<1> QED BY <1>2, <1>3, <1>4, <1>5, <1>7 DEF MakePayload, CanApply, HasPayload

LEMMA SmallDataStep ==
  ASSUME NEW str, NEW obj, NEW put, Reading(str, obj, put), SmallData
  PROVE  Reading(str, obj, put)'
<1> USE ShardAssumption
<1> DEFINE s == SmallShard
           k == taken(put, s)
           d == Head(pipe[s]).data
<1>1. /\ ReaderTyped(obj, put) /\ Fifo(obj, put) /\ ShardsAccounted /\ FramingKept(obj, put)
      /\ ending' = ending
      /\ s \in Shard /\ s \in ShardsOf("small") /\ "small" \in Class /\ s \notin MainShard
  BY DEF Reading, SmallData, Shard, ShardsOf, Class
<1>2. /\ pipe[s] # << >> /\ Take(s)
      /\ img' = Apply("small", img, held, d)
      /\ phase = "small_data" /\ phase' = "small" /\ held' = None
      /\ next_seq' = [next_seq EXCEPT !["small"] = @ + 1]
      /\ UNCHANGED <<shards, readable_shards, pending_markers, picked>>
  BY DEF SmallData, HasSlot, Advance
<1>3. /\ \A t \in Shard : HeldFrom(t) <=> t = s
      /\ \A t \in Shard : ~HeldFrom(t)'
  BY <1>1, <1>2 DEF HeldFrom, Running, ShardsAccounted
<1>4. /\ k \in 1..Len(obj[s]) /\ held = obj[s][k] /\ k \in Nat
      /\ held \in Marker /\ held.kind = "marker" /\ held.seq = next_seq["small"]
      /\ obj[s][k + 1].kind = "payload" /\ d \in Seq(Data) /\ CanApply("small", img, held)
  BY <1>1, <1>2, <1>3, HeldPayload DEF Marker, ReaderTyped
<1>5. /\ Fifo(obj, put)' /\ pipe' \in [Shard -> Seq(Slot)] /\ taken(put, s)' = k + 1
      /\ \A t \in Shard \ {s} : taken(put, t)' = taken(put, t) /\ pipe'[t] = pipe[t]
  BY <1>1, <1>2, TakeFifo DEF SmallData
<1>6. img' \in Image /\ next_seq' \in [Class -> Nat] /\ Behind(obj)' /\ EndsReached(str)'
  <2> HIDE DEF d, k
  <2> QED BY <1>1, <1>2, <1>4, ChunkApplied
<1>7. \A p \in pending_markers : p.shard \in Shard \ {s}
  BY <1>1 DEF ReaderTyped, PendingMarker, Shard
<1>8. MarkersAccounted(obj, put)'
  <2>1. pending_markers' = pending_markers \ {[marker |-> obj[s][k], shard |-> s]}
    BY <1>2, <1>7
  <2>2. \A i \in 1..Len(obj[s]) :
          (i # k /\ obj[s][i].kind = "marker") => (i <= taken(put, s)' <=> i <= taken(put, s))
    BY <1>4, <1>5
  <2>3. k <= taken(put, s)' /\ taken(put, s) = k /\ phase # "failed"
    BY <1>2, <1>4, <1>5
  <2> HIDE DEF d, k
  <2> QED BY <1>1, <1>2, <1>3, <1>4, <1>5, <2>1, <2>2, <2>3, ChunkCounted
<1>9. ReaderTyped(obj, put)'
  BY <1>1, <1>2, <1>5, <1>6 DEF ReaderTyped
<1>10. ShardsAccounted'
  <2>1. \A t \in Gone' : t \in Gone /\ t \in Shard \ {s}
    BY <1>2 DEF Gone, OfPending, Shard
  <2>2. \A t \in Gone' : AtEof(t)'
    BY <1>1, <1>5, <2>1 DEF ShardsAccounted, AtEof
  <2> QED BY <1>1, <1>2, <2>2 DEF ShardsAccounted, OfPending, Running
<1>11. FramingKept(obj, put)'
  <2>1. next_seq'["main"] = next_seq["main"]
    BY <1>1, <1>2 DEF ReaderTyped, Class
  <2>2. obj[s][taken(put, s)'].kind # "marker"
    BY <1>1, <1>4, <1>5
  <2> HIDE DEF d, k
  <2> QED BY <1>1, <1>2, <1>3, <1>5, <1>7, <2>1, <2>2 DEF FramingKept, OfPending
<1> QED BY <1>1, <1>5, <1>6, <1>8, <1>9, <1>10, <1>11 DEF Reading, SoFar

-----------------------------------------------------------------------------
\* The steps of the main shards.
LEMMA ReadMarkerStep ==
  ASSUME NEW str, NEW obj, NEW put, Reading(str, obj, put), ReadMarker
  PROVE  Reading(str, obj, put)'
<1> USE ShardAssumption
<1>0. PICK s : s = picked
  OBVIOUS
<1> DEFINE k == taken(put, s) + 1
           m == obj[s][k]
           p == [marker |-> m, shard |-> s]
<1>1. /\ ReaderTyped(obj, put) /\ Fifo(obj, put) /\ ShardsAccounted /\ MarkersAccounted(obj, put) /\ FramingKept(obj, put) /\ EndsReached(str)
      /\ phase = "read" /\ pipe[s] # << >> /\ Take(s)
  BY <1>0 DEF Reading, ReadMarker
<1>2. /\ s \in MainShard /\ s # None /\ s # SmallShard /\ s \in Shard
      /\ s \in ShardsOf("main") /\ "main" \in Class
      /\ s \notin OfPending /\ s \notin shards \cup readable_shards
  BY <1>0, <1>1 DEF ShardsAccounted, Running, ReaderTyped, Shard, ShardsOf, Class
<1>3. CASE Fail
  BY <1>0, <1>1, <1>2, <1>3, FailAfterTake
<1>4. CASE ~Fail
  <2>1. /\ Head(pipe[s]) = m /\ k \in 1..Len(obj[s]) /\ taken(put, s) \in Nat
    <3>1. /\ taken(put, s) \in 0..(Len(obj[s]) - 1)
          /\ Head(pipe[s]) = m
      BY <1>1, <1>2, NextSlot
    <3>2. Len(obj[s]) \in Nat
      BY <1>1, <1>2, TakenType
    <3> QED BY <3>1, <3>2
  <2>2. /\ m.kind = "marker" /\ pending_markers' = pending_markers \cup {p}
        /\ picked' = None /\ phase' = "select"
        /\ UNCHANGED <<ending, shards, readable_shards, held, next_seq, img>>
    BY <1>0, <1>1, <1>4, <2>1 DEF ReadMarker, HasSlot
  <2>3. m \in Marker /\ p \in PendingMarker
    <3>1. SoFar(str, obj)
      BY DEF Reading
    <3>2. m \in Marker
      BY <1>2, <2>1, <2>2, <3>1, MarkerInStream
    <3> QED BY <1>2, <3>2 DEF PendingMarker
  <2>4. /\ Fifo(obj, put)' /\ pipe' \in [Shard -> Seq(Slot)] /\ taken(put, s)' = k
        /\ \A t \in Shard \ {s} : taken(put, t)' = taken(put, t) /\ pipe'[t] = pipe[t]
    BY <1>1, <1>2, <2>2, TakeFifo
  <2>5. \A t \in Shard : ~HeldFrom(t) /\ ~HeldFrom(t)'
    BY <1>1, <2>2 DEF HeldFrom
  <2>6. \A q \in pending_markers : q.shard \in Shard \ {s}
    BY <1>1, <1>2 DEF ReaderTyped, PendingMarker, Shard, OfPending
  <2>7. OfPending' = OfPending \cup {s}
    <3>1. p.shard = s
      OBVIOUS
    <3> HIDE DEF p
    <3> QED BY <2>2, <3>1 DEF OfPending
  <2>8. MarkersAccounted(obj, put)'
    <3>1. k = taken(put, s)' /\ taken(put, s) \in {k - 1, k} /\ m = obj[s][k]
      BY <2>1, <2>4
    <3>2. /\ p = [marker |-> m, shard |-> s] /\ p \in pending_markers'
          /\ pending_markers \ {p} \subseteq pending_markers'
          /\ phase # "failed" /\ next_seq' = next_seq
      BY <1>1, <2>2
    <3> HIDE DEF m, k, p
    <3> QED BY <1>1, <1>2, <2>1, <2>2, <2>4, <2>5, <3>1, <3>2, MarkerSetAside
  <2>9. ReaderTyped(obj, put)' /\ EndsReached(str)' /\ Behind(obj)'
    BY <1>1, <2>2, <2>3, <2>4 DEF ReaderTyped, EndsReached, Behind, Reading
  <2>10. ShardsAccounted'
    <3>1. Gone' \subseteq Gone /\ s \notin Gone'
      BY <1>0, <2>2, <2>7 DEF Gone
    <3>2. \A t \in Gone' : AtEof(t)'
      BY <1>1, <2>2, <2>4, <3>1 DEF ShardsAccounted, AtEof, Gone, Shard
    <3>3. \A q, r \in pending_markers' : q.shard = r.shard => q = r
      BY <1>1, <2>2, <2>6 DEF ShardsAccounted
    <3>4. None \notin OfPending'
      BY <1>2, <2>6, <2>7 DEF OfPending, Shard
    <3> HIDE DEF m, k, p
    <3> QED BY <1>1, <1>2, <2>2, <2>7, <3>2, <3>3, <3>4 DEF ShardsAccounted, Running, ReaderTyped
  <2>11. FramingKept(obj, put)'
    <3>1. m.seq >= next_seq["main"]
      <4>1. ~(k <= taken(put, s)) /\ phase # "failed" /\ m = obj[s][k]
        BY <1>1, <2>1
      <4> HIDE DEF m, k
      <4> QED BY <1>1, <1>2, <2>1, <2>2, <4>1 DEF MarkersAccounted
    <3>2. p.marker = m /\ p.shard = s /\ taken(put, s)' = k /\ k > 0 /\ m = obj[s][k]
      BY <2>1, <2>4
    <3> HIDE DEF m, k, p
    <3>3. \A q \in pending_markers' :
            /\ taken(put, q.shard)' > 0 /\ q.marker = obj[q.shard][taken(put, q.shard)']
            /\ q.marker.seq >= next_seq'["main"]
      BY <1>1, <2>2, <2>4, <2>6, <3>1, <3>2 DEF FramingKept
    <3>4. \A t \in Shard \ OfPending' :
            (~HeldFrom(t)' /\ taken(put, t)' > 0) =>
              ~(obj[t][taken(put, t)'].kind = "marker" /\ HasPayload(obj[t][taken(put, t)']))
      BY <1>1, <2>2, <2>4, <2>5, <2>7 DEF FramingKept
    <3> QED BY <2>5, <3>3, <3>4 DEF FramingKept
  <2> QED BY <1>1, <2>4, <2>8, <2>9, <2>10, <2>11 DEF Reading, SoFar
<1> QED BY <1>3, <1>4

\* A marker whose turn has come, and the place in its shard.
LEMMA DueMarker ==
  ASSUME NEW str, NEW obj, NEW put, Reading(str, obj, put), NEW p \in pending_markers, p \in InOrder, phase = "select"
  PROVE  LET s == p.shard
             k == taken(put, s)
         IN  /\ s \in MainShard /\ s \in ShardsOf("main") /\ s # SmallShard
             /\ s # None /\ s \in Shard
             /\ k \in Nat /\ k \in 1..Len(obj[s]) /\ p.marker = obj[s][k]
             /\ p.marker \in Marker /\ p.marker.kind = "marker"
             /\ p.marker.seq = next_seq["main"]
             /\ p = [marker |-> obj[s][k], shard |-> s]
             /\ picked = None /\ held = None
             /\ s \notin shards \cup readable_shards
             /\ \A q \in pending_markers \ {p} : q.shard # s
             /\ \A t \in Shard : ~HeldFrom(t)
<1>1. ReaderTyped(obj, put) /\ Fifo(obj, put) /\ ShardsAccounted /\ FramingKept(obj, put)
  BY DEF Reading
<1> DEFINE s == p.shard
           k == taken(put, s)
<1>2. /\ p \in PendingMarker /\ s \in MainShard /\ p.marker \in Marker
      /\ p = [marker |-> p.marker, shard |-> s]
  BY <1>1 DEF ReaderTyped, PendingMarker
<1>3. s \in ShardsOf("main") /\ s # SmallShard /\ s # None /\ s \in Shard
  BY <1>2, ShardAssumption DEF ShardsOf, Shard
<1>4. k > 0 /\ p.marker = obj[s][k]
  BY <1>1 DEF FramingKept
<1>5. put[s] \in Nat /\ Len(pipe[s]) \in Nat /\ put[s] <= Len(obj[s])
      /\ Len(obj[s]) \in Nat
  BY <1>1, <1>3 DEF ReaderTyped, Fifo
<1>6. k \in Nat /\ k \in 1..Len(obj[s])
  BY <1>4, <1>5 DEF taken
<1>7. picked = None /\ held = None
  BY <1>1 DEF ShardsAccounted, Running
<1>8. s \notin shards \cup readable_shards
  BY <1>1 DEF ShardsAccounted, OfPending
<1>9. \A q \in pending_markers \ {p} : q.shard # s
  BY <1>1 DEF ShardsAccounted
<1>10. p.marker.seq = next_seq["main"]
  BY DEF InOrder
<1>11. p.marker.kind = "marker"
  BY <1>2 DEF Marker
<1>12. \A t \in Shard : ~HeldFrom(t)
  BY DEF HeldFrom
<1> HIDE DEF s, k
<1> QED BY <1>2, <1>3, <1>4, <1>6, <1>7, <1>8, <1>9, <1>10, <1>11, <1>12 DEF s, k

LEMMA ProcessControlStep ==
  ASSUME NEW str, NEW obj, NEW put, Reading(str, obj, put), NEW p \in pending_markers, ProcessControl(p)
  PROVE  Reading(str, obj, put)'
<1> DEFINE s == p.shard
           k == taken(put, s)
           m == p.marker
<1>1. /\ ReaderTyped(obj, put) /\ Fifo(obj, put) /\ ShardsAccounted /\ FramingKept(obj, put)
      /\ UNCHANGED <<pipe, ending>>
  BY DEF Reading, ProcessControl
<1>2. /\ phase = "select" /\ phase' = "select" /\ p \in InOrder
      /\ CanApply("main", img, m) /\ ~HasPayload(m)
      /\ pending_markers' = pending_markers \ {p} /\ shards' = shards \cup {s}
      /\ img' = Apply("main", img, m, << >>)
      /\ next_seq' = [next_seq EXCEPT !["main"] = @ + 1]
      /\ UNCHANGED <<readable_shards, picked, held>>
  BY DEF ProcessControl, MarkerOk, Advance
<1>3. /\ s \in MainShard /\ s \in ShardsOf("main") /\ s # None /\ s \in Shard
      /\ k \in Nat /\ k \in 1..Len(obj[s]) /\ m = obj[s][k]
      /\ m.kind = "marker" /\ m.seq = next_seq["main"]
      /\ p = [marker |-> obj[s][k], shard |-> s]
      /\ picked = None /\ held = None /\ s \notin shards \cup readable_shards
      /\ \A q \in pending_markers \ {p} : q.shard # s
      /\ \A t \in Shard : ~HeldFrom(t)
  BY <1>2, DueMarker
<1>4. Fifo(obj, put)' /\ \A t \in Shard : taken(put, t)' = taken(put, t) /\ (AtEof(t)' <=> AtEof(t))
  BY <1>1, StandStill
<1>5. "main" \in Class /\ << >> \in Seq(Data)
  BY DEF Class
<1>6. \A t \in Shard : ~HeldFrom(t)'
  BY <1>2 DEF HeldFrom
<1> HIDE DEF s, k, m
<1>7. img' \in Image /\ next_seq' \in [Class -> Nat] /\ Behind(obj)' /\ EndsReached(str)'
  BY <1>1, <1>2, <1>3, <1>5, ChunkApplied
<1>8. MarkersAccounted(obj, put)'
  <2>1. k <= taken(put, s)' /\ taken(put, s) = k /\ phase # "failed"
    BY <1>2, <1>3, <1>4 DEF k
  <2>2. \A i \in 1..Len(obj[s]) : i <= taken(put, s)' <=> i <= taken(put, s)
    BY <1>3, <1>4
  <2> QED BY <1>1, <1>2, <1>3, <1>4, <1>5, <2>1, <2>2, ChunkCounted
<1>9. ReaderTyped(obj, put)'
  BY <1>1, <1>2, <1>3, <1>7 DEF ReaderTyped
<1>10. OfPending' = OfPending \ {s}
  BY <1>2, <1>3 DEF OfPending, s
<1>11. ShardsAccounted'
  <2>1. Gone' = Gone
    BY <1>2, <1>3, <1>10 DEF Gone, OfPending, s
  <2>2. \A t \in Gone' : AtEof(t)'
    BY <1>1, <1>4, <2>1 DEF ShardsAccounted, Gone, Shard
  <2>3. (shards' \cup readable_shards') \cap (OfPending' \cup {picked'}) = {}
    BY <1>1, <1>2, <1>3, <1>10 DEF ShardsAccounted
  <2>4. picked' \notin OfPending'
    BY <1>1, <1>2, <1>10 DEF ShardsAccounted
  <2> QED BY <1>1, <1>2, <1>3, <2>2, <2>3, <2>4 DEF ShardsAccounted, Running
<1>12. FramingKept(obj, put)'
  <2>1. \A q \in pending_markers' :
          /\ taken(put, q.shard)' > 0 /\ q.marker = obj[q.shard][taken(put, q.shard)']
          /\ q.marker.seq >= next_seq'["main"]
    <3> SUFFICES ASSUME NEW q \in pending_markers \ {p}
                 PROVE  /\ taken(put, q.shard) > 0 /\ q.marker = obj[q.shard][taken(put, q.shard)]
                        /\ q.marker.seq >= next_seq'["main"] /\ q.shard \in Shard
      BY <1>1, <1>2, <1>4
    <3>1. /\ taken(put, q.shard) > 0 /\ q.marker = obj[q.shard][taken(put, q.shard)]
          /\ q.marker.seq >= next_seq["main"]
      BY <1>1 DEF FramingKept
    <3>2. q.shard \in MainShard /\ q.shard \in ShardsOf("main") /\ q.shard # s
          /\ q.marker \in Marker /\ q.shard \in Shard
      BY <1>1, <1>3 DEF ReaderTyped, PendingMarker, ShardsOf, Shard
    <3>3. taken(put, q.shard) \in 1..Len(obj[q.shard])
      BY <1>1, <3>1, <3>2 DEF ReaderTyped, Fifo, taken
    <3>4. q.marker.seq # m.seq
      <4>1. q.marker.kind = "marker" /\ SoFar(str, obj)
        BY <3>2 DEF Marker, Reading
      <4> QED BY <1>3, <1>5, <3>1, <3>2, <3>3, <4>1, DistinctNumbers
    <3>5. q.marker.seq \in Nat /\ next_seq["main"] \in Nat
          /\ next_seq'["main"] = next_seq["main"] + 1
      BY <1>1, <1>2, <1>5, <3>2 DEF ReaderTyped, Marker
    <3> QED BY <1>3, <3>1, <3>2, <3>4, <3>5
  <2>2. \A t \in Shard \ OfPending' :
          (~HeldFrom(t)' /\ taken(put, t)' > 0) =>
            ~(obj[t][taken(put, t)'].kind = "marker" /\ HasPayload(obj[t][taken(put, t)']))
    <3>1. obj[s][taken(put, s)] = m
      BY <1>3 DEF k
    <3> QED BY <1>1, <1>2, <1>3, <1>4, <1>10, <3>1 DEF FramingKept
  <2> QED BY <1>6, <2>1, <2>2 DEF FramingKept
<1> QED BY <1>1, <1>4, <1>7, <1>8, <1>9, <1>11, <1>12 DEF Reading, SoFar

LEMMA ProcessDataMarkerStep ==
  ASSUME NEW str, NEW obj, NEW put, Reading(str, obj, put), NEW p \in pending_markers, ProcessDataMarker(p)
  PROVE  Reading(str, obj, put)'
<1> DEFINE s == p.shard
           k == taken(put, s)
           m == p.marker
<1>1. /\ ReaderTyped(obj, put) /\ Fifo(obj, put) /\ ShardsAccounted /\ FramingKept(obj, put) /\ EndsReached(str)
      /\ UNCHANGED <<pipe, ending>>
  BY DEF Reading, ProcessDataMarker
<1>2. /\ phase = "select" /\ phase' = "data" /\ p \in InOrder
      /\ CanApply("main", img, m) /\ HasPayload(m)
      /\ pending_markers' = pending_markers \ {p} /\ picked' = s /\ held' = m
      /\ UNCHANGED <<shards, readable_shards, next_seq, img>>
  BY DEF ProcessDataMarker, MarkerOk
<1>3. /\ s \in MainShard /\ s \in ShardsOf("main") /\ s # None /\ s \in Shard
      /\ s # SmallShard /\ m \in Marker
      /\ k \in Nat /\ k \in 1..Len(obj[s]) /\ m = obj[s][k]
      /\ m.kind = "marker" /\ m.seq = next_seq["main"]
      /\ p = [marker |-> obj[s][k], shard |-> s]
      /\ picked = None /\ held = None /\ s \notin shards \cup readable_shards
      /\ \A q \in pending_markers \ {p} : q.shard # s
      /\ \A t \in Shard : ~HeldFrom(t)
  BY <1>2, DueMarker
<1>4. Fifo(obj, put)' /\ \A t \in Shard : taken(put, t)' = taken(put, t) /\ (AtEof(t)' <=> AtEof(t))
  BY <1>1, StandStill
<1>5. "main" \in Class /\ m # None
  BY <1>3, NoneAssumption DEF Class
<1> HIDE DEF s, k, m
<1>6. \A t \in Shard : HeldFrom(t)' <=> t = s
  BY <1>2, <1>3, <1>5 DEF HeldFrom, Running
<1>7. MarkersAccounted(obj, put)'
  <2>1. k = taken(put, s)' /\ taken(put, s) \in {k - 1, k} /\ phase # "failed"
        /\ taken(put, s) = k /\ k # k - 1
    BY <1>2, <1>3, <1>4 DEF k
  <2>2. pending_markers \ {[marker |-> obj[s][k], shard |-> s]} \subseteq pending_markers'
    BY <1>2, <1>3
  <2> QED BY <1>1, <1>2, <1>3, <1>4, <1>5, <1>6, <2>1, <2>2, MarkerSetAside
<1>8. ReaderTyped(obj, put)' /\ EndsReached(str)' /\ Behind(obj)'
  BY <1>1, <1>2, <1>3 DEF ReaderTyped, EndsReached, Behind, Reading
<1>9. OfPending' = OfPending \ {s}
  BY <1>2, <1>3 DEF OfPending, s
<1>10. ShardsAccounted'
  <2>1. Gone' \subseteq Gone
    BY <1>2, <1>3, <1>9, ShardAssumption DEF Gone
  <2>2. \A t \in Gone' : AtEof(t)'
    BY <1>1, <1>4, <2>1 DEF ShardsAccounted, Gone, Shard
  <2>3. (shards' \cup readable_shards') \cap (OfPending' \cup {picked'}) = {}
    BY <1>1, <1>2, <1>3, <1>9 DEF ShardsAccounted
  <2> QED BY <1>1, <1>2, <1>3, <1>5, <1>9, <2>2, <2>3 DEF ShardsAccounted, Running
<1>11. FramingKept(obj, put)'
  <2>1. \A q \in pending_markers' :
          /\ taken(put, q.shard)' > 0 /\ q.marker = obj[q.shard][taken(put, q.shard)']
          /\ q.marker.seq >= next_seq'["main"]
    <3>1. \A q \in pending_markers : q.shard \in Shard
      BY <1>1 DEF ReaderTyped, PendingMarker, Shard
    <3> QED BY <1>1, <1>2, <1>4, <3>1 DEF FramingKept
  <2>2. \A t \in Shard \ OfPending' :
          (~HeldFrom(t)' /\ taken(put, t)' > 0) =>
            ~(obj[t][taken(put, t)'].kind = "marker" /\ HasPayload(obj[t][taken(put, t)']))
    BY <1>1, <1>2, <1>3, <1>4, <1>6, <1>9 DEF FramingKept
  <2>3. /\ taken(put, s)' > 0 /\ held' = obj[s][taken(put, s)'] /\ HasPayload(held')
        /\ img'.current_img_file # None /\ held'.seq = next_seq'["main"]
    BY <1>1, <1>2, <1>3, <1>4 DEF CanApply, HasPayload, k
  <2> QED BY <1>3, <1>6, <2>1, <2>2, <2>3 DEF FramingKept
<1> QED BY <1>1, <1>4, <1>7, <1>8, <1>10, <1>11 DEF Reading, SoFar

LEMMA ProcessDataStep ==
  ASSUME NEW str, NEW obj, NEW put, Reading(str, obj, put), ProcessData
  PROVE  Reading(str, obj, put)'
<1> USE ShardAssumption
<1>0. PICK s : s = picked
  OBVIOUS
<1> DEFINE k == taken(put, s)
           d == Head(pipe[s]).data
<1>1. /\ ReaderTyped(obj, put) /\ Fifo(obj, put) /\ ShardsAccounted /\ FramingKept(obj, put)
      /\ ending' = ending
      /\ pipe[s] # << >> /\ Take(s) /\ img' = Apply("main", img, held, d)
      /\ phase = "data" /\ phase' = "select" /\ held' = None /\ picked' = None
      /\ shards' = shards \cup {s}
      /\ next_seq' = [next_seq EXCEPT !["main"] = @ + 1]
      /\ UNCHANGED <<readable_shards, pending_markers>>
  BY <1>0 DEF Reading, ProcessData, HasSlot, Advance
<1>2. /\ s \in MainShard /\ s # None /\ s # SmallShard /\ s \in Shard
      /\ s \in ShardsOf("main") /\ "main" \in Class
      /\ s \notin OfPending /\ s \notin shards \cup readable_shards
  BY <1>0, <1>1 DEF ShardsAccounted, Running, ReaderTyped, Shard, ShardsOf, Class
<1>3. /\ \A t \in Shard : HeldFrom(t) <=> t = s
      /\ \A t \in Shard : ~HeldFrom(t)'
  BY <1>0, <1>1, <1>2 DEF HeldFrom, Running, ShardsAccounted
<1>4. /\ k \in 1..Len(obj[s]) /\ held = obj[s][k] /\ k \in Nat
      /\ held \in Marker /\ held.kind = "marker" /\ held.seq = next_seq["main"]
      /\ obj[s][k + 1].kind = "payload" /\ d \in Seq(Data) /\ CanApply("main", img, held)
  BY <1>1, <1>2, <1>3, HeldPayload DEF Marker, ReaderTyped
<1>5. /\ Fifo(obj, put)' /\ pipe' \in [Shard -> Seq(Slot)] /\ taken(put, s)' = k + 1
      /\ \A t \in Shard \ {s} : taken(put, t)' = taken(put, t) /\ pipe'[t] = pipe[t]
  BY <1>1, <1>2, TakeFifo
<1>6. \A q \in pending_markers : q.shard \in Shard \ {s} /\ q.shard \in MainShard
  BY <1>1, <1>2 DEF ReaderTyped, PendingMarker, Shard, OfPending
<1>7. OfPending' = OfPending /\ (\A t \in Shard \ {s} : AtEof(t)' <=> AtEof(t))
  BY <1>1, <1>5 DEF OfPending, AtEof
<1>8. obj[s][taken(put, s)'].kind # "marker"
  BY <1>1, <1>4, <1>5
<1> HIDE DEF d, k
<1>9. img' \in Image /\ next_seq' \in [Class -> Nat] /\ Behind(obj)' /\ EndsReached(str)'
  BY <1>1, <1>2, <1>4, ChunkApplied
<1>10. MarkersAccounted(obj, put)'
  <2>1. pending_markers' = pending_markers \ {[marker |-> obj[s][k], shard |-> s]}
    BY <1>1, <1>6
  <2>2. \A i \in 1..Len(obj[s]) :
          (i # k /\ obj[s][i].kind = "marker") => (i <= taken(put, s)' <=> i <= taken(put, s))
    <3>1. taken(put, s) = k
      BY DEF k
    <3>2. Len(obj[s]) \in Nat
      BY <1>1, <1>2 DEF ReaderTyped
    <3> QED BY <1>4, <1>5, <3>1, <3>2
  <2>3. k <= taken(put, s)' /\ taken(put, s) = k /\ phase # "failed"
    BY <1>1, <1>4, <1>5 DEF k
  <2> QED BY <1>1, <1>2, <1>3, <1>4, <1>5, <2>1, <2>2, <2>3, ChunkCounted
<1>11. ReaderTyped(obj, put)'
  BY <1>1, <1>2, <1>5, <1>9 DEF ReaderTyped
<1>12. ShardsAccounted'
  <2>1. Gone' = Gone /\ Gone \subseteq Shard \ {s}
    BY <1>0, <1>1, <1>2, <1>7 DEF Gone, Shard
  <2>2. \A t \in Gone' : AtEof(t)'
    BY <1>1, <1>7, <2>1 DEF ShardsAccounted
  <2>3. None \notin OfPending /\ None \notin shards' \cup readable_shards'
    BY <1>1, <1>2, <1>6 DEF OfPending, ReaderTyped
  <2>4. (shards' \cup readable_shards') \cap (OfPending' \cup {picked'}) = {}
    BY <1>1, <1>2, <1>7, <2>3 DEF ShardsAccounted
  <2>5. shards' \cap readable_shards' = {}
    BY <1>1, <1>2 DEF ShardsAccounted
  <2> QED BY <1>1, <1>7, <2>2, <2>3, <2>4, <2>5 DEF ShardsAccounted, Running
<1>13. FramingKept(obj, put)'
  <2>1. \A q \in pending_markers' :
          /\ taken(put, q.shard)' > 0 /\ q.marker = obj[q.shard][taken(put, q.shard)']
          /\ q.marker.seq >= next_seq'["main"]
    <3> SUFFICES ASSUME NEW q \in pending_markers
                 PROVE  /\ taken(put, q.shard) > 0 /\ q.marker = obj[q.shard][taken(put, q.shard)]
                        /\ q.marker.seq >= next_seq'["main"]
      BY <1>1, <1>5, <1>6
    <3>1. /\ taken(put, q.shard) > 0 /\ q.marker = obj[q.shard][taken(put, q.shard)]
          /\ q.marker.seq >= next_seq["main"]
      BY <1>1 DEF FramingKept
    <3>2. q.shard \in MainShard /\ q.shard \in ShardsOf("main") /\ q.shard # s
          /\ q.marker \in Marker /\ q.shard \in Shard
      BY <1>1, <1>6 DEF ReaderTyped, PendingMarker, ShardsOf, Shard
    <3>3. taken(put, q.shard) \in 1..Len(obj[q.shard])
      BY <1>1, <3>1, <3>2 DEF ReaderTyped, Fifo, taken
    <3>4. q.marker.seq # held.seq
      <4>1. q.marker.kind = "marker" /\ SoFar(str, obj)
        BY <3>2 DEF Marker, Reading
      <4> QED BY <1>2, <1>4, <3>1, <3>2, <3>3, <4>1, DistinctNumbers
    <3>5. q.marker.seq \in Nat /\ next_seq["main"] \in Nat
          /\ next_seq'["main"] = next_seq["main"] + 1
      BY <1>1, <1>2, <3>2 DEF ReaderTyped, Marker
    <3> QED BY <1>4, <3>1, <3>4, <3>5
  <2>2. \A t \in Shard \ OfPending' :
          (~HeldFrom(t)' /\ taken(put, t)' > 0) =>
            ~(obj[t][taken(put, t)'].kind = "marker" /\ HasPayload(obj[t][taken(put, t)']))
    BY <1>1, <1>3, <1>5, <1>7, <1>8 DEF FramingKept
  <2> QED BY <1>3, <2>1, <2>2 DEF FramingKept
<1> QED BY <1>1, <1>5, <1>9, <1>10, <1>11, <1>12, <1>13 DEF Reading, SoFar


\* Whatever the reader does.
LEMMA ReaderStep ==
  ASSUME NEW str, NEW obj, NEW put, Reading(str, obj, put), DeserializerNext
  PROVE  Reading(str, obj, put)'
<1>1. CASE SmallReject
  <2>1. SmallShard \in Shard /\ pipe[SmallShard] # << >> /\ Take(SmallShard) /\ Fail
        /\ phase = "small"
    BY <1>1 DEF SmallReject, Shard
  <2> QED BY <2>1, FailAfterTake
<1>2. CASE SmallControl
  BY <1>2, SmallControlStep
<1>3. CASE SmallDataMarker
  BY <1>3, SmallDataMarkerStep
<1>4. CASE SmallData
  BY <1>4, SmallDataStep
<1>5. CASE ReadMarker
  BY <1>5, ReadMarkerStep
<1>6. CASE ProcessData
  BY <1>6, ProcessDataStep
<1>7. ASSUME NEW p \in pending_markers, ProcessControl(p)
      PROVE  Reading(str, obj, put)'
  BY <1>7, ProcessControlStep
<1>8. ASSUME NEW p \in pending_markers, ProcessDataMarker(p)
      PROVE  Reading(str, obj, put)'
  BY <1>8, ProcessDataMarkerStep
<1>9. CASE \/ SmallShort \/ SmallEof
           \/ PollShards \/ ReturnFromDrainAll
           \/ \E s \in MainShard : PopReadable(s) \/ PopLoneShard(s)
           \/ ReadEof \/ ReadShort
           \/ \E p \in pending_markers : ProcessReject(p)
  BY <1>9, CollectionsStep
<1> QED BY <1>1, <1>2, <1>3, <1>4, <1>5, <1>6, <1>7, <1>8, <1>9 DEF DeserializerNext

\* At first nothing has been put in the pipes.
LEMMA ReadingInit ==
  ASSUME NEW str, NEW obj, NEW put, SoFar(str, obj), PipesInit, DeserializerInit,
         put = [s \in Shard |-> 0]
  PROVE  Reading(str, obj, put)
<1> USE ShardAssumption DEF PipesInit, DeserializerInit
<1>1. obj \in [Shard -> Seq(Slot)]
  BY DEF SoFar
<1>2. EmptyImage \in Image
  <2>1. [f \in FileName |-> << >>] \in [FileName -> Seq(Data)]
    OBVIOUS
  <2> QED BY <2>1 DEF EmptyImage, Image
<1>3. ReaderTyped(obj, put)
  BY <1>1, <1>2, ImageAssumption DEF ReaderTyped
<1>4. \A s \in Shard : /\ pipe[s] = << >> /\ Len(pipe[s]) = 0 /\ put[s] = 0
                       /\ taken(put, s) = 0 /\ ending[s] = "open" /\ Len(obj[s]) \in Nat
  BY <1>1 DEF taken
<1>5. Fifo(obj, put)
  BY <1>4 DEF Fifo
<1>6. ShardsAccounted
  BY DEF ShardsAccounted, Running, OfPending, Gone
<1>7. \A s \in Shard : ~HeldFrom(s)
  BY DEF HeldFrom
<1>8. MarkersAccounted(obj, put)
  <2> SUFFICES ASSUME NEW c \in Class, NEW s \in ShardsOf(c), NEW i \in 1..Len(obj[s]),
                      obj[s][i].kind = "marker"
               PROVE  ~(i <= taken(put, s)) /\ obj[s][i].seq >= next_seq[c]
    BY DEF MarkersAccounted
  <2>1. s \in Shard
    BY DEF ShardsOf, Shard
  <2>2. obj[s][i] \in Marker
    BY <1>1, <2>1 DEF Slot, Payload
  <2> QED BY <1>4, <2>1, <2>2 DEF Marker
<1>9. FramingKept(obj, put)
  BY <1>4, <1>7 DEF FramingKept
<1>10. EndsReached(str)
  <2>1. /\ img.metadata = None /\ img.current_img_file = None /\ img.image_eof = FALSE
    BY DEF EmptyImage
  <2>2. \A c \in Class : Len(str[c]) \in Nat
    BY DEF SoFar
  <2> QED BY <2>1, <2>2, ImageAssumption DEF EndsReached, Class
<1>11. Behind(obj)
  <2>1. \A c \in Class : 0..(next_seq[c] - 1) = {}
    OBVIOUS
  <2> QED BY <2>1 DEF Behind
<1> QED BY <1>3, <1>5, <1>6, <1>8, <1>9, <1>10, <1>11 DEF Reading

\* What the stored shards are and how much of them was delivered, in this state
\* and the next, may be given other names.
LEMMA ReadingOf ==
  ASSUME NEW str, NEW obj, NEW put, str = stream, obj = object, put = sent
  PROVE  Reading(stream, object, sent) <=> Reading(str, obj, put)
BY DEF Reading, ReaderTyped, SoFar, FramedSoFar, Increasing, NoTwice, Fifo, taken,
       MarkersAccounted, Behind, FramingKept, EndsReached

LEMMA ReadingThen ==
  ASSUME NEW str, NEW obj, NEW put, str = stream', obj = object', put = sent',
         Reading(str, obj, put)'
  PROVE  Reading(stream, object, sent)'
<1>1. ReaderTyped(object, sent)'
  BY DEF Reading, ReaderTyped
<1>2. SoFar(stream, object)'
  <2>1. SoFar(str, obj)'
    BY DEF Reading
  <2>2. ASSUME NEW c \in Class, NEW s \in ShardsOf(c)
        PROVE  FramedSoFar(stream, object, c, s)' /\ Increasing(object, s)'
    <3>1. FramedSoFar(str, obj, c, s)' /\ Increasing(obj, s)'
      BY <2>1 DEF SoFar
    <3>2. FramedSoFar(stream, object, c, s)'
      BY <3>1 DEF FramedSoFar
    <3>3. Increasing(object, s)'
      BY <3>1 DEF Increasing
    <3> QED BY <3>2, <3>3
  <2>3. NoTwice(object)'
    BY <2>1 DEF SoFar, NoTwice
  <2> QED BY <2>1, <2>2, <2>3 DEF SoFar, EndsWithMetadata, EndsWithImageEof
<1>3. Fifo(object, sent)'
  BY DEF Reading, Fifo, taken
<1>4. MarkersAccounted(object, sent)'
  BY DEF Reading, MarkersAccounted, taken
<1>5. Behind(object)'
  BY DEF Reading, Behind
<1>6. FramingKept(object, sent)'
  BY DEF Reading, FramingKept, taken
<1>7. EndsReached(stream)'
  BY DEF Reading, EndsReached
<1>8. ShardsAccounted'
  BY DEF Reading
<1> QED BY <1>1, <1>2, <1>3, <1>4, <1>5, <1>6, <1>7, <1>8 DEF Reading

\* The reader closes no shard.
LEMMA ReaderLeavesEnding ==
  ASSUME DeserializerNext
  PROVE  ending' = ending
BY DEF DeserializerNext, SmallControl, SmallDataMarker, SmallData, SmallReject, SmallShort,
       SmallEof, PollShards, ReturnFromDrainAll, PopReadable, PopLoneShard, ReadMarker,
       ReadEof, ReadShort, ProcessData, ProcessControl, ProcessDataMarker, ProcessReject, Fail
-----------------------------------------------------------------------------
\* The invariant of Restore.

\* Stored shards are more than extract ever sees of them.
LEMMA StoredSoFar ==
  ASSUME NEW str, NEW obj, WellFormed(str), Spreads(str, obj)
  PROVE  SoFar(str, obj)
<1>1. \A c \in Class : \A s \in ShardsOf(c) : FramedSoFar(str, obj, c, s)
  <2> TAKE c \in Class
  <2> TAKE s \in ShardsOf(c)
  <2>1. Framed(str, obj, c, s)
    BY DEF Spreads
  <2> QED BY <2>1 DEF Framed, FramedSoFar
<1>2. /\ \A c \in Class : \A s \in ShardsOf(c) : Increasing(obj, s)
      /\ NoTwice(obj) /\ obj \in [Shard -> Seq(Slot)]
  BY DEF Spreads
<1>3. /\ str \in [Class -> Seq(Chunk)]
      /\ \A c \in Class : \A k \in 1..Len(str[c]) :
           /\ str[c][k].marker.seq = k - 1
           /\ str[c][k].marker.body = "Filename" <=> str[c][k].marker.file # None
           /\ c = "main" => str[c][k].marker.file # MetadataFile
           /\ c = "small" => str[c][k].marker.body # "ImageEof"
      /\ EndsWithMetadata(str["small"]) /\ EndsWithImageEof(str["main"])
  BY DEF WellFormed
<1> QED BY <1>1, <1>2, <1>3 DEF SoFar

LEMMA InvInit == Init => RestoreInv
<1> SUFFICES ASSUME Init
             PROVE  RestoreInv
  OBVIOUS
<1>1. Stored /\ delivery \in Delivery
  BY StoreAssumption DEF Stored, Init
<1>2. sent = [s \in Shard |-> 0] /\ cut = {} /\ PipesInit /\ DeserializerInit
  BY DEF Init
<1>3. Reading(stream, object, sent)
  BY <1>1, <1>2, StoredSoFar, ReadingInit DEF Stored
<1>4. CutShort
  BY <1>2 DEF CutShort, PipesInit
<1> QED BY <1>1, <1>2, <1>3, <1>4 DEF RestoreInv, TypeOK, Reading

\* The deliveries of the shards.
LEMMA DeliveryStep ==
  ASSUME RestoreInv, NEW s \in Shard,
         Deliver(s) \/ EndDelivery(s) \/ \E how \in {"eof", "torn"} : Truncate(s, how)
  PROVE  RestoreInv'
<1>0. PICK str, obj, put : str = stream /\ obj = object /\ put = sent
  OBVIOUS
<1>1. Reading(str, obj, put)
  BY <1>0, ReadingOf DEF RestoreInv
<1>2. /\ ReaderTyped(obj, put) /\ Fifo(obj, put) /\ EndsReached(str) /\ SoFar(str, obj)
      /\ obj \in [Shard -> Seq(Slot)]
  BY <1>1 DEF Reading, SoFar
<1>3. GoesOn(obj, obj)
  <2>1. \A t \in Shard : Len(obj[t]) \in Nat
    BY <1>2
  <2> QED BY <2>1 DEF GoesOn
<1>4. /\ UNCHANGED deserializerVars /\ str = stream' /\ obj = object' /\ delivery' = delivery
  BY <1>0 DEF Deliver, EndDelivery, Truncate, storeVars
<1>5. TypeOK /\ CutShort /\ Stored
  BY DEF RestoreInv
<1>6. /\ Stored' /\ delivery' \in Delivery
  <2>1. stream' = stream /\ object' = object
    BY <1>0, <1>4
  <2>2. WellFormed(stream) /\ Spreads(stream, object)
    BY <1>5 DEF Stored
  <2>3. WellFormed(stream)'
    BY <2>1, <2>2 DEF WellFormed, EndsWithMetadata, EndsWithImageEof
  <2>4. NoTwice(object)' /\ object' \in [Shard -> Seq(Slot)]
    BY <2>1, <2>2 DEF Spreads, NoTwice
  <2>5. \A c \in Class : Covers(stream, object, c)'
    BY <2>1, <2>2 DEF Spreads, Covers
  <2>6. \A c \in Class : \A t \in ShardsOf(c) :
          Framed(stream, object, c, t)' /\ Increasing(object, t)'
    BY <2>1, <2>2 DEF Spreads, Framed, Increasing
  <2>7. Spreads(stream, object)'
    BY <2>4, <2>5, <2>6 DEF Spreads
  <2> QED BY <1>4, <1>5, <2>3, <2>7 DEF Stored, TypeOK
<1>7. CASE Deliver(s)
  <2>1. /\ put[s] < Len(obj[s]) /\ Put(s, obj[s][put[s] + 1])
        /\ sent' = [put EXCEPT ![s] = @ + 1] /\ ending' = ending /\ cut' = cut
    BY <1>0, <1>7 DEF Deliver
  <2>2. PICK more : more = [put EXCEPT ![s] = @ + 1]
    OBVIOUS
  <2>3. /\ ending[s] = "open"
        /\ pipe' = [pipe EXCEPT ![s] = Append(@, obj[s][put[s] + 1])]
    BY <2>1 DEF Put
  <2>4. /\ Fifo(obj, more)' /\ pipe' \in [Shard -> Seq(Slot)] /\ more \in [Shard -> Nat]
        /\ \A t \in Shard : taken(more, t)' = taken(put, t)
        /\ \A t \in Shard : AtEof(t) => AtEof(t)'
    <3>1. s \in Shard
      OBVIOUS
    <3>2. /\ ReaderTyped(obj, put) /\ Fifo(obj, put) /\ obj \in [Shard -> Seq(Slot)]
          /\ GoesOn(obj, obj) /\ put[s] < Len(obj[s]) /\ ending[s] = "open"
          /\ ending' = ending /\ pipe' = [pipe EXCEPT ![s] = Append(@, obj[s][put[s] + 1])]
          /\ more = [put EXCEPT ![s] = @ + 1]
      BY <1>2, <1>3, <2>1, <2>2, <2>3
    <3>3. PutsOn(obj, put, obj, s, more)
      BY <3>1, <3>2 DEF PutsOn
    <3> QED BY ONLY <3>3, PutFifo
  <2>5. ending' \in [Shard -> {"open", "eof", "torn"}]
    BY <1>2, <2>1 DEF ReaderTyped
  <2>6. Reading(str, obj, more)'
    BY <1>1, <1>2, <1>3, <1>4, <2>4, <2>5, EnvironmentStep
  <2>7. more = sent'
    BY <2>1, <2>2
  <2>8. Reading(stream, object, sent)'
    BY <1>4, <2>6, <2>7, ReadingThen
  <2>9. CutShort'
    <3>1. \A t \in Shard : sent'[t] = IF t = s THEN sent[s] + 1 ELSE sent[t]
      BY <1>0, <1>2, <2>1 DEF ReaderTyped
    <3>2. object' = object /\ sent[s] < Len(object[s])
      BY <1>0, <1>4, <2>1
    <3> QED BY <1>5, <2>1, <2>3, <3>1, <3>2 DEF CutShort
  <2> QED BY <1>5, <1>6, <2>1, <2>8, <2>9 DEF RestoreInv, TypeOK, Reading
<1>8. CASE EndDelivery(s) \/ \E how \in {"eof", "torn"} : Truncate(s, how)
  <2>1. PICK how \in {"eof", "torn"} :
          /\ ending[s] = "open" /\ ending' = [ending EXCEPT ![s] = how]
          /\ pipe' = pipe /\ sent' = sent /\ cut \subseteq cut' /\ cut' \subseteq cut \cup {s}
          /\ s \in cut' \/ (sent[s] = Len(object[s]) /\ how = "eof")
    BY <1>8 DEF EndDelivery, Truncate, EndShard, storeVars
  <2>2. \A t \in Shard : taken(put, t)' = taken(put, t)
    BY <2>1 DEF taken
  <2>3. /\ ending' \in [Shard -> {"open", "eof", "torn"}]
        /\ \A t \in Shard : ending'[t] = IF t = s THEN how ELSE ending[t]
        /\ pipe' \in [Shard -> Seq(Slot)] /\ put \in [Shard -> Nat]
    BY <1>2, <2>1 DEF ReaderTyped
  <2>4. \A t \in Shard : AtEof(t) => AtEof(t)'
    BY <2>1, <2>3 DEF AtEof
  <2>5. Fifo(obj, put)'
    BY <1>2, <2>1, <2>2 DEF Fifo
  <2>6. Reading(str, obj, put)'
    BY <1>1, <1>2, <1>3, <1>4, <2>2, <2>3, <2>4, <2>5, EnvironmentStep
  <2>7. Reading(stream, object, sent)'
    BY <1>0, <1>4, <2>1, <2>6, ReadingThen
  <2>8. CutShort'
    <3>1. object' = object
      BY <1>0, <1>4
    <3> QED BY <1>5, <2>1, <2>3, <3>1 DEF CutShort
  <2> QED BY <1>5, <1>6, <2>1, <2>7, <2>8 DEF RestoreInv, TypeOK, Reading
<1> QED BY <1>7, <1>8

\* RestoreInv is inductive.
LEMMA InvNext == RestoreInv /\ [Next]_vars => RestoreInv'
<1> SUFFICES ASSUME RestoreInv, [Next]_vars
             PROVE  RestoreInv'
  OBVIOUS
<1>0. PICK str, obj, put : str = stream /\ obj = object /\ put = sent
  OBVIOUS
<1>1. Reading(str, obj, put) /\ CutShort /\ Stored /\ delivery \in Delivery /\ cut \in SUBSET Shard
  BY <1>0, ReadingOf DEF RestoreInv, TypeOK
<1>2. ASSUME UNCHANGED <<storeVars, ending>>, Reading(str, obj, put)'
      PROVE  RestoreInv'
  <2>1. /\ stream' = stream /\ object' = object /\ sent' = sent /\ ending' = ending
        /\ cut' = cut /\ delivery' = delivery
    BY <1>2 DEF storeVars
  <2>2. Reading(stream, object, sent)'
    BY <1>0, <1>2, <2>1, ReadingThen
  <2>3. Stored'
    BY <1>1, <2>1 DEF Stored, WellFormed, Spreads, Framed, Increasing, Covers, NoTwice
  <2>4. CutShort'
    BY <1>1, <2>1 DEF CutShort
  <2> QED BY <1>1, <2>1, <2>2, <2>3, <2>4 DEF RestoreInv, TypeOK, Reading
<1>3. CASE UNCHANGED vars
  <2>1. UNCHANGED <<pipe, ending>> /\ UNCHANGED deserializerVars /\ UNCHANGED storeVars
    BY <1>3 DEF vars, pipeVars
  <2>2. Reading(str, obj, put)'
    <3>1. ReaderTyped(obj, put)' /\ SoFar(str, obj)' /\ Fifo(obj, put)' /\ ShardsAccounted'
      BY <1>1, <2>1 DEF Reading, ReaderTyped, SoFar, Fifo, taken, ShardsAccounted, Gone,
           OfPending, AtEof, Running, deserializerVars
    <3>2. MarkersAccounted(obj, put)' /\ Behind(obj)' /\ FramingKept(obj, put)' /\ EndsReached(str)'
      BY <1>1, <2>1 DEF Reading, MarkersAccounted, Behind, FramingKept, EndsReached, taken,
           HeldFrom, OfPending, Running, deserializerVars
    <3> QED BY <3>1, <3>2 DEF Reading
  <2> QED BY <1>2, <2>1, <2>2
<1>4. ASSUME NEW s \in Shard, Deliver(s) \/ EndDelivery(s)
      PROVE  RestoreInv'
  BY <1>4, DeliveryStep
<1>5. ASSUME NEW s \in Shard, NEW how \in {"eof", "torn"}, Truncate(s, how)
      PROVE  RestoreInv'
  BY <1>5, DeliveryStep
<1>6. CASE Read
  <2>1. UNCHANGED storeVars /\ DeserializerNext
    BY <1>6 DEF Read
  <2>2. ending' = ending
    BY <2>1, ReaderLeavesEnding
  <2>3. Reading(str, obj, put)'
    BY <1>1, <2>1, ReaderStep
  <2> QED BY <1>2, <2>1, <2>2, <2>3
<1>7. CASE Returned
  BY <1>3, <1>7 DEF Returned
<1> QED BY <1>3, <1>4, <1>5, <1>6, <1>7 DEF Next

-----------------------------------------------------------------------------
\* The inductive invariant holds of every restore: no shard is lost or read
\* twice, no chunk is lost, repeated or overtaken, and no payload is read as a
\* marker (extract.rs, the collections of ImageDeserializer).
THEOREM InvHolds == Spec => []RestoreInv
<1> QED BY InvInit, InvNext, PTL DEF Spec

\* Every variable keeps to its type.
THEOREM TypeCorrect == Spec => []TypeOK
<1>1. RestoreInv => TypeOK
  BY DEF RestoreInv
<1> QED BY <1>1, InvHolds, PTL

\* When drain_all() returns Ok, every chunk of the large files has been applied,
\* and all but the closing marker of the small ones, whichever shards were cut.
THEOREM AcceptedWhole == Spec => []AcceptedIsWhole
<1>1. RestoreInv => AcceptedIsWhole
  <2> SUFFICES ASSUME RestoreInv, phase = "done"
               PROVE  /\ next_seq["main"] = Len(stream["main"])
                      /\ next_seq["small"] >= Len(stream["small"]) - 1
    BY DEF AcceptedIsWhole
  <2>1. EndsReached(stream) /\ next_seq["main"] \in Nat /\ "main" \in Class
    BY DEF RestoreInv, Reading, ReaderTyped, Class
  <2>2. Len(stream["main"]) \in Nat
    BY <2>1 DEF RestoreInv, Stored, WellFormed
  <2> QED BY <2>1, <2>2 DEF EndsReached
<1> QED BY <1>1, InvHolds, PTL

-----------------------------------------------------------------------------
\* Where the next chunk is.

\* What the reader finds in a pipe it looks for a marker in is the marker of
\* a chunk that has not been applied.
LEMMA HeadIsMarker ==
  ASSUME NEW str, NEW obj, NEW put, Reading(str, obj, put), NEW c \in Class,
         NEW s \in ShardsOf(c), pipe[s] # << >>,
         phase # "failed", ~HeldFrom(s), s \notin OfPending
  PROVE  LET k == taken(put, s) + 1
         IN  /\ k \in 1..Len(obj[s])
             /\ Head(pipe[s]) = obj[s][k]
             /\ obj[s][k].kind = "marker"
             /\ obj[s][k] \in Marker
             /\ obj[s][k].seq >= next_seq[c]
             /\ obj[s][k].seq + 1 \in 1..Len(str[c])
<1> DEFINE k == taken(put, s) + 1
<1>1. /\ ReaderTyped(obj, put) /\ SoFar(str, obj) /\ Fifo(obj, put)
      /\ MarkersAccounted(obj, put) /\ FramingKept(obj, put) /\ s \in Shard
  BY DEF Reading, ShardsOf, Shard
<1>2. /\ taken(put, s) \in Nat
      /\ k \in 1..Len(obj[s])
      /\ Head(pipe[s]) = obj[s][k]
      /\ obj[s] \in Seq(Slot)
  <2>1. obj[s] \in Seq(Slot) /\ Len(obj[s]) \in Nat
    BY <1>1 DEF ReaderTyped
  <2>2. taken(put, s) \in 0..(Len(obj[s]) - 1) /\ Head(pipe[s]) = obj[s][taken(put, s) + 1]
    BY <1>1, NextSlot
  <2> QED BY <2>1, <2>2
<1>3. obj[s][k].kind = "marker"
  <2> SUFFICES ASSUME obj[s][k].kind # "marker"
               PROVE  FALSE
    OBVIOUS
  <2>1. obj[s][k].kind = "payload"
    <3>1. obj[s][k] \in Slot
      BY <1>2
    <3> QED BY <3>1 DEF Slot, Marker, Payload
  <2>2. FramedSoFar(str, obj, c, s)
    BY <1>1 DEF SoFar
  <2>3. /\ k - 1 \in 1..Len(obj[s])
        /\ obj[s][k-1].kind = "marker"
        /\ HasPayload(obj[s][k-1])
    BY <1>2, <2>1, <2>2 DEF FramedSoFar
  <2>4. k - 1 = taken(put, s) /\ taken(put, s) > 0
    BY <1>2, <2>3
  <2>5. s \in Shard \ OfPending
    BY <1>1
  <2> HIDE DEF k
  <2> QED BY <1>1, <2>3, <2>4, <2>5 DEF FramingKept
<1>4. obj[s][k].seq >= next_seq[c]
  <2>1. ~(k <= taken(put, s))
    BY <1>2
  <2> HIDE DEF k
  <2> QED BY <1>1, <1>2, <1>3, <2>1 DEF MarkersAccounted
<1>5. obj[s][k] \in Marker /\ obj[s][k].seq + 1 \in 1..Len(str[c])
  <2> HIDE DEF k
  <2> QED BY <1>1, <1>2, <1>3, MarkerInStream
<1> QED BY <1>2, <1>3, <1>4, <1>5

\* A marker whose number is due is still to come, or pending, or held.
LEMMA DueIsAhead ==
  ASSUME NEW str, NEW obj, NEW put, Reading(str, obj, put), NEW c \in Class, phase # "failed",
         NEW s \in ShardsOf(c), NEW i \in 1..Len(obj[s]),
         obj[s][i].kind = "marker", obj[s][i].seq = next_seq[c]
  PROVE  /\ s \in Shard
         /\ \/ i > taken(put, s)
            \/ /\ i = taken(put, s) /\ s # SmallShard
               /\ [marker |-> obj[s][i], shard |-> s] \in pending_markers
            \/ HeldFrom(s)
<1>1. /\ ReaderTyped(obj, put) /\ Fifo(obj, put) /\ MarkersAccounted(obj, put) /\ s \in Shard
      /\ next_seq[c] \in Nat
  BY DEF Reading, ReaderTyped, ShardsOf, Shard
<1>2. taken(put, s) \in Nat /\ i \in Nat
  <2>1. taken(put, s) \in Nat
    BY <1>1, TakenType
  <2> QED BY <1>1, <2>1 DEF ReaderTyped
<1>3. CASE i <= taken(put, s)
  <2>1. \/ obj[s][i].seq < next_seq[c]
        \/ /\ i = taken(put, s) /\ s # SmallShard
           /\ [marker |-> obj[s][i], shard |-> s] \in pending_markers
        \/ HeldFrom(s)
    BY <1>1, <1>3 DEF MarkersAccounted
  <2> QED BY <1>1, <2>1
<1> QED BY <1>1, <1>2, <1>3

\* Between two chunks of the small files, the head of their shard is the marker
\* of the next one, if it is anywhere.
LEMMA SmallHeadIsDue ==
  ASSUME NEW str, NEW obj, NEW put, Reading(str, obj, put), phase = "small",
         pipe[SmallShard] # << >>, NEW i \in 1..Len(obj[SmallShard]),
         obj[SmallShard][i].kind = "marker", obj[SmallShard][i].seq = next_seq["small"]
  PROVE  i = taken(put, SmallShard) + 1
<1> USE ShardAssumption
<1> DEFINE s == SmallShard
           k == taken(put, s) + 1
<1>1. /\ "small" \in Class /\ s \in ShardsOf("small") /\ s \in Shard /\ ~HeldFrom(s)
      /\ s \notin OfPending /\ SoFar(str, obj) /\ ReaderTyped(obj, put) /\ Fifo(obj, put)
  <2>1. \A p \in pending_markers : p.shard \in MainShard
    BY DEF Reading, ReaderTyped, PendingMarker
  <2>2. s \notin OfPending
    BY <2>1 DEF OfPending
  <2> QED BY <2>2 DEF Class, ShardsOf, Shard, HeldFrom, Reading
<1>2. /\ k \in 1..Len(obj[s]) /\ obj[s][k].kind = "marker" /\ obj[s][k] \in Marker
      /\ obj[s][k].seq >= next_seq["small"]
  BY <1>1, HeadIsMarker
<1>3. i > taken(put, s)
  BY <1>1, DueIsAhead
<1>4. taken(put, s) \in Nat /\ i \in Nat /\ k \in Nat
  <2>1. taken(put, s) \in Nat
    BY <1>1, TakenType
  <2> QED BY <1>1, <2>1 DEF ReaderTyped
<1>5. next_seq["small"] \in Nat /\ obj[s][k].seq \in Nat
  BY <1>1, <1>2 DEF ReaderTyped, Marker
<1>6. CASE k < i
  <2>1. obj[s][k].seq < obj[s][i].seq
    <3> HIDE DEF k
    <3> QED BY <1>1, <1>2, <1>6, LaterIsHigher
  <2> QED BY <1>2, <1>5, <2>1
<1> QED BY <1>3, <1>4, <1>6

\* drain_all() gives up its last shard only when all of them have been read: the
\* next chunk is not in one.
LEMMA NoneIsLeft ==
  ASSUME NEW str, NEW obj, NEW put, Reading(str, obj, put), Selecting,
         shards = {}, readable_shards = {},
         NEW s \in MainShard, NEW i \in 1..Len(obj[s]),
         obj[s][i].kind = "marker", obj[s][i].seq = next_seq["main"]
  PROVE  s \in Gone /\ i > taken(put, s)
<1> USE ShardAssumption
<1>1. /\ ReaderTyped(obj, put) /\ Fifo(obj, put) /\ SoFar(str, obj) /\ ShardsAccounted
      /\ FramingKept(obj, put) /\ phase = "select" /\ InOrder = {} /\ "main" \in Class
      /\ ~HeldFrom(s) /\ picked = None
  <2>1. phase = "select" /\ InOrder = {}
    BY DEF Selecting
  <2> QED BY <2>1 DEF Reading, HeldFrom, Class, ShardsAccounted, Running
<1>2. s \in Shard /\ s \in ShardsOf("main") /\ Len(obj[s]) \in Nat /\ next_seq["main"] \in Nat
  BY <1>1 DEF Shard, ShardsOf, ReaderTyped
<1>3. i > taken(put, s)
  <2>1. \/ i > taken(put, s)
        \/ [marker |-> obj[s][i], shard |-> s] \in pending_markers
    BY <1>1, <1>2, DueIsAhead
  <2>2. ~[marker |-> obj[s][i], shard |-> s] \in pending_markers
    BY <1>1 DEF InOrder
  <2> QED BY <2>1, <2>2
<1>4. ASSUME s \in OfPending
      PROVE  FALSE
  <2>1. PICK p \in pending_markers : p.shard = s
    BY <1>4 DEF OfPending
  <2>2. /\ taken(put, s) > 0 /\ p.marker = obj[s][taken(put, s)]
        /\ p.marker.seq >= next_seq["main"]
    BY <1>1, <2>1 DEF FramingKept
  <2>3. p.marker \in Marker
    BY <1>1 DEF ReaderTyped, PendingMarker
  <2>4. taken(put, s) \in 1..Len(obj[s])
    <3>1. /\ taken(put, s) \in Nat /\ taken(put, s) <= put[s] /\ put[s] <= Len(obj[s])
          /\ put[s] \in Nat
      BY <1>1, <1>2, TakenType
    <3> QED BY <1>2, <2>2, <3>1
  <2>5. obj[s][taken(put, s)].seq < obj[s][i].seq
    <3>1. obj[s][taken(put, s)].kind = "marker"
      BY <2>2, <2>3 DEF Marker
    <3> QED BY <1>1, <1>2, <1>3, <2>4, <3>1, LaterIsHigher
  <2>6. p.marker.seq \in Nat
    BY <2>3 DEF Marker
  <2> QED BY <1>2, <2>2, <2>5, <2>6
<1> QED BY <1>1, <1>3, <1>4 DEF Gone

\* No marker comes behind ImageEof.
LEMMA EofIsLast ==
  ASSUME NEW str, NEW obj, NEW put, Reading(str, obj, put), NEW p \in pending_markers,
         p \in InOrder, phase = "select", p.marker.body = "ImageEof",
         NEW q \in pending_markers
  PROVE  q = p
<1> DEFINE s == p.shard
           k == taken(put, s)
           t == q.shard
           j == taken(put, t)
<1>1. /\ ReaderTyped(obj, put) /\ Fifo(obj, put) /\ SoFar(str, obj) /\ FramingKept(obj, put)
      /\ ShardsAccounted /\ "main" \in Class /\ next_seq["main"] \in Nat
  BY DEF Reading, ReaderTyped, Class
<1>2. /\ s \in ShardsOf("main") /\ k \in 1..Len(obj[s]) /\ p.marker = obj[s][k]
      /\ obj[s][k].kind = "marker" /\ obj[s][k].seq = next_seq["main"]
  BY DueMarker
<1>3. Len(str["main"]) \in Nat
  BY <1>1 DEF SoFar
<1>4. next_seq["main"] = Len(str["main"]) - 1
  <2> HIDE DEF k, s
  <2>1. obj[s][k].seq = Len(str["main"]) - 1
    BY <1>1, <1>2, MarkerInStream
  <2> QED BY <1>2, <2>1
<1>5. /\ t \in MainShard /\ t \in ShardsOf("main") /\ t \in Shard
      /\ q.marker \in Marker /\ q = [marker |-> q.marker, shard |-> t]
  BY <1>1 DEF ReaderTyped, PendingMarker, ShardsOf, Shard
<1>6. j > 0 /\ q.marker = obj[t][j] /\ q.marker.seq >= next_seq["main"]
  BY <1>1 DEF FramingKept
<1>7. j \in 1..Len(obj[t])
  <2>1. /\ taken(put, t) \in Nat /\ taken(put, t) <= put[t] /\ put[t] <= Len(obj[t])
        /\ put[t] \in Nat /\ Len(obj[t]) \in Nat
    BY <1>1, <1>5, TakenType
  <2> QED BY <1>6, <2>1
<1>8. t = s
  <2> HIDE DEF j, k, s, t
  <2>1. obj[t][j].kind = "marker" /\ obj[t][j].seq \in Nat
    BY <1>5, <1>6 DEF Marker
  <2>2. obj[t][j].seq + 1 \in 1..Len(str["main"])
    BY <1>1, <1>5, <1>7, <2>1, MarkerInStream
  <2>3. obj[t][j].seq = next_seq["main"]
    BY <1>1, <1>3, <1>4, <1>6, <2>1, <2>2
  <2> QED BY <1>1, <1>2, <1>5, <1>7, <2>1, <2>3, DistinctNumbers
<1> QED BY <1>1, <1>8 DEF ShardsAccounted

\* drain_shard() finds no marker once ImageEof has been applied.
LEMMA NothingBehindEof ==
  ASSUME NEW str, NEW obj, NEW put, Reading(str, obj, put), phase = "read",
         pipe[picked] # << >>
  PROVE  /\ Head(pipe[picked]).kind = "marker"
         /\ ~img.image_eof
<1> USE ShardAssumption
<1>0. PICK s : s = picked
  OBVIOUS
<1>1. /\ ReaderTyped(obj, put) /\ ShardsAccounted /\ EndsReached(str) /\ SoFar(str, obj)
      /\ "main" \in Class
  BY DEF Reading, Class
<1>2. s \in MainShard /\ s \in ShardsOf("main") /\ s \in Shard /\ s # SmallShard
  <2>1. picked # None
    BY <1>1 DEF ShardsAccounted, Running
  <2> QED BY <1>0, <1>1, <2>1 DEF ReaderTyped, ShardsOf, Shard
<1>3. ~HeldFrom(s) /\ s \notin OfPending
  BY <1>0, <1>1, <1>2 DEF HeldFrom, ShardsAccounted
<1>4. PICK k : /\ Head(pipe[s]) = obj[s][k]
               /\ obj[s][k].kind = "marker"
               /\ obj[s][k] \in Marker
               /\ obj[s][k].seq >= next_seq["main"]
               /\ obj[s][k].seq + 1 \in 1..Len(str["main"])
  BY <1>0, <1>1, <1>2, <1>3, HeadIsMarker
<1>5. /\ obj[s][k].seq \in Nat /\ next_seq["main"] \in Nat
      /\ Len(str["main"]) \in Nat
  BY <1>1, <1>4 DEF Marker, ReaderTyped, SoFar
<1>6. img.image_eof => next_seq["main"] >= Len(str["main"])
  BY <1>1 DEF EndsReached
<1> QED BY <1>0, <1>4, <1>5, <1>6

-----------------------------------------------------------------------------
\* Restore implements SequentialReplay: the small shard yields chunks in their
\* order, and each refusal has one of the reasons the sequential reader has.

\* The types of what is counted.
LEMMA Counted ==
  ASSUME RestoreInv, NEW c \in Class
  PROVE  /\ next_seq[c] \in Nat /\ Len(stream[c]) \in Nat /\ stream[c] \in Seq(Chunk)
         /\ \A s \in Shard : Len(object[s]) \in Nat /\ taken(sent, s) \in Nat
<1>1. ReaderTyped(object, sent) /\ Fifo(object, sent) /\ SoFar(stream, object)
  BY DEF RestoreInv, Reading
<1>2. \A s \in Shard : Len(object[s]) \in Nat /\ taken(sent, s) \in Nat
  BY <1>1, TakenType
<1>3. next_seq[c] \in Nat
  BY <1>1 DEF ReaderTyped
<1> QED BY <1>1, <1>2, <1>3 DEF SoFar

\* As long as a class has not been applied to its end, the marker of its next
\* chunk is in a shard.
LEMMA NextIsStored ==
  ASSUME RestoreInv, NEW c \in Class, next_seq[c] < Len(stream[c])
  PROVE  \E s \in ShardsOf(c) : \E i \in 1..Len(object[s]) :
           object[s][i].kind = "marker" /\ object[s][i].seq = next_seq[c]
<1>1. /\ next_seq[c] \in Nat /\ Len(stream[c]) \in Nat /\ stream[c] \in Seq(Chunk)
      /\ next_seq[c] + 1 \in 1..Len(stream[c])
  BY Counted
<1>2. Covers(stream, object, c)
  BY DEF RestoreInv, Stored, Spreads
<1>3. PICK s \in ShardsOf(c) : \E i \in 1..Len(object[s]) :
         object[s][i] = stream[c][next_seq[c] + 1].marker
  BY <1>1, <1>2 DEF Covers
<1>4. stream[c][next_seq[c] + 1].marker.seq = next_seq[c]
  <2>1. WellFormed(stream)
    BY DEF RestoreInv, Stored
  <2>2. stream[c][next_seq[c] + 1].marker.seq = (next_seq[c] + 1) - 1
    BY <1>1, <2>1 DEF WellFormed
  <2> QED BY <1>1, <2>2
<1>5. stream[c][next_seq[c] + 1].marker \in Marker
  <2>1. stream[c][next_seq[c] + 1] \in Chunk
    BY <1>1
  <2> QED BY <2>1 DEF Chunk
<1> QED BY <1>3, <1>4, <1>5 DEF Marker

\* Where the pipe of a shard that is over is empty, all of it was taken, unless
\* its delivery was cut.
LEMMA EmptyAtEnd ==
  ASSUME RestoreInv, NEW s \in Shard, pipe[s] = << >>, ending[s] # "open"
  PROVE  /\ ending[s] = "torn" => cut # {}
         /\ cut # {} \/ taken(sent, s) = Len(object[s])
<1>1. /\ s \in cut \/ sent[s] = Len(object[s])
      /\ ending[s] = "torn" => s \in cut
  BY DEF RestoreInv, CutShort
<1>2. sent[s] \in Nat /\ Len(pipe[s]) = 0
  BY DEF RestoreInv, Reading, ReaderTyped
<1> QED BY <1>1, <1>2 DEF taken

\* The payload of a marker that was taken is stored behind it.
LEMMA PayloadIsStored ==
  ASSUME RestoreInv, NEW s \in Shard, HeldFrom(s), pipe[s] = << >>, ending[s] # "open"
  PROVE  cut # {}
<1> USE ShardAssumption
<1> SUFFICES ASSUME cut = {}
             PROVE  FALSE
  OBVIOUS
<1>1. taken(sent, s) = Len(object[s])
  BY EmptyAtEnd
<1>2. PICK c \in Class : s \in ShardsOf(c)
  BY DEF Class, ShardsOf, Shard
<1>3. /\ Len(object[s]) \in Nat
      /\ FramingKept(object, sent) /\ held \in Marker
  BY Counted, <1>2 DEF RestoreInv, Reading, ReaderTyped, HeldFrom
<1>4. /\ HasPayload(held) /\ taken(sent, s) > 0 /\ held = object[s][taken(sent, s)]
  BY <1>3 DEF FramingKept
<1>5. Len(object[s]) \in 1..Len(object[s]) /\ held = object[s][Len(object[s])]
      /\ held.kind = "marker"
  BY <1>1, <1>3, <1>4 DEF Marker
<1>6. Framed(stream, object, c, s)
  BY <1>2 DEF RestoreInv, Stored, Spreads
<1>7. Len(object[s]) + 1 \in 1..Len(object[s])
  BY <1>4, <1>5, <1>6 DEF Framed
<1> QED BY <1>3, <1>7

\* A marker whose number is due is that of the next chunk of the replay.
LEMMA DueIsNext ==
  ASSUME RestoreInv, NEW c \in Class, NEW s \in ShardsOf(c), NEW k \in 1..Len(object[s]),
         object[s][k].kind = "marker", object[s][k].seq = next_seq[c]
  PROVE  /\ Replay!Remains(c)
         /\ Replay!Next(c).marker = object[s][k]
         /\ HasPayload(object[s][k]) =>
              object[s][k + 1] = MakePayload(Replay!Next(c).data)
         /\ object[s][k].body = "ImageEof" => next_seq[c] + 1 = Len(stream[c])
<1>1. /\ object[s][k].seq + 1 \in 1..Len(stream[c])
      /\ object[s][k] = stream[c][object[s][k].seq + 1].marker
      /\ object[s][k].body = "ImageEof" => object[s][k].seq = Len(stream[c]) - 1
  <2>1. SoFar(stream, object)
    BY DEF RestoreInv, Reading
  <2> QED BY <2>1, MarkerInStream
<1>2. HasPayload(object[s][k]) =>
        object[s][k + 1] = MakePayload(stream[c][object[s][k].seq + 1].data)
  <2>1. Framed(stream, object, c, s)
    BY DEF RestoreInv, Stored, Spreads
  <2> QED BY <2>1 DEF Framed
<1>3. next_seq[c] \in Nat /\ Len(stream[c]) \in Nat
  BY Counted
<1> QED BY <1>1, <1>2, <1>3 DEF Replay!Remains, Replay!Next

\* The replay has the definitions of ImageStream for its own.
LEMMA SameStream ==
  /\ Replay!Class = Class
  /\ Replay!EmptyImage = EmptyImage
  /\ \A c, x, m : Replay!CanApply(c, x, m) <=> CanApply(c, x, m)
  /\ \A c, x, m, d : Replay!Apply(c, x, m, d) = Apply(c, x, m, d)
<1>1. /\ \A c, x, d : Replay!ApplyData(c, x, d) = ApplyData(c, x, d)
      /\ \A c, x : Replay!ApplyFileEof(c, x) = ApplyFileEof(c, x)
  BY DEF Replay!ApplyData, ApplyData, Replay!ApplyFileEof, ApplyFileEof,
         Replay!IsMetadata, IsMetadata
<1>2. \A x, f : Replay!SelectImgFile(x, f) = SelectImgFile(x, f)
  BY DEF Replay!SelectImgFile, SelectImgFile
<1>3. \A c, x, m, d : Replay!Apply(c, x, m, d) = Apply(c, x, m, d)
  BY <1>1, <1>2 DEF Replay!Apply, Apply
<1>4. \A c, x, m : Replay!CanApply(c, x, m) <=> CanApply(c, x, m)
  BY DEF Replay!CanApply, CanApply
<1>5. Replay!Class = Class /\ Replay!EmptyImage = EmptyImage
  BY DEF Replay!Class, Class, Replay!EmptyImage, EmptyImage, Replay!FileName, FileName
<1> QED BY <1>3, <1>4, <1>5

\* The payload is ignored where there is none.
LEMMA NoPayload ==
  ASSUME NEW c, NEW x, NEW m \in Marker, ~HasPayload(m), NEW d, NEW e
  PROVE  Apply(c, x, m, d) = Apply(c, x, m, e)
BY DEF Apply, HasPayload, Marker, Body
-----------------------------------------------------------------------------
\* Steps of the reader, or of its environment, that the replay does not see.
LEMMA Unseen ==
  ASSUME UNCHANGED <<stream, next_seq, img>>,
         cut' # {} <=> cut # {},
         \/ phase' = phase
         \/ phase \in {"small", "small_data"} /\ phase' \in {"small", "small_data"}
         \/ phase \in {"select", "read", "data"} /\ phase' \in {"select", "read", "data"}
  PROVE  UNCHANGED Replay!replayVars
BY DEF Replay!replayVars

\* An error of the reader is a refusal when the replay has a reason for one.
LEMMA Refused ==
  ASSUME NEW c \in Class, UNCHANGED <<stream, next_seq, img, cut>>, phase' = "failed",
         \/ c = "small" /\ phase \in {"small", "small_data"}
         \/ c = "main" /\ phase \in {"select", "read", "data"},
         cut # {} \/ Replay!Malformed(c)
  PROVE  Replay!Refuse
BY SameStream DEF Replay!Refuse, Class

\* A chunk whose number is due is replayed.
LEMMA Replayed ==
  ASSUME RestoreInv, NEW c \in Class, NEW s \in ShardsOf(c), NEW k \in 1..Len(object[s]), NEW d,
         object[s][k].kind = "marker", object[s][k].seq = next_seq[c],
         CanApply(c, img, object[s][k]),
         HasPayload(object[s][k]) => object[s][k + 1].data = d,
         img' = Apply(c, img, object[s][k], d),
         next_seq' = [next_seq EXCEPT ![c] = @ + 1],
         UNCHANGED <<stream, cut>>,
         \/ c = "small" /\ phase \in {"small", "small_data"} /\ phase' = "small"
         \/ c = "main" /\ phase \in {"select", "data"} /\ phase' = "select"
  PROVE  Replay!ReplayNext
<1>1. /\ Replay!Remains(c)
      /\ Replay!Next(c).marker = object[s][k]
      /\ HasPayload(object[s][k]) =>
           object[s][k + 1] = MakePayload(Replay!Next(c).data)
  BY DueIsNext
<1>2. object[s][k] \in Marker
  <2>1. SoFar(stream, object)
    BY DEF RestoreInv, Reading
  <2> QED BY <2>1, MarkerInStream
<1>3. Apply(c, img, object[s][k], d)
        = Apply(c, img, Replay!Next(c).marker, Replay!Next(c).data)
  <2>1. CASE HasPayload(object[s][k])
    BY <1>1, <2>1 DEF MakePayload
  <2>2. CASE ~HasPayload(object[s][k])
    BY <1>1, <1>2, <2>2, NoPayload
  <2> QED BY <2>1, <2>2
<1>4. Replay!ReplayChunk(c)
  BY <1>1, <1>3, SameStream DEF Replay!ReplayChunk, Class
<1> QED BY <1>4, SameStream DEF Replay!ReplayNext

-----------------------------------------------------------------------------
\* The steps of drain_small_file_shard().
LEMMA SmallSteps ==
  ASSUME RestoreInv, UNCHANGED storeVars,
         \/ SmallControl \/ SmallDataMarker \/ SmallData
         \/ SmallReject \/ SmallShort \/ SmallEof
  PROVE  Replay!ReplayNext \/ UNCHANGED Replay!replayVars
<1> USE ShardAssumption
<1> DEFINE s == SmallShard
           k == taken(sent, s) + 1
<1>1. /\ Reading(stream, object, sent)
      /\ stream' = stream /\ object' = object /\ cut' = cut
      /\ s \in Shard /\ s \in ShardsOf("small") /\ "small" \in Class
      /\ s \notin OfPending
  <2>1. \A p \in pending_markers : p.shard \in MainShard
    BY DEF RestoreInv, Reading, ReaderTyped, PendingMarker
  <2>2. s \notin OfPending
    BY <2>1 DEF OfPending
  <2> QED BY <2>2 DEF RestoreInv, storeVars, Shard, ShardsOf, Class
<1>2. ASSUME phase = "small", pipe[s] # << >>
      PROVE  /\ Head(pipe[s]) = object[s][k] /\ k \in 1..Len(object[s])
             /\ object[s][k].kind = "marker"
             /\ object[s][k].seq = next_seq["small"]
  <2>1. ~HeldFrom(s)
    BY <1>2 DEF HeldFrom
  <2>2. /\ k \in 1..Len(object[s])
        /\ Head(pipe[s]) = object[s][k]
        /\ object[s][k].kind = "marker"
        /\ object[s][k] \in Marker
        /\ object[s][k].seq >= next_seq["small"]
        /\ object[s][k].seq + 1 \in 1..Len(stream["small"])
    BY <1>1, <1>2, <2>1, HeadIsMarker
  <2>3. object[s][k].seq \in Nat /\ next_seq["small"] \in Nat /\ Len(stream["small"]) \in Nat
    <3>1. object[s][k].seq \in Nat
      BY <2>2 DEF Marker
    <3> QED BY <1>1, <3>1, Counted
  <2>4. next_seq["small"] < Len(stream["small"])
    BY <2>2, <2>3
  <2>5. PICK i \in 1..Len(object[s]) :
           object[s][i].kind = "marker" /\ object[s][i].seq = next_seq["small"]
    BY <1>1, <2>4, NextIsStored DEF ShardsOf
  <2>6. i = k
    BY <1>1, <1>2, <2>5, SmallHeadIsDue
  <2> QED BY <2>2, <2>5, <2>6
<1>3. CASE SmallControl
  <2>1. /\ phase = "small" /\ phase' = "small" /\ pipe[s] # << >>
        /\ CanApply("small", img, Head(pipe[s]))
        /\ ~HasPayload(Head(pipe[s]))
        /\ img' = Apply("small", img, Head(pipe[s]), << >>)
        /\ next_seq' = [next_seq EXCEPT !["small"] = @ + 1]
    BY <1>3 DEF SmallControl, SmallMarkerOk, Advance
  <2> HIDE DEF k
  <2> QED BY <1>1, <1>2, <2>1, Replayed
<1>4. CASE SmallDataMarker
  <2>1. phase = "small" /\ phase' = "small_data" /\ UNCHANGED <<next_seq, img>>
    BY <1>4 DEF SmallDataMarker
  <2> QED BY <1>1, <2>1, Unseen
<1>5. CASE SmallData
  <2>1. /\ phase = "small_data" /\ phase' = "small" /\ pipe[s] # << >>
        /\ img' = Apply("small", img, held, Head(pipe[s]).data)
        /\ next_seq' = [next_seq EXCEPT !["small"] = @ + 1]
    BY <1>5 DEF SmallData, HasSlot, Advance
  <2>2. HeldFrom(s)
    BY <1>1, <2>1 DEF HeldFrom, Reading, ShardsAccounted, Running
  <2>3. /\ taken(sent, s) \in 1..Len(object[s]) /\ held = object[s][taken(sent, s)]
        /\ held \in Marker /\ held.seq = next_seq["small"]
        /\ Head(pipe[s]) = object[s][taken(sent, s) + 1]
        /\ CanApply("small", img, held)
    BY <1>1, <2>1, <2>2, HeldPayload
  <2>4. held.kind = "marker"
    BY <2>3 DEF Marker
  <2> QED BY <1>1, <2>1, <2>3, <2>4, Replayed
<1>6. CASE SmallReject
  <2>1. /\ phase = "small" /\ phase' = "failed" /\ pipe[s] # << >>
        /\ ~SmallMarkerOk(Head(pipe[s])) /\ UNCHANGED <<next_seq, img>>
    BY <1>6 DEF SmallReject, Fail
  <2>2. ~CanApply("small", img, object[s][k])
    BY <1>2, <2>1 DEF SmallMarkerOk
  <2>3. Replay!Remains("small") /\ Replay!Next("small").marker = object[s][k]
    <3> HIDE DEF k
    <3> QED BY <1>1, <1>2, <2>1, DueIsNext
  <2>4. Replay!Malformed("small")
    BY <2>2, <2>3, SameStream DEF Replay!Malformed, Replay!Applicable
  <2>5. Replay!Refuse
    BY <1>1, <2>1, <2>4, Refused
  <2> QED BY <2>5 DEF Replay!ReplayNext
<1>7. ASSUME phase = "small", pipe[s] = << >>, ending[s] # "open", cut = {}
      PROVE  ~Replay!Remains("small")
  <2> SUFFICES ASSUME Replay!Remains("small")
               PROVE  FALSE
    OBVIOUS
  <2>1. taken(sent, s) = Len(object[s]) /\ Len(object[s]) \in Nat
    BY <1>1, <1>7, EmptyAtEnd, Counted
  <2>2. ~HeldFrom(s)
    BY <1>7 DEF HeldFrom
  <2>3. next_seq["small"] < Len(stream["small"])
    BY DEF Replay!Remains
  <2>4. PICK i \in 1..Len(object[s]) :
           object[s][i].kind = "marker" /\ object[s][i].seq = next_seq["small"]
    BY <1>1, <2>3, NextIsStored DEF ShardsOf
  <2>5. i > taken(sent, s)
    BY <1>1, <1>7, <2>2, <2>4, DueIsAhead
  <2> QED BY <2>1, <2>5
<1>8. CASE SmallShort
  <2>1. /\ pipe[s] = << >> /\ ending[s] # "open"
        /\ phase \in {"small", "small_data"} /\ phase' = "failed"
        /\ (phase = "small" /\ AtEof(s)) => img.metadata = None
        /\ UNCHANGED <<next_seq, img>>
    BY <1>8 DEF SmallShort, Fail
  <2>2. ending[s] \in {"eof", "torn"}
    BY <1>1, <2>1 DEF Reading, ReaderTyped
  <2>3. ASSUME phase = "small"
        PROVE  Replay!Refuse
    <3>1. cut = {} => img.metadata = None
      BY <1>1, <2>1, <2>2, <2>3, EmptyAtEnd DEF AtEof
    <3>2. cut # {} \/ Replay!Malformed("small")
      BY <1>7, <2>1, <2>3, <3>1 DEF Replay!Malformed
    <3> QED BY <1>1, <2>1, <3>2, Refused
  <2>4. ASSUME phase = "small_data"
        PROVE  Replay!Refuse
    <3>1. HeldFrom(s)
      BY <1>1, <2>4 DEF HeldFrom, Reading, ShardsAccounted, Running
    <3>2. cut # {}
      BY <1>1, <2>1, <3>1, PayloadIsStored
    <3> QED BY <1>1, <2>1, <3>2, Refused
  <2>5. Replay!Refuse
    BY <2>1, <2>3, <2>4
  <2> QED BY <2>5 DEF Replay!ReplayNext
<1>9. CASE SmallEof
  <2>1. /\ phase = "small" /\ phase' = "select" /\ AtEof(s) /\ img.metadata # None
        /\ UNCHANGED <<next_seq, img>>
    BY <1>9 DEF SmallEof
  <2>2. ~Replay!Remains("small") \/ cut # {}
    BY <1>7, <2>1 DEF AtEof
  <2>3. Replay!EndSmall
    BY <1>1, <2>1, <2>2 DEF Replay!EndSmall
  <2> QED BY <2>3 DEF Replay!ReplayNext
<1> QED BY <1>3, <1>4, <1>5, <1>6, <1>8, <1>9

-----------------------------------------------------------------------------
\* drain_all() gives up its last shard only when nothing of the stream is left,
\* unless a shard was cut.
LEMMA NothingRemains ==
  ASSUME RestoreInv, Selecting, shards = {}, readable_shards = {}, cut = {}
  PROVE  ~Replay!Remains("main")
<1> SUFFICES ASSUME Replay!Remains("main")
             PROVE  FALSE
  OBVIOUS
<1>1. Reading(stream, object, sent) /\ "main" \in Class /\ next_seq["main"] < Len(stream["main"])
  BY DEF RestoreInv, Replay!Remains, Class
<1>2. PICK s \in MainShard : \E i \in 1..Len(object[s]) :
        object[s][i].kind = "marker" /\ object[s][i].seq = next_seq["main"]
  BY <1>1, NextIsStored DEF ShardsOf
<1>3. PICK i \in 1..Len(object[s]) :
        object[s][i].kind = "marker" /\ object[s][i].seq = next_seq["main"]
  BY <1>2
<1>4. s \in Gone /\ i > taken(sent, s)
  BY <1>1, <1>3, NoneIsLeft
<1>5. s \in Shard /\ pipe[s] = << >> /\ ending[s] # "open"
  BY <1>1, <1>4 DEF Reading, ShardsAccounted, AtEof, Shard
<1>6. taken(sent, s) = Len(object[s]) /\ Len(object[s]) \in Nat
  BY <1>1, <1>5, EmptyAtEnd, Counted
<1> QED BY <1>4, <1>6

\* The steps that choose a shard.
LEMMA SelectSteps ==
  ASSUME RestoreInv, UNCHANGED storeVars,
         \/ PollShards \/ ReturnFromDrainAll
         \/ \E s \in MainShard : PopReadable(s) \/ PopLoneShard(s)
  PROVE  Replay!ReplayNext \/ UNCHANGED Replay!replayVars
<1>1. stream' = stream /\ cut' = cut /\ "main" \in Class
  BY DEF storeVars, Class
<1>2. CASE PollShards \/ \E s \in MainShard : PopReadable(s) \/ PopLoneShard(s)
  <2>1. /\ phase = "select" /\ phase' \in {"select", "read"}
        /\ UNCHANGED <<next_seq, img>>
    BY <1>2 DEF PollShards, PopReadable, PopLoneShard, Selecting
  <2> QED BY <1>1, <2>1, Unseen
<1>3. CASE ReturnFromDrainAll
  <2>1. /\ phase = "select" /\ Selecting /\ shards = {} /\ readable_shards = {}
        /\ UNCHANGED <<next_seq, img>>
        /\ phase' = IF img.image_eof THEN "done" ELSE "failed"
    BY <1>3 DEF ReturnFromDrainAll, Selecting
  <2>2. cut # {} \/ ~Replay!Remains("main")
    BY <2>1, NothingRemains
  <2>3. CASE img.image_eof
    <3>1. Replay!Accept
      BY <1>1, <2>1, <2>2, <2>3 DEF Replay!Accept
    <3> QED BY <3>1 DEF Replay!ReplayNext
  <2>4. CASE ~img.image_eof
    <3>1. cut # {} \/ Replay!Malformed("main")
      BY <2>2, <2>4 DEF Replay!Malformed
    <3>2. Replay!Refuse
      BY <1>1, <2>1, <2>4, <3>1, Refused
    <3> QED BY <3>2 DEF Replay!ReplayNext
  <2> QED BY <2>3, <2>4
<1> QED BY <1>2, <1>3

\* The steps of drain_shard().
LEMMA ReadSteps ==
  ASSUME RestoreInv, UNCHANGED storeVars, ReadMarker \/ ReadEof \/ ReadShort \/ ProcessData
  PROVE  Replay!ReplayNext \/ UNCHANGED Replay!replayVars
<1> USE ShardAssumption
<1>0. PICK s : s = picked
  OBVIOUS
<1>1. /\ Reading(stream, object, sent) /\ ReaderTyped(object, sent) /\ ShardsAccounted
      /\ stream' = stream /\ cut' = cut /\ object' = object /\ "main" \in Class
      /\ phase \in {"read", "data"}
  BY DEF RestoreInv, Reading, storeVars, Class, ReadMarker, ReadEof, ReadShort, ProcessData
<1>2. s \in MainShard /\ s \in ShardsOf("main") /\ s \in Shard /\ s # SmallShard
  <2>1. picked # None
    BY <1>1 DEF ShardsAccounted, Running
  <2> QED BY <1>0, <1>1, <2>1 DEF ReaderTyped, ShardsOf, Shard
<1>3. CASE ReadMarker
  <2>1. phase = "read" /\ pipe[s] # << >>
    BY <1>0, <1>3 DEF ReadMarker
  <2>2. Head(pipe[s]).kind = "marker" /\ ~img.image_eof
    BY <1>0, <1>1, <2>1, NothingBehindEof
  <2>5. HasSlot(picked, "marker")
    BY <1>0, <2>1, <2>2 DEF HasSlot
  <2>6. phase' = "select" /\ UNCHANGED <<next_seq, img>>
    BY <1>3, <2>2, <2>5 DEF ReadMarker
  <2> QED BY <1>1, <2>1, <2>6, Unseen
<1>4. CASE ReadEof
  <2>1. phase' = "select" /\ UNCHANGED <<next_seq, img>>
    BY <1>4 DEF ReadEof
  <2> QED BY <1>1, <2>1, Unseen
<1>5. CASE ReadShort
  <2>1. /\ pipe[s] = << >> /\ ending[s] # "open" /\ phase' = "failed"
        /\ UNCHANGED <<next_seq, img>>
        /\ phase = "read" => ending[s] = "torn"
    BY <1>0, <1>5 DEF ReadShort, Fail, AtEof, AtTear
  <2>2. CASE phase = "read"
    <3>1. cut # {}
      BY <1>2, <2>1, <2>2, EmptyAtEnd
    <3>2. Replay!Refuse
      BY <1>1, <2>1, <3>1, Refused
    <3> QED BY <3>2 DEF Replay!ReplayNext
  <2>3. CASE phase = "data"
    <3>1. HeldFrom(s)
      BY <1>0, <1>1, <1>2, <2>3 DEF HeldFrom, ShardsAccounted, Running
    <3>2. cut # {}
      BY <1>2, <2>1, <3>1, PayloadIsStored
    <3>3. Replay!Refuse
      BY <1>1, <2>1, <3>2, Refused
    <3> QED BY <3>3 DEF Replay!ReplayNext
  <2> QED BY <1>1, <2>2, <2>3
<1>6. CASE ProcessData
  <2>1. /\ phase = "data" /\ phase' = "select" /\ pipe[s] # << >>
        /\ img' = Apply("main", img, held, Head(pipe[s]).data)
        /\ next_seq' = [next_seq EXCEPT !["main"] = @ + 1]
    BY <1>0, <1>6 DEF ProcessData, HasSlot, Advance
  <2>2. HeldFrom(s)
    BY <1>0, <1>1, <1>2, <2>1 DEF HeldFrom, ShardsAccounted, Running
  <2>3. /\ taken(sent, s) \in 1..Len(object[s]) /\ held = object[s][taken(sent, s)]
        /\ held \in Marker /\ held.seq = next_seq["main"]
        /\ Head(pipe[s]) = object[s][taken(sent, s) + 1]
        /\ CanApply("main", img, held)
    BY <1>1, <1>2, <2>1, <2>2, HeldPayload
  <2>4. held.kind = "marker"
    BY <2>3 DEF Marker
  <2> QED BY <1>1, <1>2, <2>1, <2>3, <2>4, Replayed
<1> QED BY <1>3, <1>4, <1>5, <1>6

\* The steps of process_marker().
LEMMA ProcessSteps ==
  ASSUME RestoreInv, UNCHANGED storeVars, NEW p \in pending_markers,
         ProcessControl(p) \/ ProcessDataMarker(p) \/ ProcessReject(p)
  PROVE  Replay!ReplayNext \/ UNCHANGED Replay!replayVars
<1> DEFINE s == p.shard
           k == taken(sent, s)
<1>1. /\ Reading(stream, object, sent) /\ stream' = stream /\ cut' = cut /\ "main" \in Class
      /\ phase = "select" /\ p \in InOrder
  BY DEF RestoreInv, storeVars, Class, ProcessControl, ProcessDataMarker, ProcessReject
<1>2. /\ s \in ShardsOf("main") /\ k \in 1..Len(object[s]) /\ p.marker = object[s][k]
      /\ object[s][k].kind = "marker" /\ object[s][k].seq = next_seq["main"]
  BY <1>1, DueMarker
<1> HIDE DEF k
<1>3. CASE ProcessControl(p)
  <2>1. /\ phase' = "select" /\ CanApply("main", img, p.marker) /\ ~HasPayload(p.marker)
        /\ img' = Apply("main", img, p.marker, << >>)
        /\ next_seq' = [next_seq EXCEPT !["main"] = @ + 1]
    BY <1>3 DEF ProcessControl, MarkerOk, Advance
  <2> QED BY <1>1, <1>2, <2>1, Replayed
<1>4. CASE ProcessDataMarker(p)
  <2>1. phase' = "data" /\ UNCHANGED <<next_seq, img>>
    BY <1>4 DEF ProcessDataMarker
  <2> QED BY <1>1, <2>1, Unseen
<1>5. CASE ProcessReject(p)
  <2>1. /\ ~MarkerOk(p) /\ phase' = "failed" /\ UNCHANGED <<next_seq, img>>
    BY <1>5 DEF ProcessReject, Fail
  <2>2. /\ Replay!Remains("main") /\ Replay!Next("main").marker = object[s][k]
        /\ object[s][k].body = "ImageEof" => next_seq["main"] + 1 = Len(stream["main"])
    BY <1>1, <1>2, DueIsNext
  <2>3. ASSUME p.marker.body = "ImageEof", NEW q \in pending_markers, q # p
        PROVE  FALSE
    BY <1>1, <2>3, EofIsLast
  <2>4. ~CanApply("main", img, p.marker)
    BY <2>1, <2>3 DEF MarkerOk
  <2>5. Replay!Malformed("main")
    BY <1>2, <2>2, <2>4, SameStream DEF Replay!Malformed, Replay!Applicable
  <2>6. Replay!Refuse
    BY <1>1, <2>1, <2>5, Refused
  <2> QED BY <2>6 DEF Replay!ReplayNext
<1> QED BY <1>3, <1>4, <1>5

-----------------------------------------------------------------------------
LEMMA InitReplays ==
  Init => Replay!ReplayInit
<1> SUFFICES ASSUME Init
             PROVE  Replay!ReplayInit
  OBVIOUS
<1>1. /\ phase = "small" /\ cut = {} /\ img = EmptyImage
      /\ next_seq = [c \in Class |-> 0]
  BY DEF Init, DeserializerInit
<1> QED BY <1>1, SameStream DEF Replay!ReplayInit

\* Every step is one of the replay, or not seen by it.
LEMMA NextReplays ==
  RestoreInv /\ [Next]_vars => [Replay!ReplayNext]_(Replay!replayVars)
<1> SUFFICES ASSUME RestoreInv, [Next]_vars
             PROVE  Replay!ReplayNext \/ UNCHANGED Replay!replayVars
  OBVIOUS
<1>1. ASSUME NEW s \in Shard, Deliver(s) \/ EndDelivery(s)
      PROVE  UNCHANGED Replay!replayVars
  <2>1. UNCHANGED <<stream, next_seq, img, cut, phase>>
    BY <1>1 DEF Deliver, EndDelivery, storeVars, deserializerVars
  <2> QED BY <2>1, Unseen
<1>2. ASSUME NEW s \in Shard, NEW how \in {"eof", "torn"}, Truncate(s, how)
      PROVE  Replay!ReplayNext \/ UNCHANGED Replay!replayVars
  <2>1. /\ UNCHANGED <<stream, next_seq, img, phase>>
        /\ cut' = cut \cup {s}
    BY <1>2 DEF Truncate, deserializerVars
  <2>2. CASE cut = {}
    <3>1. Replay!Damage
      BY <2>1, <2>2 DEF Replay!Damage
    <3> QED BY <3>1 DEF Replay!ReplayNext
  <2>3. CASE cut # {}
    BY <2>1, <2>3, Unseen
  <2> QED BY <2>2, <2>3
<1>3. CASE Read
  <2>1. UNCHANGED storeVars /\ DeserializerNext
    BY <1>3 DEF Read
  <2> QED BY <2>1, SmallSteps, SelectSteps, ReadSteps, ProcessSteps DEF DeserializerNext
<1>4. CASE Returned \/ UNCHANGED vars
  <2>1. UNCHANGED <<stream, next_seq, img, cut, phase>>
    BY <1>4 DEF Returned, vars, storeVars, deserializerVars
  <2> QED BY <2>1, Unseen
<1> QED BY <1>1, <1>2, <1>3, <1>4 DEF Next

\* Extract implements the sequential replay: from however many shards, in
\* whatever order their slots arrive and wherever any of them is cut, it
\* applies the chunks one by one in the order of their numbers, accepts
\* exactly where the replay does, and gives up only with a reason for which
\* the replay may.
THEOREM RestoreReplays == Spec => RefinesReplay
<1> QED BY InitReplays, NextReplays, InvHolds, PTL DEF Spec, RefinesReplay, Replay!ReplaySpec

-----------------------------------------------------------------------------
\* Migration: the chunks so far, of a capture that is still writing them.

\* All that was ever put in the pipes.
Lens(obj) == [s \in Shard |-> Len(obj[s])]

\* What the files, and the chunks of capture(), have come to is of a stream
\* that goes on.
LEMMA CarriedSoFar ==
  ASSUME NEW str, NEW obj, Carried(str, obj)', Ends(str)'
  PROVE  SoFar(str, obj)
<1>1. Streams(str)' /\ Placed(str, obj)' /\ Ordered(obj)'
  BY DEF Carried
<1>2. /\ str \in [Class -> Seq(Chunk)]
      /\ \A c \in Class : \A k \in 1..Len(str[c]) :
           str[c][k].marker.seq = k - 1 /\ Proper(c, str[c][k])
  BY <1>1 DEF Streams
<1>3. \A c \in Class : \A k \in 1..Len(str[c]) :
        /\ str[c][k].marker.seq = k - 1
        /\ str[c][k].marker.body = "Filename" <=> str[c][k].marker.file # None
        /\ c = "main" => str[c][k].marker.file # MetadataFile
        /\ c = "small" => str[c][k].marker.body # "ImageEof"
  BY <1>2 DEF Proper
<1>4. /\ \/ EndsWithMetadata(str["small"])
         \/ \A k \in 1..Len(str["small"]) : str["small"][k].marker.file # MetadataFile
      /\ \/ EndsWithImageEof(str["main"])
         \/ \A k \in 1..Len(str["main"]) : str["main"][k].marker.body # "ImageEof"
  <2>1. \/ finished' /\ (EndsWithMetadata(str["small"]) /\ EndsWithImageEof(str["main"]))'
        \/ /\ ~finished'
           /\ \A k \in 1..Len(str["small"]) : str["small"][k].marker.file # MetadataFile
           /\ \A k \in 1..Len(str["main"]) : str["main"][k].marker.body # "ImageEof"
    BY DEF Ends
  <2> QED BY <2>1 DEF EndsWithMetadata, EndsWithImageEof
<1>5. obj \in [Shard -> Seq(Slot)]
  BY <1>1 DEF Placed
<1>6. ASSUME NEW c \in Class, NEW s \in ShardsOf(c)
      PROVE  FramedSoFar(str, obj, c, s) /\ Increasing(obj, s)
  <2>1. \A i \in 1..Len(obj[s]) :
          /\ obj[s][i].kind = "marker" =>
               LET n == obj[s][i].seq + 1
               IN  /\ n \in 1..Len(str[c])
                   /\ obj[s][i] = str[c][n].marker
                   /\ HasPayload(obj[s][i]) /\ i # Len(obj[s]) =>
                        obj[s][i+1] = MakePayload(str[c][n].data)
          /\ obj[s][i].kind = "payload" =>
               /\ i - 1 \in 1..Len(obj[s])
               /\ obj[s][i-1].kind = "marker"
               /\ HasPayload(obj[s][i-1])
    BY <1>1 DEF Placed
  <2>2. FramedSoFar(str, obj, c, s)
    BY <2>1 DEF FramedSoFar
  <2>3. Increasing(obj, s)
    BY <1>1, ShardsAre DEF Ordered, Increasing
  <2> QED BY <2>2, <2>3
<1>7. NoTwice(obj)
  BY <1>1 DEF Ordered, NoTwice
<1> QED BY <1>2, <1>3, <1>4, <1>5, <1>6, <1>7 DEF SoFar

\* Once capture() has ended, nothing more is numbered, nor any file read.
LEMMA EndIsEnd ==
  ASSUME LoopTyped, finished, [LoopNext]_loopVars, Idle => target = None
  PROVE  /\ finished' /\ UNCHANGED <<seq, metadata, file_state, drained>>
         /\ Idle => Idle'
<1>1. ~expecting /\ \A f \in File : file_state[f] # "open"
  BY DEF LoopTyped
<1>2. CASE ClientStep
  BY <1>1, <1>2 DEF ClientStep, ClientCreate, OpenFile, LastRequest, ClientWrite, ClientClose,
     Idle, serializerVars
<1>3. ASSUME NEW f \in File, DrainReady(f)
      PROVE  FALSE
  BY <1>1, <1>3 DEF DrainReady, FileReady
<1>4. CASE EndCapture
  BY <1>4 DEF EndCapture, WriteImageEof
<1>5. CASE WriteShards
  <2>1. CASE WritePayload
    <3>1. UNCHANGED <<seq, metadata, file_state, drained, finished>> /\ ~Idle
      BY <2>1 DEF WritePayload
    <3> QED BY <3>1
  <2>2. CASE \E s \in Shard : WriteMarker(s)
    BY <2>2 DEF WriteMarker
  <2>3. CASE CloseShards
    BY <2>3 DEF CloseShards, serializerVars, Idle
  <2> QED BY <1>5, <2>1, <2>2, <2>3 DEF WriteShards
<1>6. CASE Exited \/ UNCHANGED loopVars
  BY <1>6 DEF Exited, loopVars, serializerVars, Idle
<1> QED BY <1>2, <1>3, <1>4, <1>5, <1>6 DEF LoopNext, CaptureStep

LEMMA StreamStays ==
  ASSUME LoopTyped, finished, [LoopNext]_loopVars, Idle => target = None,
         NEW str, NEW new, Streams(str), Streams(new)', Continues(str, new)
  PROVE  new = str
<1>1. seq' = seq
  BY EndIsEnd
<1>2. /\ str \in [Class -> Seq(Chunk)] /\ new \in [Class -> Seq(Chunk)]
      /\ \A c \in Class : Len(str[c]) = seq[c] /\ Len(new[c]) = seq[c]
  BY <1>1 DEF Streams
<1>3. ASSUME NEW c \in Class
      PROVE  new[c] = str[c]
  <2>1. /\ new[c] \in Seq(Chunk) /\ str[c] \in Seq(Chunk) /\ Len(new[c]) = Len(str[c])
        /\ \A k \in 1..Len(str[c]) : new[c][k] = str[c][k]
    BY <1>2 DEF Continues
  <2> QED BY <2>1, SeqEqual
<1> QED BY <1>2, <1>3

\* A shard ends when all is written.
Lasting == \A s \in Shard : ending[s] # "open" => finished /\ Idle

LEMMA EndingMoves ==
  ASSUME [LoopNext]_loopVars
  PROVE  \/ ending' = ending
         \/ /\ ending' = [s \in Shard |-> "eof"]
            /\ finished /\ Idle /\ UNCHANGED <<pipe, serializerVars>>
BY DEF LoopNext, ClientStep, CaptureStep, ClientCreate, OpenFile, LastRequest, ClientWrite,
       ClientClose, DrainReady, DrainImgFile, EndCapture, WriteImageEof, WriteShards,
       WritePayload, WriteMarker, CloseShards, Exited, loopVars, pipeVars

LEMMA LastingNext ==
  ASSUME LoopTyped, Lasting, [LoopNext]_loopVars, Idle => target = None
  PROVE  Lasting'
<1>1. CASE ending' = ending
  <2> SUFFICES ASSUME NEW s \in Shard, ending'[s] # "open"
               PROVE  finished' /\ Idle'
    BY DEF Lasting
  <2>1. finished /\ Idle
    BY <1>1 DEF Lasting
  <2> QED BY <2>1, EndIsEnd
<1>2. CASE finished /\ Idle
  BY <1>2, EndIsEnd DEF Lasting
<1> QED BY <1>1, <1>2, EndingMoves

\* What was applied stays behind the ends of the streams.
LEMMA EndsGoOn ==
  ASSUME LoopTyped, [LoopNext]_loopVars, Idle => target = None,
         NEW str, NEW new, Streams(str), Streams(new)', Ends(str), Continues(str, new),
         next_seq \in [Class -> Nat], EndsReached(str)
  PROVE  EndsReached(new)
<1>1. CASE finished
  BY <1>1, StreamStays
<1>2. CASE ~finished
  <2>1. /\ \A k \in 1..Len(str["small"]) : str["small"][k].marker.file # MetadataFile
        /\ \A k \in 1..Len(str["main"]) : str["main"][k].marker.body # "ImageEof"
    BY <1>2 DEF Ends
  <2>2. \A c \in Class : Len(str[c]) \in Nat /\ Len(new[c]) \in Nat
    BY DEF Streams
  <2>3. ~EndsWithMetadata(str["small"]) /\ ~EndsWithImageEof(str["main"])
    <3>1. "small" \in Class /\ "main" \in Class
      BY DEF Class
    <3>2. Len(str["small"]) \in Nat /\ Len(str["main"]) \in Nat
      BY <2>2, <3>1
    <3>3. ~EndsWithMetadata(str["small"])
      <4> SUFFICES ASSUME EndsWithMetadata(str["small"])
                   PROVE  FALSE
        OBVIOUS
      <4>1. PICK n \in Nat : n = Len(str["small"])
        BY <3>2
      <4>2. n >= 3 /\ \A k \in 1..n : str["small"][k].marker.file = MetadataFile <=> k = n - 2
        BY <4>1 DEF EndsWithMetadata
      <4>3. n - 2 \in 1..n
        BY <4>2
      <4> QED BY <2>1, <4>1, <4>2, <4>3
    <3>4. ~EndsWithImageEof(str["main"])
      <4> SUFFICES ASSUME EndsWithImageEof(str["main"])
                   PROVE  FALSE
        OBVIOUS
      <4>1. PICK n \in Nat : n = Len(str["main"])
        BY <3>2
      <4>2. n >= 1 /\ \A k \in 1..n : str["main"][k].marker.body = "ImageEof" <=> k = n
        BY <4>1 DEF EndsWithImageEof
      <4>3. n \in 1..n
        BY <4>2
      <4> QED BY <2>1, <4>1, <4>2, <4>3
    <3> QED BY <3>3, <3>4
  <2>4. \A c \in Class : next_seq[c] <= Len(new[c])
    <3> TAKE c \in Class
    <3>1. next_seq[c] <= Len(str[c]) /\ Len(str[c]) <= Len(new[c]) /\ next_seq[c] \in Nat
      BY DEF EndsReached, Continues
    <3> QED BY <2>2, <3>1
  <2> QED BY <2>3, <2>4 DEF EndsReached
<1> QED BY <1>1, <1>2

\* What capture() puts in a pipe comes behind what was there, and leaves the
\* reader where it is.
LEMMA PutsReading ==
  ASSUME LoopTyped, [LoopNext]_loopVars, Idle => target = None, UNCHANGED deserializerVars,
         NEW str, NEW obj, NEW put, put = Lens(obj), Streams(str), Ends(str),
         Reading(str, obj, put),
         NEW new, NEW wrote, NEW more, more = Lens(wrote),
         Carried(new, wrote)', Ends(new)', Continues(str, new), Puts(obj, wrote)
  PROVE  Reading(new, wrote, more)'
<1>1. /\ ReaderTyped(obj, put) /\ Fifo(obj, put) /\ EndsReached(str)
      /\ next_seq \in [Class -> Nat] /\ obj \in [Shard -> Seq(Slot)] /\ put \in [Shard -> Nat]
      /\ pipe \in [Shard -> Seq(Slot)]
  BY DEF Reading, ReaderTyped
<1>2. SoFar(new, wrote) /\ wrote \in [Shard -> Seq(Slot)]
  <2>1. SoFar(new, wrote)
    BY CarriedSoFar
  <2> QED BY <2>1 DEF SoFar
<1>3. EndsReached(new)
  <2>1. Streams(new)'
    BY DEF Carried
  <2> QED BY <1>1, <2>1, EndsGoOn
<1>4. ending' \in [Shard -> {"open", "eof", "torn"}]
  BY LoopTypedNext DEF LoopTyped
<1>5. CASE pipe' = pipe /\ wrote = obj
  <2>1. more = put /\ GoesOn(obj, wrote)
    <3>1. \A s \in Shard : Len(obj[s]) \in Nat
      BY <1>1
    <3> QED BY <1>5, <3>1 DEF GoesOn
  <2>2. \A s \in Shard : taken(more, s)' = taken(put, s)
    BY <1>5, <2>1 DEF taken
  <2>3. \A s \in Shard : AtEof(s) => AtEof(s)'
    BY <1>5, EndingMoves DEF AtEof
  <2>4. Fifo(wrote, more)'
    <3>1. Fifo(obj, put)'
      BY <1>1, <1>5, <2>1, <2>2 DEF Fifo
    <3> QED BY <1>5, <2>1, <3>1 DEF Fifo, taken
  <2>5. pipe' \in [Shard -> Seq(Slot)] /\ more \in [Shard -> Nat]
    BY <1>1, <1>5, <2>1
  <2> QED BY <1>2, <1>3, <1>4, <2>1, <2>2, <2>3, <2>4, <2>5, EnvironmentStep
<1>6. ASSUME NEW s \in Shard, NEW slot \in Slot,
             ending[s] = "open", ~(finished /\ Idle), ending' = ending,
             pipe' = [pipe EXCEPT ![s] = Append(@, slot)],
             wrote = [obj EXCEPT ![s] = Append(@, slot)]
      PROVE  Reading(new, wrote, more)'
  <2>1. /\ obj[s] \in Seq(Slot) /\ Len(obj[s]) \in Nat
        /\ put[s] = Len(obj[s]) /\ \A t \in Shard : put[t] = Len(obj[t]) /\ Len(obj[t]) \in Nat
    BY <1>1 DEF Lens
  <2>2. /\ wrote[s] = Append(obj[s], slot)
        /\ \A t \in Shard \ {s} : wrote[t] = obj[t]
    BY <1>1, <1>6
  <2>3. /\ Len(wrote[s]) = Len(obj[s]) + 1
        /\ wrote[s][Len(obj[s]) + 1] = slot
        /\ \A i \in 1..Len(obj[s]) : wrote[s][i] = obj[s][i]
    BY <1>6, <2>1, <2>2
  <2>4. more = [put EXCEPT ![s] = @ + 1]
    <3>1. \A t \in Shard : more[t] = IF t = s THEN put[s] + 1 ELSE put[t]
      BY <2>1, <2>2, <2>3 DEF Lens
    <3>2. more = [t \in Shard |-> more[t]]
      BY DEF Lens
    <3> QED BY <1>1, <3>1, <3>2
  <2>5. GoesOn(obj, wrote)
    BY <2>1, <2>2, <2>3 DEF GoesOn
  <2>6. put[s] < Len(wrote[s]) /\ pipe' = [pipe EXCEPT ![s] = Append(@, wrote[s][put[s] + 1])]
    <3>1. PICK n \in Nat : n = Len(obj[s]) /\ n = put[s]
      BY <2>1
    <3>2. Len(wrote[s]) = n + 1 /\ wrote[s][n + 1] = slot
      BY <2>3, <3>1
    <3>3. put[s] < Len(wrote[s]) /\ wrote[s][put[s] + 1] = slot
      BY ONLY <3>1, <3>2
    <3> QED BY <1>6, <3>3, Zenon
  <2>7. PutsOn(obj, put, wrote, s, more)
    BY <1>1, <1>2, <1>6, <2>4, <2>5, <2>6 DEF PutsOn
  <2>8. /\ Fifo(wrote, more)'
        /\ pipe' \in [Shard -> Seq(Slot)]
        /\ more \in [Shard -> Nat]
        /\ \A t \in Shard : taken(more, t)' = taken(put, t)
        /\ \A t \in Shard : AtEof(t) => AtEof(t)'
    BY ONLY <2>7, PutFifo
  <2> QED BY <1>2, <1>3, <1>4, <2>5, <2>8, EnvironmentStep
<1> QED BY <1>5, <1>6 DEF Puts

-----------------------------------------------------------------------------
\* Migration: the image rebuilt so far is that of a replay.

\* Replays of two streams agree as long as these do.
LEMMA SameStart ==
  ASSUME NEW c, NEW x, NEW a \in Seq(Chunk), NEW q \in Seq(Chunk), Len(a) <= Len(q),
         \A i \in 1..Len(a) : q[i] = a[i],
         NEW at, NEW bt, Replaying(at, c, x, a), Replaying(bt, c, x, q),
         NEW n \in 0..Len(a)
  PROVE  bt[n] = at[n]
<1>1. Len(a) \in Nat /\ Len(q) \in Nat
  OBVIOUS
<1>2. at[0] = x /\ bt[0] = x
  BY DEF Replaying
<1> DEFINE T == {m \in Nat : m <= Len(a) => bt[m] = at[m]}
<1>3. ASSUME NEW m \in T
      PROVE  m + 1 \in T
  <2>1. CASE m + 1 <= Len(a)
    <3>1. m \in 0..(Len(a) - 1) /\ m \in 0..(Len(q) - 1) /\ m + 1 \in 1..Len(a) /\ bt[m] = at[m]
      BY <1>1, <2>1
    <3>2. at[m + 1] = Applied(c, at[m], a[m + 1]) /\ bt[m + 1] = Applied(c, bt[m], q[m + 1])
      BY <3>1 DEF Replaying
    <3>3. q[m + 1] = a[m + 1]
      BY <3>1
    <3> QED BY <3>1, <3>2, <3>3
  <2>2. CASE ~(m + 1 <= Len(a))
    BY <2>2
  <2> QED BY <2>1, <2>2
<1>4. T = Nat
  <2>1. 0 \in T
    BY <1>2
  <2> HIDE DEF T
  <2>2. T \in SUBSET Nat
    BY DEF T
  <2> QED BY <1>3, <2>1, <2>2, SetInduction
<1> QED BY <1>1, <1>4

\* Where the whole stream can be replayed, so can each of its chunks.
LEMMA NoneRefused ==
  ASSUME NEW c, NEW x, NEW q \in Seq(Chunk), NEW at, Replaying(at, c, x, q),
         at[Len(q)] # None, NEW n \in 0..(Len(q) - 1)
  PROVE  at[n] # None /\ CanApply(c, at[n], q[n + 1].marker)
<1>1. PICK l \in Nat : l = Len(q)
  OBVIOUS
<1>2. \A m \in 0..(l - 1) : at[m + 1] # None => at[m] # None /\ CanApply(c, at[m], q[m + 1].marker)
  BY <1>1 DEF Replaying, Applied
<1> DEFINE T == {m \in Nat : m <= l => at[l - m] # None}
<1>3. ASSUME NEW m \in T
      PROVE  m + 1 \in T
  <2>1. CASE m + 1 <= l
    <3>1. l - (m + 1) \in 0..(l - 1) /\ (l - (m + 1)) + 1 = l - m /\ at[l - m] # None
      BY <1>1, <2>1
    <3> QED BY <1>2, <3>1
  <2>2. CASE ~(m + 1 <= l)
    BY <2>2
  <2> QED BY <2>1, <2>2
<1>4. T = Nat
  <2>1. 0 \in T
    BY <1>1
  <2> HIDE DEF T
  <2>2. T \in SUBSET Nat
    BY DEF T
  <2> QED BY <1>3, <2>1, <2>2, SetInduction
<1>5. at[n + 1] # None
  <2>1. l - (n + 1) \in Nat /\ l - (n + 1) <= l /\ l - (l - (n + 1)) = n + 1
    BY <1>1
  <2> QED BY <1>4, <2>1
<1>6. n \in 0..(l - 1)
  BY <1>1
<1> QED BY <1>2, <1>5, <1>6

\* While the small files are read the image is that of the chunks applied so
\* far; by then capture() has ended, the list of files was read, and the rest
\* is a replay of the large ones.
Rebuilt(str) ==
  /\ phase \in {"small", "small_data"} =>
       \E at : /\ Replaying(at, "small", EmptyImage, str["small"])
               /\ img = at[next_seq["small"]]
  /\ phase \in {"select", "read", "data", "done"} =>
       /\ finished /\ next_seq["small"] = Len(str["small"]) /\ img.metadata = metadata
       /\ \E at : /\ Replaying(at, "main", ReplayChunks("small", EmptyImage, str["small"]),
                               str["main"])
                  /\ img = at[next_seq["main"]]

\* str are the chunks numbered so far, obj what was put in the shards of them.
Transported(str, obj, put) ==
  /\ put = Lens(obj)
  /\ Carried(str, obj) /\ Ends(str) /\ Replays(str)
  /\ Reading(str, obj, put)
  /\ Rebuilt(str)

InTransit(str, obj, put) ==
  LoopTyped /\ Sides /\ Lasting /\ phase # "failed" /\ Transported(str, obj, put)

\* An image with nothing of a class.
Without(c, x) ==
  /\ Fresh(x)
  /\ \A f \in OfClass(c) : f \notin x.inserted /\ x.content[f] = << >>

LEMMA EmptyWithout == \A c \in Class : Without(c, EmptyImage)
<1>1. [f \in FileName |-> << >>] \in [FileName -> Seq(Data)]
  OBVIOUS
<1>2. EmptyImage \in Image
  BY <1>1 DEF EmptyImage, Image
<1>3. \A c \in Class : OfClass(c) \subseteq FileName
  BY DEF OfClass, FileName
<1> QED BY <1>2, <1>3 DEF Without, Fresh, EmptyImage

\* What the two streams come to.
LEMMA ReplayedImages ==
  ASSUME LoopTyped, NEW str, Replays(str),
         NEW y, y = ReplayChunks("small", EmptyImage, str["small"]),
         NEW z, z = ReplayChunks("main", y, str["main"])
  PROVE  /\ y \in Image /\ y # None
         /\ finished => /\ y.metadata = metadata /\ Without("main", y)
                        /\ z \in Image /\ z # None /\ z.image_eof
                        /\ \A f \in File : file_state[f] # "absent" => f \in z.inserted
<1>1. "small" \in Class /\ "main" \in Class
  BY DEF Class
<1>2. PICK x : x = EmptyImage
  OBVIOUS
<1>3. Fresh(x)
  BY <1>1, <1>2, EmptyWithout DEF Without
<1>4. Effect("small", x, y)
  BY <1>1, <1>2, <1>3 DEF Replays
<1>5. y \in Image /\ y # None
  BY <1>4, ImageFields DEF Effect
<1>6. ASSUME finished
      PROVE  /\ y.metadata = metadata /\ Without("main", y)
             /\ z \in Image /\ z # None /\ z.image_eof
             /\ \A f \in File : file_state[f] # "absent" => f \in z.inserted
  <2>1. \A c \in Class : \A f \in OfClass(c) : f \in File /\ file_state[f] # "open"
    BY <1>6 DEF OfClass, LoopTyped
  <2>2. Begun(y) = {}
    BY <1>1, <1>4, <2>1 DEF Effect
  <2>3. Fresh(y)
    BY <1>5, <2>2 DEF Fresh, Begun
  <2>4. Effect("main", y, z)
    BY <1>1, <2>3 DEF Replays
  <2>5. z \in Image /\ z # None
    BY <2>4, ImageFields DEF Effect
  <2>6. y.metadata = metadata
    BY <1>4, <1>6 DEF Effect
  <2>7. z.image_eof = TRUE
    BY <1>6, <2>4 DEF Effect
  <2>8. y.inserted = {f \in OfClass("small") : file_state[f] = "removed"}
    <3>1. x.inserted = {}
      BY <1>2 DEF EmptyImage
    <3> QED BY <1>4, <3>1 DEF Effect
  <2>9. \A f \in File : (f \in OfClass("small") \/ f \in OfClass("main"))
                       /\ ~(f \in OfClass("small") /\ f \in OfClass("main"))
    BY DEF OfClass, ClassOf
  <2>10. \A f \in File : file_state[f] # "absent" => f \in z.inserted
    <3>1. z.inserted = y.inserted \cup {f \in OfClass("main") : file_state[f] = "removed"}
      BY <2>4 DEF Effect
    <3>2. \A f \in File : file_state[f] # "absent" => file_state[f] = "removed"
      BY <1>6 DEF LoopTyped
    <3> QED BY <2>8, <2>9, <3>1, <3>2
  <2>11. Without("main", y)
    <3>1. \A f \in OfClass("main") : f \in File \ OfClass("small")
      BY <2>9 DEF OfClass
    <3>2. \A f \in File \ OfClass("small") : y.content[f] = x.content[f]
      BY <1>4 DEF Effect
    <3>3. \A f \in File : x.content[f] = << >>
      BY <1>2 DEF EmptyImage, FileName
    <3> QED BY <2>3, <2>8, <3>1, <3>2, <3>3 DEF Without
  <2> QED BY <2>5, <2>6, <2>7, <2>10, <2>11
<1> QED BY <1>5, <1>6

\* What has ended was written to its end.
LEMMA WrittenToItsEnd ==
  ASSUME NEW str, NEW obj, NEW put, InTransit(str, obj, put),
         NEW s \in Shard, ending[s] # "open"
  PROVE  /\ finished /\ Unwritten = {}
         /\ \A t \in Shard : \A i \in 1..Len(obj[t]) :
              obj[t][i].kind = "marker" /\ HasPayload(obj[t][i]) => i # Len(obj[t])
<1>1. finished /\ outbox = << >>
  BY DEF InTransit, Lasting, Idle
<1>2. Queued(str, obj) /\ Placed(str, obj)
  BY DEF InTransit, Transported, Carried
<1>3. target = None
  BY <1>1, <1>2 DEF Queued
<1>4. 1..Len(outbox) = {}
  BY <1>1
<1>5. ASSUME NEW t \in Shard, NEW i \in 1..Len(obj[t]),
             obj[t][i].kind = "marker", HasPayload(obj[t][i])
      PROVE  i # Len(obj[t])
  <2>1. PICK c \in Class : t \in ShardsOf(c)
    BY ShardsAre
  <2>2. i = Len(obj[t]) => target = t
    BY <1>2, <1>5, <2>1 DEF Placed
  <2> QED BY <1>3, <2>2, ShardsAre
<1> QED BY <1>1, <1>4, <1>5 DEF Unwritten

\* Where a pipe is empty, all that was put in it was taken.
LEMMA AllTaken ==
  ASSUME NEW str, NEW obj, NEW put, InTransit(str, obj, put), NEW s \in Shard, pipe[s] = << >>
  PROVE  taken(put, s) = Len(obj[s]) /\ Len(obj[s]) \in Nat
<1>1. put[s] = Len(obj[s]) /\ obj \in [Shard -> Seq(Slot)]
  BY DEF InTransit, Transported, Lens, Reading, ReaderTyped
<1>2. Len(pipe[s]) = 0 /\ Len(obj[s]) \in Nat
  BY <1>1
<1> QED BY <1>1, <1>2 DEF taken

\* The payload that is being read is not missing from a shard that has ended.
LEMMA NotCutShort ==
  ASSUME NEW str, NEW obj, NEW put, InTransit(str, obj, put), NEW s \in Shard,
         pipe[s] = << >>, ending[s] # "open"
  PROVE  ~HeldFrom(s)
<1> SUFFICES ASSUME HeldFrom(s)
             PROVE  FALSE
  OBVIOUS
<1>1. taken(put, s) = Len(obj[s]) /\ Len(obj[s]) \in Nat
  BY AllTaken
<1>2. FramingKept(obj, put) /\ held \in Marker
  BY DEF InTransit, Transported, Reading, ReaderTyped, HeldFrom
<1>3. HasPayload(held) /\ taken(put, s) > 0 /\ held = obj[s][taken(put, s)]
  BY <1>2 DEF FramingKept
<1>4. Len(obj[s]) \in 1..Len(obj[s]) /\ held = obj[s][Len(obj[s])] /\ held.kind = "marker"
  BY <1>1, <1>2, <1>3 DEF Marker
<1> QED BY <1>3, <1>4, WrittenToItsEnd

\* The next chunk has been put in a shard, or is waiting to be.
LEMMA NextIsPut ==
  ASSUME NEW str, NEW obj, NEW put, InTransit(str, obj, put), NEW c \in Class,
         next_seq[c] < Len(str[c]),
         \A k \in Unwritten : outbox[k].class = c => outbox[k].marker.seq # next_seq[c]
  PROVE  \E s \in ShardsOf(c) : \E i \in 1..Len(obj[s]) :
           obj[s][i].kind = "marker" /\ obj[s][i].seq = next_seq[c]
<1>1. Streams(str) /\ Complete(str, obj) /\ next_seq[c] \in Nat
  BY DEF InTransit, Transported, Carried, Reading, ReaderTyped
<1>2. PICK n \in Nat : n = next_seq[c] + 1
  BY <1>1
<1>3. n \in 1..Len(str[c]) /\ n - 1 = next_seq[c]
  BY <1>1, <1>2 DEF Streams
<1>4. \/ \E s \in ShardsOf(c) : \E i \in 1..Len(obj[s]) : obj[s][i] = str[c][n].marker
      \/ \E k \in Unwritten : outbox[k].class = c /\ outbox[k].marker.seq = n - 1
  BY <1>1, <1>3 DEF Complete
<1>5. \E s \in ShardsOf(c) : \E i \in 1..Len(obj[s]) : obj[s][i] = str[c][n].marker
  BY <1>3, <1>4
<1>6. str[c][n].marker.seq = n - 1 /\ str[c][n].marker.kind = "marker"
  <2>1. str[c][n].marker.seq = n - 1 /\ str[c][n] \in Chunk
    BY <1>1, <1>3 DEF Streams, Proper
  <2> QED BY <2>1 DEF Chunk, Marker
<1> QED BY <1>3, <1>5, <1>6

\* A chunk whose turn has come can be applied.
LEMMA NextCanApply ==
  ASSUME NEW str, NEW obj, NEW put, InTransit(str, obj, put), NEW c \in Class,
         \/ c = "small" /\ phase \in {"small", "small_data"}
         \/ c = "main" /\ phase \in {"select", "read", "data"},
         NEW s \in ShardsOf(c), NEW k \in 1..Len(obj[s]),
         obj[s][k].kind = "marker", obj[s][k].seq = next_seq[c]
  PROVE  CanApply(c, img, obj[s][k])
<1>1. /\ LoopTyped /\ Replays(str) /\ Streams(str) /\ SoFar(str, obj) /\ next_seq[c] \in Nat
      /\ str[c] \in Seq(Chunk) /\ Rebuilt(str)
  BY DEF InTransit, Transported, Carried, Reading, ReaderTyped, SoFar
<1>2. next_seq[c] + 1 \in 1..Len(str[c]) /\ obj[s][k] = str[c][next_seq[c] + 1].marker
  BY <1>1, MarkerInStream
<1>3. PICK n \in 0..(Len(str[c]) - 1) : n = next_seq[c]
  BY <1>1, <1>2
<1>4. PICK y, z : /\ y = ReplayChunks("small", EmptyImage, str["small"])
                  /\ z = ReplayChunks("main", y, str["main"])
  OBVIOUS
<1>5. y # None /\ (finished => z # None)
  BY <1>1, <1>4, ReplayedImages
<1>6. PICK x, at : Replaying(at, c, x, str[c]) /\ img = at[next_seq[c]] /\ at[Len(str[c])] # None
  <2>1. CASE c = "small"
    <3>1. phase \in {"small", "small_data"}
      BY <2>1
    <3>2. PICK at : Replaying(at, "small", EmptyImage, str["small"]) /\ img = at[next_seq["small"]]
      BY <1>1, <3>1 DEF Rebuilt
    <3>3. at[Len(str["small"])] # None
      BY <1>4, <1>5, <3>2 DEF Replaying
    <3> QED BY <2>1, <3>2, <3>3
  <2>2. CASE c = "main"
    <3>1. phase \in {"select", "read", "data", "done"}
      BY <2>2
    <3>2. /\ finished
          /\ \E at : /\ Replaying(at, "main", ReplayChunks("small", EmptyImage, str["small"]),
                                  str["main"])
                     /\ img = at[next_seq["main"]]
      BY <1>1, <3>1 DEF Rebuilt
    <3>3. PICK at : Replaying(at, "main", y, str["main"]) /\ img = at[next_seq["main"]]
      BY <1>4, <3>2
    <3>4. at[Len(str["main"])] # None
      BY <1>4, <1>5, <3>2, <3>3 DEF Replaying
    <3> QED BY <2>2, <3>3, <3>4
  <2> QED BY <2>1, <2>2 DEF Class
<1>7. CanApply(c, at[n], str[c][n + 1].marker)
  BY <1>1, <1>6, NoneRefused
<1> QED BY <1>2, <1>3, <1>6, <1>7

-----------------------------------------------------------------------------
\* Migration: no step of the reader fails.

\* Where the shard of the small files has ended and was read, they are whole.
LEMMA SmallWhole ==
  ASSUME NEW str, NEW obj, NEW put, InTransit(str, obj, put), phase = "small",
         pipe[SmallShard] = << >>, ending[SmallShard] # "open"
  PROVE  /\ finished /\ next_seq["small"] = Len(str["small"])
         /\ img = ReplayChunks("small", EmptyImage, str["small"])
         /\ img.metadata = metadata /\ metadata # None
<1> DEFINE s == SmallShard
<1>1. /\ LoopTyped /\ Replays(str) /\ Rebuilt(str) /\ Reading(str, obj, put) /\ EndsReached(str)
      /\ Streams(str) /\ s \in Shard /\ s \in ShardsOf("small") /\ "small" \in Class
      /\ next_seq["small"] \in Nat
  BY DEF InTransit, Transported, Carried, Shard, ShardsOf, Class, Reading, ReaderTyped
<1>2. finished /\ Unwritten = {}
  BY <1>1, WrittenToItsEnd
<1>3. next_seq["small"] <= Len(str["small"]) /\ Len(str["small"]) \in Nat
  BY <1>1 DEF EndsReached, Streams
<1>4. ASSUME next_seq["small"] < Len(str["small"])
      PROVE  FALSE
  <2>1. PICK i \in 1..Len(obj[s]) : obj[s][i].kind = "marker" /\ obj[s][i].seq = next_seq["small"]
    BY <1>1, <1>2, <1>4, NextIsPut DEF ShardsOf
  <2>2. ~HeldFrom(s)
    BY DEF HeldFrom
  <2>3. i > taken(put, s)
    BY <1>1, <2>1, <2>2, DueIsAhead
  <2>4. taken(put, s) = Len(obj[s]) /\ Len(obj[s]) \in Nat
    BY <1>1, AllTaken
  <2> QED BY <2>3, <2>4
<1>5. next_seq["small"] = Len(str["small"])
  BY <1>1, <1>3, <1>4
<1>6. PICK at : Replaying(at, "small", EmptyImage, str["small"]) /\ img = at[next_seq["small"]]
  BY <1>1 DEF Rebuilt
<1>7. img = ReplayChunks("small", EmptyImage, str["small"])
  BY <1>5, <1>6 DEF Replaying
<1>8. img.metadata = metadata
  BY <1>1, <1>2, <1>7, ReplayedImages
<1>9. metadata # None
  <2>1. metadata \in Seq(Data)
    <3>1. File \subseteq Data /\ metadata \in Seq(File)
      BY <1>1, DataAssumption DEF LoopTyped
    <3> QED BY <3>1, SeqMonotonic
  <2> QED BY <2>1, ImageAssumption
<1> QED BY <1>2, <1>5, <1>7, <1>8, <1>9

\* drain_all() runs out of shards only behind ImageEof.
LEMMA MainWhole ==
  ASSUME NEW str, NEW obj, NEW put, InTransit(str, obj, put),
         Selecting, shards = {}, readable_shards = {}
  PROVE  /\ img.image_eof
         /\ \A f \in File : file_state[f] # "absent" => f \in img.inserted
<1> USE ShardAssumption
<1>1. /\ LoopTyped /\ Replays(str) /\ Rebuilt(str) /\ Reading(str, obj, put) /\ EndsReached(str)
      /\ Streams(str) /\ Ordered(obj) /\ "main" \in Class /\ phase = "select"
      /\ next_seq["main"] \in Nat /\ ShardsAccounted /\ ReaderTyped(obj, put)
      /\ Fifo(obj, put) /\ FramingKept(obj, put) /\ picked = None
      /\ \A s \in MainShard : s \in Shard /\ s \in ShardsOf("main")
  <2>1. phase = "select"
    BY DEF Selecting
  <2>2. Reading(str, obj, put)
    BY DEF InTransit, Transported
  <2>3. ShardsAccounted /\ ReaderTyped(obj, put) /\ Fifo(obj, put) /\ FramingKept(obj, put)
        /\ EndsReached(str)
    BY <2>2 DEF Reading
  <2>4. picked = None
    BY <2>1, <2>3 DEF ShardsAccounted, Running
  <2> QED BY <2>1, <2>2, <2>3, <2>4
          DEF InTransit, Transported, Carried, Shard, ShardsOf, Class, ReaderTyped
<1>2. finished
  BY <1>1 DEF Rebuilt
<1>3. next_seq["main"] <= Len(str["main"]) /\ Len(str["main"]) \in Nat
  BY <1>1 DEF EndsReached, Streams
<1>4. ASSUME NEW s \in Gone, NEW i \in 1..Len(obj[s]), i > taken(put, s)
      PROVE  FALSE
  <2>1. s \in Shard /\ pipe[s] = << >>
    BY <1>1 DEF ShardsAccounted, AtEof, Gone
  <2>2. taken(put, s) = Len(obj[s]) /\ Len(obj[s]) \in Nat
    BY <2>1, AllTaken
  <2> QED BY <1>4, <2>2
<1>5. ASSUME NEW k \in Unwritten, outbox[k].class = "main",
             outbox[k].marker.seq = next_seq["main"]
      PROVE  FALSE
  <2>1. PICK s : s \in MainShard
    OBVIOUS
  <2>2. s \notin Gone
    <3> SUFFICES ASSUME s \in Gone
                 PROVE  FALSE
      OBVIOUS
    <3>1. ending[s] # "open"
      BY <1>1 DEF ShardsAccounted, AtEof
    <3> QED BY <1>1, <1>5, <2>1, <3>1, WrittenToItsEnd
  <2>3. PICK p \in pending_markers : p.shard = s
    BY <1>1, <2>1, <2>2 DEF Gone, OfPending
  <2>4. /\ taken(put, s) > 0 /\ p.marker = obj[s][taken(put, s)]
        /\ p.marker.seq >= next_seq["main"] /\ p.marker \in Marker
    BY <1>1, <2>3 DEF FramingKept, ReaderTyped, PendingMarker
  <2>5. taken(put, s) \in 1..Len(obj[s])
    <3>1. /\ taken(put, s) \in Nat /\ taken(put, s) <= put[s] /\ put[s] <= Len(obj[s])
          /\ put[s] \in Nat /\ Len(obj[s]) \in Nat
      BY <1>1, <2>1, TakenType
    <3> QED BY <2>4, <3>1
  <2>6. obj[s][taken(put, s)].kind = "marker" /\ p.marker.seq \in Nat
    BY <2>4 DEF Marker
  <2>7. obj[s][taken(put, s)].seq < outbox[k].marker.seq
    BY <1>1, <1>5, <2>1, <2>5, <2>6 DEF Ordered
  <2> QED BY <1>1, <1>5, <2>4, <2>6, <2>7
<1>6. ASSUME next_seq["main"] < Len(str["main"])
      PROVE  FALSE
  <2>1. PICK s \in MainShard : \E i \in 1..Len(obj[s]) :
          obj[s][i].kind = "marker" /\ obj[s][i].seq = next_seq["main"]
    BY <1>1, <1>5, <1>6, NextIsPut DEF ShardsOf
  <2>2. PICK i \in 1..Len(obj[s]) : obj[s][i].kind = "marker" /\ obj[s][i].seq = next_seq["main"]
    BY <2>1
  <2>3. s \in Gone /\ i > taken(put, s)
    BY <1>1, <2>2, NoneIsLeft
  <2> QED BY <1>4, <2>3
<1>7. next_seq["main"] = Len(str["main"])
  BY <1>1, <1>3, <1>6
<1>8. PICK y, z : /\ y = ReplayChunks("small", EmptyImage, str["small"])
                  /\ z = ReplayChunks("main", y, str["main"])
  OBVIOUS
<1>9. PICK at : Replaying(at, "main", y, str["main"]) /\ img = at[next_seq["main"]]
  BY <1>1, <1>8 DEF Rebuilt
<1>10. img = z
  BY <1>7, <1>8, <1>9 DEF Replaying
<1> QED BY <1>1, <1>2, <1>8, <1>10, ReplayedImages

\* Between two chunks of the small files, the head of their shard is the marker
\* of the next one.
LEMMA SmallHeadOk ==
  ASSUME NEW str, NEW obj, NEW put, InTransit(str, obj, put), phase = "small",
         pipe[SmallShard] # << >>
  PROVE  LET k == taken(put, SmallShard) + 1
         IN  /\ SmallMarkerOk(Head(pipe[SmallShard]))
             /\ k \in 1..Len(obj[SmallShard])
             /\ Head(pipe[SmallShard]) = obj[SmallShard][k]
             /\ obj[SmallShard][k].kind = "marker"
             /\ obj[SmallShard][k].seq = next_seq["small"]
<1> USE ShardAssumption
<1> DEFINE s == SmallShard
           k == taken(put, s) + 1
<1>1. /\ Reading(str, obj, put) /\ Streams(str) /\ Ordered(obj) /\ Queued(str, obj)
      /\ s \in Shard /\ s \in ShardsOf("small")
      /\ "small" \in Class /\ ~HeldFrom(s) /\ s \notin OfPending
      /\ next_seq["small"] \in Nat /\ Len(str["small"]) \in Nat
  <2>1. \A p \in pending_markers : p.shard \in MainShard
    BY DEF InTransit, Transported, Reading, ReaderTyped, PendingMarker
  <2>2. s \notin OfPending
    BY <2>1 DEF OfPending
  <2>3. Reading(str, obj, put) /\ Streams(str) /\ Ordered(obj) /\ Queued(str, obj)
    BY DEF InTransit, Transported, Carried
  <2>4. next_seq["small"] \in Nat /\ Len(str["small"]) \in Nat /\ "small" \in Class
    BY <2>3 DEF Reading, ReaderTyped, Class, Streams
  <2> QED BY <2>2, <2>3, <2>4 DEF HeldFrom, Shard, ShardsOf
<1>2. /\ k \in 1..Len(obj[s]) /\ Head(pipe[s]) = obj[s][k] /\ obj[s][k].kind = "marker"
      /\ obj[s][k] \in Marker /\ obj[s][k].seq >= next_seq["small"]
      /\ obj[s][k].seq + 1 \in 1..Len(str["small"])
  BY <1>1, HeadIsMarker
<1>3. obj[s][k].seq \in Nat
  BY <1>2 DEF Marker
<1>4. next_seq["small"] < Len(str["small"])
  BY <1>1, <1>2, <1>3
<1>5. ASSUME NEW j \in Unwritten, outbox[j].class = "small"
      PROVE  outbox[j].marker.seq # next_seq["small"]
  <2>1. obj[s][k].seq < outbox[j].marker.seq
    <3> HIDE DEF k, s
    <3> QED BY <1>1, <1>2, <1>5 DEF Ordered
  <2> QED BY <1>1, <1>2, <1>3, <2>1
<1>6. PICK i \in 1..Len(obj[s]) : obj[s][i].kind = "marker" /\ obj[s][i].seq = next_seq["small"]
  BY <1>1, <1>4, <1>5, NextIsPut DEF ShardsOf
<1>7. i = k
  BY <1>1, <1>6, SmallHeadIsDue
<1>8. CanApply("small", img, obj[s][k])
  <2> HIDE DEF k
  <2> QED BY <1>1, <1>2, <1>6, <1>7, NextCanApply
<1> QED BY <1>2, <1>6, <1>7, <1>8 DEF SmallMarkerOk

\* No step of the reader ends with an error.
LEMMA NoError ==
  ASSUME NEW str, NEW obj, NEW put, InTransit(str, obj, put), DeserializerNext
  PROVE  phase' # "failed"
<1> USE ShardAssumption
<1>1. /\ LoopTyped /\ Reading(str, obj, put) /\ ReaderTyped(obj, put) /\ ShardsAccounted
      /\ phase # "failed" /\ SmallShard \in Shard
      /\ \A s \in MainShard : s \in Shard /\ s \in ShardsOf("main")
      /\ \A s \in Shard : ending[s] # "torn"
  <2>1. LoopTyped /\ Reading(str, obj, put) /\ phase # "failed"
    BY DEF InTransit, Transported
  <2>2. \A s \in Shard : ending[s] # "torn"
    BY <2>1 DEF LoopTyped
  <2> QED BY <2>1, <2>2 DEF Reading, Shard, ShardsOf
<1>2. ASSUME SmallReject
      PROVE  FALSE
  <2>1. phase = "small" /\ pipe[SmallShard] # << >> /\ ~SmallMarkerOk(Head(pipe[SmallShard]))
    BY <1>2 DEF SmallReject
  <2> QED BY <2>1, SmallHeadOk
<1>3. ASSUME SmallShort
      PROVE  FALSE
  <2>1. /\ pipe[SmallShard] = << >> /\ ending[SmallShard] # "open"
        /\ phase \in {"small", "small_data"}
        /\ (phase = "small" /\ AtEof(SmallShard)) => img.metadata = None
    BY <1>3 DEF SmallShort
  <2>2. AtEof(SmallShard)
    BY <1>1, <2>1 DEF AtEof, LoopTyped
  <2>3. phase # "small"
    BY <2>1, <2>2, SmallWhole
  <2>4. HeldFrom(SmallShard)
    BY <1>1, <2>1, <2>3 DEF HeldFrom, ShardsAccounted, Running
  <2> QED BY <1>1, <2>1, <2>4, NotCutShort
<1>4. ASSUME ReturnFromDrainAll
      PROVE  phase' # "failed"
  <2>1. Selecting /\ shards = {} /\ readable_shards = {}
    BY <1>4 DEF ReturnFromDrainAll
  <2>2. img.image_eof
    BY <2>1, MainWhole
  <2> QED BY <1>4, <2>2 DEF ReturnFromDrainAll
<1>5. picked # None => picked \in MainShard
  BY <1>1 DEF ReaderTyped
<1>6. ASSUME ReadMarker
      PROVE  phase' # "failed"
  <2>1. phase = "read" /\ pipe[picked] # << >>
    BY <1>6 DEF ReadMarker
  <2>2. HasSlot(picked, "marker") /\ ~img.image_eof
    BY <1>1, <2>1, NothingBehindEof DEF HasSlot
  <2> QED BY <1>6, <2>2 DEF ReadMarker
<1>7. ASSUME ReadShort
      PROVE  FALSE
  <2>1. phase \in {"read", "data"} /\ picked # None
    BY <1>1, <1>7 DEF ReadShort, ShardsAccounted, Running
  <2>2. picked \in MainShard /\ picked \in Shard /\ picked # SmallShard
    BY <1>1, <1>5, <2>1
  <2>3. phase = "data" /\ pipe[picked] = << >> /\ ending[picked] # "open"
    BY <1>1, <1>7, <2>2 DEF ReadShort, AtEof, AtTear
  <2>4. HeldFrom(picked)
    BY <1>1, <2>2, <2>3 DEF HeldFrom, ShardsAccounted, Running
  <2> QED BY <2>2, <2>3, <2>4, NotCutShort
<1>8. ASSUME NEW p \in pending_markers, ProcessReject(p)
      PROVE  FALSE
  <2>1. phase = "select" /\ p \in InOrder /\ ~MarkerOk(p)
    BY <1>8 DEF ProcessReject
  <2>2. PICK s, k : /\ s \in ShardsOf("main") /\ k \in 1..Len(obj[s])
                    /\ p.marker = obj[s][k] /\ obj[s][k].kind = "marker"
                    /\ obj[s][k].seq = next_seq["main"]
    BY <1>1, <2>1, DueMarker
  <2>3. CanApply("main", img, p.marker)
    BY <2>1, <2>2, NextCanApply DEF Class
  <2>4. p.marker.body = "ImageEof" => \A q \in pending_markers : q = p
    BY <1>1, <2>1, EofIsLast
  <2>5. p.marker.body = "ImageEof" => pending_markers = {p}
    BY <2>4
  <2> QED BY <2>1, <2>3, <2>5 DEF MarkerOk
<1>9. CASE SmallControl \/ SmallDataMarker \/ SmallData \/ SmallEof \/ PollShards
  BY <1>1, <1>9 DEF SmallControl, SmallDataMarker, SmallData, SmallEof, PollShards
<1>10. ASSUME NEW s \in MainShard, PopReadable(s) \/ PopLoneShard(s)
       PROVE  phase' # "failed"
  BY <1>10 DEF PopReadable, PopLoneShard
<1>11. CASE ReadEof \/ ProcessData
  BY <1>11 DEF ReadEof, ProcessData
<1>12. ASSUME NEW p \in pending_markers, ProcessControl(p) \/ ProcessDataMarker(p)
       PROVE  phase' # "failed"
  BY <1>1, <1>12 DEF ProcessControl, ProcessDataMarker
<1> QED
  BY <1>2, <1>3, <1>4, <1>6, <1>7, <1>8, <1>9, <1>10, <1>11, <1>12 DEF DeserializerNext

-----------------------------------------------------------------------------
\* Migration: the image stays that of a replay.

\* r is what the image becomes by the next chunk of the replay it is part of.
OneChunk(str, r) ==
  \E c \in Class : \E x, at : \E n \in 0..(Len(str[c]) - 1) :
    /\ Without(c, x) /\ Replaying(at, c, x, str[c])
    /\ img = at[n] /\ r = at[n + 1]
    /\ CanApply(c, img, str[c][n + 1].marker)
    /\ r = Apply(c, img, str[c][n + 1].marker, str[c][n + 1].data)

\* Applying the chunk whose turn has come goes on with the replay of its class.
LEMMA ChunkRebuilt ==
  ASSUME NEW str, NEW obj, NEW put, InTransit(str, obj, put), NEW c \in Class,
         \/ c = "small" /\ {phase, phase'} \subseteq {"small", "small_data"}
         \/ c = "main" /\ phase \in {"select", "read", "data"} /\ phase' = "select",
         NEW s \in ShardsOf(c), NEW k \in 1..Len(obj[s]), NEW m, m = obj[s][k],
         m.kind = "marker", m.seq = next_seq[c],
         NEW d, HasPayload(m) => k # Len(obj[s]) /\ d = obj[s][k + 1].data,
         img' = Apply(c, img, m, d), Advance(c), UNCHANGED <<finished, metadata>>
  PROVE  Rebuilt(str)' /\ OneChunk(str, img')
<1>1. /\ Rebuilt(str) /\ SoFar(str, obj) /\ next_seq \in [Class -> Nat] /\ img \in Image
      /\ str[c] \in Seq(Chunk) /\ next_seq[c] \in Nat /\ "small" \in Class /\ "main" \in Class
  BY DEF InTransit, Transported, Reading, ReaderTyped, SoFar, Class
<1>2. /\ m \in Marker /\ m.seq + 1 \in 1..Len(str[c]) /\ m = str[c][m.seq + 1].marker
      /\ HasPayload(m) /\ k # Len(obj[s]) => obj[s][k+1] = MakePayload(str[c][m.seq+1].data)
  <2>1. obj[s][k].kind = "marker" /\ SoFar(str, obj)
    BY <1>1
  <2>2. LET a == obj[s][k]
        IN  /\ a \in Marker /\ a.seq + 1 \in 1..Len(str[c]) /\ a = str[c][a.seq + 1].marker
            /\ HasPayload(a) /\ k # Len(obj[s]) => obj[s][k+1] = MakePayload(str[c][a.seq+1].data)
    BY <2>1, MarkerInStream
  <2> QED BY <2>2
<1>3. PICK n \in 0..(Len(str[c]) - 1) : n = next_seq[c]
  BY <1>1, <1>2
<1>4. m = str[c][n + 1].marker /\ (HasPayload(m) => d = str[c][n + 1].data)
  BY <1>2, <1>3 DEF MakePayload
<1>5. CanApply(c, img, m)
  BY NextCanApply
<1>6. img # None
  BY <1>1, NoneAssumption
<1>7. finished' = finished /\ metadata' = metadata
  OBVIOUS
<1>8. /\ next_seq'[c] = n + 1 /\ \A e \in Class : e # c => next_seq'[e] = next_seq[e]
  BY <1>1, <1>3 DEF Advance
<1>9. ASSUME NEW x, NEW at, Replaying(at, c, x, str[c]), img = at[next_seq[c]]
      PROVE  /\ img' = at[next_seq'[c]]
             /\ Without(c, x) => OneChunk(str, img')
  <2>1. img = at[n]
    BY <1>3, <1>9
  <2>2. at[n + 1] = Applied(c, img, str[c][n + 1])
    BY <1>9, <2>1 DEF Replaying
  <2>3. at[n + 1] = Apply(c, img, m, str[c][n + 1].data)
    BY <1>4, <1>5, <1>6, <2>2 DEF Applied
  <2>4. at[n + 1] = Apply(c, img, m, d)
    <3>1. CASE HasPayload(m)
      BY <1>4, <2>3, <3>1
    <3>2. CASE ~HasPayload(m)
      BY <1>2, <2>3, <3>2, NoPayload
    <3> QED BY <3>1, <3>2
  <2>5. img' = at[n + 1]
    BY <2>4
  <2>6. /\ CanApply(c, img, str[c][n + 1].marker)
        /\ img' = Apply(c, img, str[c][n + 1].marker, str[c][n + 1].data)
    BY <1>4, <1>5, <2>3, <2>5
  <2>7. Without(c, x) => OneChunk(str, img')
    BY <1>9, <2>1, <2>5, <2>6 DEF OneChunk
  <2> QED BY <1>8, <2>5, <2>7
<1>10. CASE c = "small"
  <2>1. phase \in {"small", "small_data"} /\ phase' \notin {"select", "read", "data", "done"}
    BY <1>10
  <2>2. PICK at : Replaying(at, "small", EmptyImage, str["small"]) /\ img = at[next_seq["small"]]
    BY <1>1, <2>1 DEF Rebuilt
  <2>3. img' = at[next_seq'["small"]] /\ OneChunk(str, img')
    BY <1>1, <1>9, <1>10, <2>2, EmptyWithout
  <2>4. Rebuilt(str)'
    BY <2>1, <2>2, <2>3 DEF Rebuilt
  <2> QED BY <2>3, <2>4
<1>11. CASE c = "main"
  <2>1. phase \in {"select", "read", "data", "done"} /\ phase' = "select"
    BY <1>11
  <2>2. PICK x : x = ReplayChunks("small", EmptyImage, str["small"])
    OBVIOUS
  <2>3. /\ finished /\ next_seq["small"] = Len(str["small"]) /\ img.metadata = metadata
        /\ \E at : Replaying(at, "main", x, str["main"]) /\ img = at[next_seq["main"]]
    BY <1>1, <2>1, <2>2 DEF Rebuilt
  <2>4. PICK at : Replaying(at, "main", x, str["main"]) /\ img = at[next_seq["main"]]
    BY <2>3
  <2>a. Without("main", x)
    <3>1. PICK z : z = ReplayChunks("main", x, str["main"])
      OBVIOUS
    <3>2. LoopTyped /\ Replays(str)
      BY DEF InTransit, Transported
    <3> QED BY <2>2, <2>3, <3>1, <3>2, ReplayedImages
  <2>5. img' = at[next_seq'["main"]] /\ OneChunk(str, img')
    BY <1>9, <1>11, <2>4, <2>a
  <2>6. img'.metadata = img.metadata
    <3>1. ~IsMetadata("main", img)
      BY DEF IsMetadata
    <3>2. img' = Apply("main", img, m, d)
      BY <1>11
    <3>3. m.body \in {"Filename", "FileData", "FileEof", "ImageEof"}
      BY <1>2 DEF Marker, Body
    <3> QED BY <1>1, <3>1, <3>2, <3>3 DEF Apply, SelectImgFile, ApplyData, ApplyFileEof, Image
  <2>7. finished' /\ next_seq'["small"] = Len(str["small"]) /\ img'.metadata = metadata'
    BY <1>1, <1>7, <1>8, <1>11, <2>3, <2>6
  <2>8. Rebuilt(str)'
    BY <2>1, <2>2, <2>4, <2>5, <2>7 DEF Rebuilt
  <2> QED BY <2>5, <2>8
<1> QED BY <1>10, <1>11 DEF Class

\* The steps that apply nothing.
LEMMA RebuiltStays ==
  ASSUME NEW str, Rebuilt(str), UNCHANGED <<img, next_seq, finished, metadata>>,
         \/ phase' = "failed"
         \/ {phase, phase'} \subseteq {"small", "small_data"}
         \/ {phase, phase'} \subseteq {"select", "read", "data", "done"}
  PROVE  Rebuilt(str)'
<1>1. img' = img /\ next_seq' = next_seq /\ finished' = finished /\ metadata' = metadata
  OBVIOUS
<1>2. phase' \in {"small", "small_data"} => phase \in {"small", "small_data"}
  OBVIOUS
<1>3. phase' \in {"select", "read", "data", "done"} => phase \in {"select", "read", "data", "done"}
  OBVIOUS
<1> QED BY <1>1, <1>2, <1>3 DEF Rebuilt

\* At the end of their shard all the small files are rebuilt.
LEMMA SmallEofRebuilt ==
  ASSUME NEW str, NEW obj, NEW put, InTransit(str, obj, put), SmallEof,
         UNCHANGED <<finished, metadata>>
  PROVE  Rebuilt(str)'
<1>1. /\ phase = "small" /\ pipe[SmallShard] = << >> /\ ending[SmallShard] # "open"
      /\ phase' = "select" /\ img' = img /\ next_seq' = next_seq
      /\ finished' = finished /\ metadata' = metadata
  BY DEF SmallEof, AtEof
<1>2. PICK x : x = ReplayChunks("small", EmptyImage, str["small"])
  OBVIOUS
<1>3. /\ finished /\ next_seq["small"] = Len(str["small"]) /\ img = x /\ img.metadata = metadata
  BY <1>1, <1>2, SmallWhole
<1>4. next_seq["main"] = 0 /\ str["main"] \in Seq(Chunk)
  BY <1>1 DEF InTransit, Transported, Reading, EndsReached, SoFar, Class
<1>5. PICK at : Replaying(at, "main", x, str["main"])
  BY <1>4, ReplayingExists
<1>6. img' = at[next_seq'["main"]]
  BY <1>1, <1>3, <1>4, <1>5 DEF Replaying
<1> QED BY <1>1, <1>2, <1>3, <1>5, <1>6 DEF Rebuilt

\* Whatever the reader does.
LEMMA RebuiltStep ==
  ASSUME NEW str, NEW obj, NEW put, InTransit(str, obj, put), DeserializerNext,
         UNCHANGED <<finished, metadata>>
  PROVE  Rebuilt(str)' /\ (img' = img \/ OneChunk(str, img'))
<1> USE ShardAssumption
<1>1. /\ Rebuilt(str) /\ Reading(str, obj, put) /\ ShardsAccounted /\ ReaderTyped(obj, put)
      /\ FramingKept(obj, put) /\ SmallShard \in ShardsOf("small") /\ SmallShard \in Shard
      /\ \A s \in MainShard : s \in ShardsOf("main") /\ s \in Shard /\ s # SmallShard
      /\ "small" \in Class /\ "main" \in Class
  BY DEF InTransit, Transported, Reading, ShardsOf, Shard, Class
<1>2. CASE SmallControl
  <2> DEFINE s == SmallShard
             k == taken(put, s) + 1
             m == Head(pipe[s])
  <2>1. /\ phase = "small" /\ phase' = "small" /\ pipe[s] # << >> /\ ~HasPayload(m)
        /\ img' = Apply("small", img, m, << >>) /\ Advance("small")
    BY <1>2 DEF SmallControl
  <2>2. k \in 1..Len(obj[s]) /\ m = obj[s][k] /\ m.kind = "marker" /\ m.seq = next_seq["small"]
    BY <2>1, SmallHeadOk
  <2> HIDE DEF k, m
  <2> QED BY <1>1, <2>1, <2>2, ChunkRebuilt
<1>3. CASE SmallData
  <2> DEFINE s == SmallShard
             k == taken(put, s)
             d == Head(pipe[s]).data
  <2>1. /\ phase = "small_data" /\ phase' = "small" /\ pipe[s] # << >>
        /\ img' = Apply("small", img, held, d) /\ Advance("small")
    BY <1>3 DEF SmallData, HasSlot
  <2>2. HeldFrom(s)
    BY <1>1, <2>1 DEF HeldFrom, ShardsAccounted, Running
  <2>3. /\ k \in 1..Len(obj[s]) /\ held = obj[s][k] /\ held \in Marker
        /\ held.seq = next_seq["small"] /\ d = obj[s][k + 1].data
    BY <1>1, <2>1, <2>2, HeldPayload
  <2>4. k # Len(obj[s])
    <3>1. k \in 0..(Len(obj[s]) - 1) /\ Len(obj[s]) \in Nat
      <4>1. Fifo(obj, put) /\ Len(obj[s]) \in Nat
        BY <1>1 DEF Reading, ReaderTyped
      <4> QED BY <1>1, <2>1, <4>1, NextSlot
    <3> QED BY <3>1
  <2>5. held.kind = "marker"
    BY <2>3 DEF Marker
  <2> HIDE DEF k, d
  <2> QED BY <1>1, <2>1, <2>3, <2>4, <2>5, ChunkRebuilt
<1>4. CASE ProcessData
  <2> DEFINE k == taken(put, picked)
             d == Head(pipe[picked]).data
  <2>1. /\ phase = "data" /\ phase' = "select" /\ pipe[picked] # << >>
        /\ img' = Apply("main", img, held, d) /\ Advance("main")
    BY <1>4 DEF ProcessData, HasSlot
  <2>2. picked \in MainShard /\ HeldFrom(picked)
    BY <1>1, <2>1 DEF HeldFrom, ShardsAccounted, Running, ReaderTyped
  <2>3. PICK s : s = picked /\ s \in MainShard /\ s \in ShardsOf("main") /\ s \in Shard
    BY <1>1, <2>2
  <2>4. /\ k \in 1..Len(obj[s]) /\ held = obj[s][k] /\ held \in Marker
        /\ held.seq = next_seq["main"] /\ d = obj[s][k + 1].data
    BY <1>1, <2>1, <2>2, <2>3, HeldPayload
  <2>5. k # Len(obj[s])
    <3>1. k \in 0..(Len(obj[s]) - 1) /\ Len(obj[s]) \in Nat
      <4>1. Fifo(obj, put) /\ Len(obj[s]) \in Nat
        BY <1>1, <2>3 DEF Reading, ReaderTyped
      <4> QED BY <1>1, <2>1, <2>3, <4>1, NextSlot
    <3> QED BY <3>1
  <2>6. held.kind = "marker"
    BY <2>4 DEF Marker
  <2> HIDE DEF k, d
  <2> QED BY <1>1, <2>1, <2>3, <2>4, <2>5, <2>6, ChunkRebuilt
<1>5. ASSUME NEW p \in pending_markers, ProcessControl(p)
      PROVE  Rebuilt(str)' /\ (img' = img \/ OneChunk(str, img'))
  <2> DEFINE s == p.shard
             k == taken(put, s)
             m == p.marker
  <2>1. /\ phase = "select" /\ phase' = "select" /\ p \in InOrder /\ ~HasPayload(m)
        /\ img' = Apply("main", img, m, << >>) /\ Advance("main")
    BY <1>5 DEF ProcessControl
  <2>2. /\ s \in ShardsOf("main") /\ k \in 1..Len(obj[s]) /\ m = obj[s][k]
        /\ m.kind = "marker" /\ m.seq = next_seq["main"]
    BY <1>1, <2>1, DueMarker
  <2> HIDE DEF s, k, m
  <2> QED BY <1>1, <2>1, <2>2, ChunkRebuilt
<1>6. CASE SmallEof
  <2>1. img' = img
    BY <1>6 DEF SmallEof
  <2> QED BY <1>6, <2>1, SmallEofRebuilt
<1>7. CASE SmallDataMarker
  BY <1>1, <1>7, RebuiltStays DEF SmallDataMarker
<1>8. CASE PollShards \/ ReturnFromDrainAll \/ ReadEof
  <2>1. phase \in {"select", "read"} /\ phase' \in {"select", "done", "failed"}
    BY <1>8 DEF PollShards, ReturnFromDrainAll, ReadEof, Selecting
  <2> QED BY <1>1, <1>8, <2>1, RebuiltStays DEF PollShards, ReturnFromDrainAll, ReadEof
<1>9. CASE ReadMarker
  <2>1. phase = "read" /\ phase' \in {"select", "failed"} /\ UNCHANGED <<img, next_seq>>
    BY <1>9 DEF ReadMarker, Fail
  <2> QED BY <1>1, <2>1, RebuiltStays
<1>10. CASE SmallReject \/ SmallShort \/ ReadShort \/ \E p \in pending_markers : ProcessReject(p)
  <2>1. Fail
    BY <1>10 DEF SmallReject, SmallShort, ReadShort, ProcessReject
  <2> QED BY <1>1, <2>1, RebuiltStays DEF Fail
<1>11. ASSUME NEW s \in MainShard, PopReadable(s) \/ PopLoneShard(s)
       PROVE  Rebuilt(str)' /\ (img' = img \/ OneChunk(str, img'))
  <2>1. phase = "select" /\ phase' = "read" /\ UNCHANGED <<img, next_seq>>
    BY <1>11 DEF PopReadable, PopLoneShard, Selecting
  <2> QED BY <1>1, <2>1, RebuiltStays
<1>12. ASSUME NEW p \in pending_markers, ProcessDataMarker(p)
       PROVE  Rebuilt(str)' /\ (img' = img \/ OneChunk(str, img'))
  <2>1. phase = "select" /\ phase' = "data" /\ UNCHANGED <<img, next_seq>>
    BY <1>12 DEF ProcessDataMarker
  <2> QED BY <1>1, <2>1, RebuiltStays
<1> QED
  BY <1>2, <1>3, <1>4, <1>5, <1>6, <1>7, <1>8, <1>9, <1>10, <1>11, <1>12 DEF DeserializerNext

\* What capture() numbers does not change what was applied.
LEMMA RebuiltGrows ==
  ASSUME LoopTyped, [LoopNext]_loopVars, Idle => target = None, UNCHANGED deserializerVars,
         NEW str, NEW new, Streams(str), Streams(new)', Continues(str, new),
         EndsReached(str), next_seq \in [Class -> Nat], Rebuilt(str)
  PROVE  Rebuilt(new)'
<1>1. phase' = phase /\ img' = img /\ next_seq' = next_seq
  BY DEF deserializerVars
<1>2. CASE phase \in {"small", "small_data"}
  <2>1. PICK at : Replaying(at, "small", EmptyImage, str["small"]) /\ img = at[next_seq["small"]]
    BY <1>2 DEF Rebuilt
  <2>2. /\ str["small"] \in Seq(Chunk) /\ new["small"] \in Seq(Chunk)
        /\ next_seq["small"] \in Nat /\ next_seq["small"] <= Len(str["small"])
        /\ Len(str["small"]) <= Len(new["small"])
        /\ \A i \in 1..Len(str["small"]) : new["small"][i] = str["small"][i]
    BY DEF Streams, Continues, EndsReached, Class
  <2>3. PICK bt : Replaying(bt, "small", EmptyImage, new["small"])
    BY <2>2, ReplayingExists
  <2>4. PICK n \in 0..Len(str["small"]) : n = next_seq["small"]
    BY <2>2
  <2>5. bt[n] = at[n]
    <3>a. PICK x : x = EmptyImage
      OBVIOUS
    <3>1. PICK a \in Seq(Chunk), q \in Seq(Chunk) :
            x = EmptyImage /\ a = str["small"] /\ q = new["small"]
      BY <2>2, <3>a
    <3>2. /\ Len(a) <= Len(q) /\ \A i \in 1..Len(a) : q[i] = a[i]
          /\ Replaying(at, "small", x, a) /\ Replaying(bt, "small", x, q) /\ n \in 0..Len(a)
      BY <2>1, <2>2, <2>3, <2>4, <3>1
    <3> QED BY ONLY <3>2, a \in Seq(Chunk), q \in Seq(Chunk), SameStart
  <2>6. img' = bt[next_seq'["small"]]
    BY <1>1, <2>1, <2>4, <2>5
  <2> QED BY <1>1, <1>2, <2>3, <2>6 DEF Rebuilt
<1>3. CASE phase \in {"select", "read", "data", "done"}
  <2>1. finished
    BY <1>3 DEF Rebuilt
  <2>2. new = str
    BY <2>1, StreamStays
  <2>3. finished' = finished /\ metadata' = metadata
    BY <2>1, EndIsEnd DEF LoopTyped
  <2>4. Rebuilt(str)'
    BY <1>1, <1>3, <2>3, RebuiltStays
  <2> QED BY <2>2, <2>4
<1>4. CASE phase \notin {"small", "small_data", "select", "read", "data", "done"}
  BY <1>1, <1>4 DEF Rebuilt
<1> QED BY <1>2, <1>3, <1>4

-----------------------------------------------------------------------------
\* Migration: the list of files, and the room in the pipes.

\* The files drained to their end are listed, each of them once.
Listing ==
  /\ \A f \in File : file_state[f] = "removed" <=> \E i \in 1..Len(metadata) : metadata[i] = f
  /\ \A i, j \in 1..Len(metadata) : metadata[i] = metadata[j] => i = j

LEMMA ListingInit ==
  ASSUME LoopInit
  PROVE  Listing
<1>1. /\ file_state = [f \in File |-> IF f \in ExtFile THEN "open" ELSE "absent"]
      /\ metadata = << >>
  BY DEF LoopInit, SerializerInit
<1>2. 1..Len(metadata) = {}
  BY <1>1
<1> QED BY <1>1, <1>2 DEF Listing

LEMMA ListingNext ==
  ASSUME LoopTyped, Listing, [LoopNext]_loopVars
  PROVE  Listing'
<1>1. metadata \in Seq(File) /\ file_state \in [File -> {"absent", "open", "removed"}]
  BY DEF LoopTyped
<1>2. ASSUME NEW f \in File, DrainReady(f), IsEof(f)
      PROVE  Listing'
  <2>1. metadata' = Append(metadata, f)
    BY <1>2 DEF DrainReady, DrainImgFile, Listed
  <2>2. PICK n \in Nat : n = Len(metadata)
    BY <1>1
  <2>3. /\ Len(metadata') = n + 1 /\ metadata'[n + 1] = f
        /\ \A i \in 1..n : metadata'[i] = metadata[i] /\ metadata[i] # f
    <3>1. file_state[f] # "removed"
      BY <1>2, DrainMoves
    <3> QED BY <1>1, <2>1, <2>2, <3>1 DEF Listing
  <2>4. /\ file_state'[f] = "removed"
        /\ \A g \in File \ {f} : file_state'[g] = file_state[g]
    BY <1>2, DrainMoves
  <2>5. ASSUME NEW g \in File
        PROVE  file_state'[g] = "removed" <=> \E i \in 1..(n + 1) : metadata'[i] = g
    <3>1. CASE g = f
      <4>1. n + 1 \in 1..(n + 1)
        OBVIOUS
      <4> QED BY <2>3, <2>4, <3>1, <4>1
    <3>2. CASE g # f
      <4>1. file_state'[g] = "removed" <=> \E i \in 1..n : metadata[i] = g
        BY <2>2, <2>4, <3>2 DEF Listing
      <4>2. \A i \in 1..(n + 1) : i \in 1..n \/ i = n + 1
        OBVIOUS
      <4>3. \A i \in 1..n : i \in 1..(n + 1)
        OBVIOUS
      <4> QED BY <2>3, <3>2, <4>1, <4>2, <4>3
    <3> QED BY <3>1, <3>2
  <2>6. ASSUME NEW i \in 1..(n + 1), NEW j \in 1..(n + 1), metadata'[i] = metadata'[j]
        PROVE  i = j
    <3>1. (i \in 1..n \/ i = n + 1) /\ (j \in 1..n \/ j = n + 1)
      OBVIOUS
    <3>2. i \in 1..n /\ j \in 1..n => i = j
      BY <2>2, <2>3, <2>6 DEF Listing
    <3> QED BY <2>3, <2>6, <3>1, <3>2
  <2> QED BY <2>3, <2>5, <2>6 DEF Listing
<1>3. ASSUME NEW f \in File, DrainReady(f), ~IsEof(f)
      PROVE  Listing'
  <2>1. metadata' = metadata
    BY <1>3 DEF DrainReady, DrainImgFile, Listed
  <2>2. \A g \in File : file_state'[g] = "removed" <=> file_state[g] = "removed"
    <3>1. /\ file_state[f] = "open" /\ file_state'[f] = "open"
          /\ \A g \in File \ {f} : file_state'[g] = file_state[g]
      BY <1>3, DrainMoves
    <3> QED BY <3>1
  <2> QED BY <2>1, <2>2 DEF Listing
<1>4. ASSUME NEW f \in File, OpenFile(f)
      PROVE  Listing'
  <2>1. /\ metadata' = metadata /\ file_state[f] = "absent"
        /\ file_state' = [file_state EXCEPT ![f] = "open"]
    BY <1>4 DEF OpenFile
  <2>2. \A g \in File : file_state'[g] = "removed" <=> file_state[g] = "removed"
    BY <1>1, <2>1
  <2> QED BY <2>1, <2>2 DEF Listing
<1>5. CASE UNCHANGED <<metadata, file_state>>
  BY <1>5 DEF Listing
<1>6. ASSUME NEW f \in File, ClientCreate(f) \/ ClientWrite(f) \/ ClientClose(f)
      PROVE  UNCHANGED <<metadata, file_state>>
  BY <1>6 DEF ClientCreate, ClientWrite, ClientClose
<1>7. LastRequest \/ EndCapture \/ WriteShards \/ Exited \/ UNCHANGED loopVars
        => UNCHANGED <<metadata, file_state>>
  BY DEF LastRequest, EndCapture, WriteImageEof, WriteShards, WritePayload, WriteMarker,
         CloseShards, Exited, loopVars, serializerVars
<1> QED
  BY <1>2, <1>3, <1>4, <1>5, <1>6, <1>7 DEF LoopNext, ClientStep, CaptureStep

\* A pipe holds no more than its room.
Bounded == \A s \in Shard : Len(pipe[s]) <= Capacity

LEMMA PutsBounded ==
  ASSUME Bounded, pipe \in [Shard -> Seq(Slot)], NEW obj, NEW wrote, Puts(obj, wrote)
  PROVE  Bounded'
<1>1. CASE pipe' = pipe
  BY <1>1 DEF Bounded
<1>2. ASSUME NEW s \in Shard, NEW slot \in Slot, Len(pipe[s]) < Capacity,
             pipe' = [pipe EXCEPT ![s] = Append(@, slot)]
      PROVE  Bounded'
  <2>1. /\ pipe'[s] = Append(pipe[s], slot) /\ pipe[s] \in Seq(Slot)
        /\ \A t \in Shard \ {s} : pipe'[t] = pipe[t]
    BY <1>2
  <2>2. Len(pipe'[s]) = Len(pipe[s]) + 1 /\ Len(pipe[s]) \in Nat /\ Capacity \in Nat
    BY <2>1, ShardAssumption
  <2>3. Len(pipe'[s]) <= Capacity
    BY <1>2, <2>2
  <2> QED BY <2>1, <2>3 DEF Bounded
<1> QED BY <1>1, <1>2 DEF Puts

LEMMA TakenBounded ==
  ASSUME Bounded, pipe \in [Shard -> Seq(Slot)], NEW s \in Shard, pipe[s] # << >>, Take(s)
  PROVE  Bounded'
<1>1. /\ pipe'[s] = Tail(pipe[s]) /\ pipe[s] \in Seq(Slot)
      /\ \A t \in Shard \ {s} : pipe'[t] = pipe[t]
  BY DEF Take
<1>2. PICK q \in Seq(Slot) : q = pipe[s]
  BY <1>1
<1>3. q # << >> /\ Len(Tail(q)) = Len(q) - 1 /\ Len(q) \in Nat /\ Capacity \in Nat
  BY <1>2, ShardAssumption
<1>4. Len(q) <= Capacity
  BY <1>2 DEF Bounded
<1>5. Len(pipe'[s]) <= Capacity
  BY <1>1, <1>2, <1>3, <1>4
<1> QED BY <1>1, <1>5 DEF Bounded

LEMMA ReaderBounded ==
  ASSUME Bounded, pipe \in [Shard -> Seq(Slot)], picked # None => picked \in MainShard,
         phase \in {"read", "data"} => picked # None, DeserializerNext
  PROVE  Bounded'
<1> USE ShardAssumption DEF Shard
<1>1. CASE SmallControl \/ SmallDataMarker \/ SmallData \/ SmallReject
  BY <1>1, TakenBounded DEF SmallControl, SmallDataMarker, SmallData, SmallReject, HasSlot
<1>2. CASE ReadMarker \/ ProcessData
  <2>1. picked \in Shard /\ pipe[picked] # << >> /\ Take(picked)
    BY <1>2 DEF ReadMarker, ProcessData, HasSlot
  <2> QED BY <2>1, TakenBounded
<1>3. CASE pipe' = pipe
  BY <1>3 DEF Bounded
<1>4. ASSUME NEW s \in MainShard, PopReadable(s) \/ PopLoneShard(s)
      PROVE  pipe' = pipe
  BY <1>4 DEF PopReadable, PopLoneShard
<1>5. ASSUME NEW p \in pending_markers,
             ProcessControl(p) \/ ProcessDataMarker(p) \/ ProcessReject(p)
      PROVE  pipe' = pipe
  BY <1>5 DEF ProcessControl, ProcessDataMarker, ProcessReject
<1>6. SmallShort \/ SmallEof \/ PollShards \/ ReturnFromDrainAll \/ ReadEof \/ ReadShort
        => pipe' = pipe
  BY DEF SmallShort, SmallEof, PollShards, ReturnFromDrainAll, ReadEof, ReadShort
<1> QED BY <1>1, <1>2, <1>3, <1>4, <1>5, <1>6 DEF DeserializerNext

-----------------------------------------------------------------------------
\* The invariant of Migration.

MigrationInv ==
  /\ LoopTyped /\ Sides /\ Lasting /\ Listing /\ Bounded /\ phase # "failed"
  /\ \E str, obj, put : Transported(str, obj, put)

LEMMA MigrationInvInit == MigrationInit => MigrationInv
<1> SUFFICES ASSUME MigrationInit
             PROVE  MigrationInv
  OBVIOUS
<1>1. LoopInit /\ DeserializerInit /\ PipesInit
  BY DEF MigrationInit, LoopInit
<1>2. LoopTyped /\ Sides /\ Listing
  BY <1>1, LoopTypedInit, SidesInit, ListingInit
<1>3. Lasting
  BY <1>1 DEF Lasting, PipesInit
<1>4. Bounded
  BY <1>1, ShardAssumption DEF Bounded, PipesInit
<1>5. phase = "small" /\ img = EmptyImage /\ next_seq = [c \in Class |-> 0]
  BY <1>1 DEF DeserializerInit
<1>6. PICK str : Carried(str, pipe) /\ Ends(str) /\ Replays(str)
  BY <1>1, CarriedInit
<1>7. PICK obj, put : obj = pipe /\ put = Lens(obj)
  OBVIOUS
<1>8. Carried(str, obj)
  BY <1>6, <1>7 DEF Carried, Queued, Placed, Ordered, Complete, Increasing, NoTwice
<1>9. put = [s \in Shard |-> 0]
  BY <1>1, <1>7 DEF Lens, PipesInit
<1>10. SoFar(str, obj)
  <2>1. /\ str \in [Class -> Seq(Chunk)]
        /\ \A c \in Class : Len(str[c]) = 0
        /\ obj \in [Shard -> Seq(Slot)] /\ \A s \in Shard : Len(obj[s]) = 0
    <3>1. seq = [c \in Class |-> 0] /\ pipe = [s \in Shard |-> << >>]
      BY <1>1 DEF LoopInit, SerializerInit, PipesInit
    <3>2. obj \in [Shard -> Seq(Slot)] /\ \A s \in Shard : Len(obj[s]) = 0
      BY <1>7, <3>1
    <3> QED BY <1>8, <3>1, <3>2 DEF Carried, Streams
  <2>2. /\ \A c \in Class : 1..Len(str[c]) = {}
        /\ \A s \in Shard : 1..Len(obj[s]) = {}
        /\ \A c \in Class : \A s \in ShardsOf(c) : s \in Shard
        /\ MainShard \subseteq Shard
    BY <2>1 DEF ShardsOf, Shard
  <2> QED BY <2>1, <2>2 DEF SoFar, FramedSoFar, Increasing, NoTwice, Class
<1>11. Reading(str, obj, put)
  BY <1>1, <1>9, <1>10, ReadingInit
<1>12. Rebuilt(str)
  <2>1. str["small"] \in Seq(Chunk) /\ next_seq["small"] = 0
    BY <1>5, <1>10 DEF SoFar, Class
  <2>2. PICK x : x = EmptyImage
    OBVIOUS
  <2>3. PICK at : Replaying(at, "small", x, str["small"])
    BY <2>1, ReplayingExists
  <2>4. img = at[next_seq["small"]]
    BY <1>5, <2>1, <2>2, <2>3 DEF Replaying
  <2> QED BY <1>5, <2>2, <2>3, <2>4 DEF Rebuilt
<1>13. Transported(str, obj, put)
  BY <1>6, <1>7, <1>8, <1>11, <1>12 DEF Transported
<1> QED BY <1>2, <1>3, <1>4, <1>5, <1>13 DEF MigrationInv

\* A step of capture() or of a client.
LEMMA LoopKeepsMigration ==
  ASSUME MigrationInv, [LoopNext]_loopVars, UNCHANGED deserializerVars
  PROVE  MigrationInv'
<1>1. LoopTyped /\ Sides /\ Lasting /\ Listing /\ Bounded /\ phase # "failed"
  BY DEF MigrationInv
<1>2. PICK str, obj, put : Transported(str, obj, put)
  BY DEF MigrationInv
<1>3. /\ put = Lens(obj) /\ Carried(str, obj) /\ Ends(str) /\ Replays(str)
      /\ Reading(str, obj, put) /\ Rebuilt(str)
  BY <1>2 DEF Transported
<1>4. Streams(str) /\ Queued(str, obj)
  BY <1>3 DEF Carried
<1>5. Idle => target = None
  BY <1>4 DEF Queued, Idle
<1>6. EndsReached(str) /\ next_seq \in [Class -> Nat] /\ pipe \in [Shard -> Seq(Slot)]
  BY <1>3 DEF Reading, ReaderTyped
<1>7. PICK new, wrote : /\ Carried(new, wrote)' /\ Ends(new)' /\ Replays(new)'
                        /\ Continues(str, new) /\ Puts(obj, wrote)
  BY <1>1, <1>3, LoopCarried
<1>8. PICK more : more = Lens(wrote)
  OBVIOUS
<1>9. Reading(new, wrote, more)'
  BY <1>1, <1>3, <1>4, <1>5, <1>7, <1>8, PutsReading
<1>10. Streams(new)'
  BY <1>7 DEF Carried
<1>11. Rebuilt(new)'
  BY <1>1, <1>3, <1>4, <1>5, <1>6, <1>7, <1>10, RebuiltGrows
<1>12. LoopTyped' /\ Sides' /\ Listing'
  BY <1>1, LoopTypedNext, SidesNext, ListingNext
<1>13. Lasting'
  BY <1>1, <1>5, LastingNext
<1>14. Bounded'
  BY <1>1, <1>6, <1>7, PutsBounded
<1>15. phase' # "failed"
  BY <1>1 DEF deserializerVars
<1>16. (more = Lens(wrote))'
  BY <1>8 DEF Lens
<1>17. Transported(new, wrote, more)'
  BY <1>7, <1>9, <1>11, <1>16 DEF Transported
<1> QED BY <1>12, <1>13, <1>14, <1>15, <1>17 DEF MigrationInv

\* A step of extract.
LEMMA ExtractKeepsMigration ==
  ASSUME MigrationInv, Extract
  PROVE  MigrationInv'
<1>1. LoopTyped /\ Sides /\ Lasting /\ Listing /\ Bounded /\ phase # "failed"
  BY DEF MigrationInv
<1>2. PICK str, obj, put : Transported(str, obj, put)
  BY DEF MigrationInv
<1>3. /\ put = Lens(obj) /\ Carried(str, obj) /\ Ends(str) /\ Replays(str)
      /\ Reading(str, obj, put)
  BY <1>2 DEF Transported
<1>4. InTransit(str, obj, put)
  BY <1>1, <1>2 DEF InTransit
<1>5. DeserializerNext /\ UNCHANGED <<serializerVars, expecting>>
  BY DEF Extract
<1>6. ending' = ending
  BY <1>5, ReaderLeavesEnding
<1>7. UNCHANGED <<writer, file_state, produced, drained, current_filename, seq, metadata,
                  outbox, target, finished, expecting>>
  BY <1>5 DEF serializerVars
<1>8. Carried(str, obj)' /\ Ends(str)'
  BY <1>3, <1>7, UntouchedCarried
<1>9. Replays(str)'
  BY <1>1, <1>3, <1>7, ReplaysKept
<1>10. Reading(str, obj, put)'
  BY <1>3, <1>5, ReaderStep
<1>11. phase' # "failed"
  BY <1>4, <1>5, NoError
<1>12. Rebuilt(str)'
  BY <1>4, <1>5, <1>7, RebuiltStep
<1>13. LoopTyped'
  BY <1>1, <1>6, <1>7 DEF LoopTyped
<1>14. Sides' /\ Listing'
  BY <1>1, <1>7 DEF Sides, Listing
<1>15. Lasting'
  BY <1>1, <1>6, <1>7 DEF Lasting, Idle
<1>16. Bounded'
  <2>1. /\ pipe \in [Shard -> Seq(Slot)]
        /\ picked # None => picked \in MainShard
        /\ phase \in {"read", "data"} => picked # None
    BY <1>3 DEF Reading, ReaderTyped, ShardsAccounted, Running
  <2> QED BY <1>1, <1>5, <2>1, ReaderBounded
<1>17. (put = Lens(obj))'
  BY <1>3 DEF Lens
<1>18. Transported(str, obj, put)'
  BY <1>8, <1>9, <1>10, <1>12, <1>17 DEF Transported
<1> QED BY <1>11, <1>13, <1>14, <1>15, <1>16, <1>18 DEF MigrationInv

LEMMA MigrationInvNext == MigrationInv /\ [MigrationNext]_migrationVars => MigrationInv'
<1> SUFFICES ASSUME MigrationInv, [MigrationNext]_migrationVars
             PROVE  MigrationInv'
  OBVIOUS
<1>1. CASE Client \/ Capture
  BY <1>1, LoopKeepsMigration DEF Client, Capture, LoopNext
<1>2. CASE Extract
  BY <1>2, ExtractKeepsMigration
<1>3. CASE Finished \/ UNCHANGED migrationVars
  BY <1>3, LoopKeepsMigration DEF Finished, migrationVars
<1> QED BY <1>1, <1>2, <1>3 DEF MigrationNext

\* What the pipes, the streams and the two processes have to do with each other,
\* however their steps interleave and whenever one of them blocks: the slots of
\* a shard are those of the chunks capture() has numbered, in order, as far as
\* they are written; extract is at one place in each; and its image is that of
\* the chunks up to its numbers.
THEOREM MigrationHolds == MigrationSpec => []MigrationInv
<1> QED BY MigrationInvInit, MigrationInvNext, PTL DEF MigrationSpec

\* Every variable of the two processes keeps to its type, and a pipe holds no
\* more than it has room for.
THEOREM MigrationTyping == MigrationSpec => []MigrationTypeOK
<1>1. ASSUME MigrationInv
      PROVE  MigrationTypeOK
  <2>1. PICK str, obj, put : Transported(str, obj, put)
    BY <1>1 DEF MigrationInv
  <2>2. outbox \in Seq(Entry) /\ pipe \in [Shard -> Seq(Slot)] /\ img \in Image
        /\ pending_markers \in SUBSET PendingMarker
    BY <2>1 DEF Transported, Carried, Queued, Reading, ReaderTyped
  <2>3. \A k \in 1..Len(outbox) : /\ outbox[k].class \in Class
                                  /\ outbox[k].marker \in Marker
                                  /\ outbox[k].data \in Seq(Data)
    <3> TAKE k \in 1..Len(outbox)
    <3>1. outbox[k] \in Entry
      BY <2>2
    <3> QED BY <3>1 DEF Entry
  <2>4. LoopTyped /\ Bounded
    BY <1>1 DEF MigrationInv
  <2>5. LoopTypeOK
    BY <2>2, <2>3, <2>4 DEF LoopTypeOK, SerializerTypeOK, LoopTyped
  <2> QED BY <2>2, <2>4, <2>5 DEF MigrationTypeOK, Bounded
<1> QED BY <1>1, MigrationHolds, PTL

\* The list that extract reads from the small shard names each file of the
\* image, and each once, before anything is read from the other shards.
THEOREM MetadataReachesExtract == MigrationSpec => []MetadataComplete
<1>1. ASSUME MigrationInv
      PROVE  MetadataComplete
  <2>1. PICK str, obj, put : Transported(str, obj, put)
    BY <1>1 DEF MigrationInv
  <2>2. Listing /\ metadata \in Seq(File)
    BY <1>1 DEF MigrationInv, LoopTyped
  <2> SUFFICES ASSUME phase \in {"select", "read", "data", "done"}
               PROVE  /\ {img.metadata[i] : i \in 1..Len(img.metadata)} =
                           {f \in File : file_state[f] = "removed"}
                      /\ \A i, j \in 1..Len(img.metadata) :
                           img.metadata[i] = img.metadata[j] => i = j
    BY DEF MetadataComplete
  <2>3. img.metadata = metadata
    BY <2>1 DEF Transported, Rebuilt
  <2>4. \A i \in 1..Len(metadata) : metadata[i] \in File
    BY <2>2
  <2> QED BY <2>2, <2>3, <2>4 DEF Listing
<1> QED BY <1>1, MigrationHolds, PTL

\* Extract does not end with an error as long as capture() is there to write
\* its shards to their end.
THEOREM MigrationNeverRefused == MigrationSpec => []NeverRefused
<1>1. MigrationInv => NeverRefused
  BY DEF MigrationInv, NeverRefused
<1> QED BY <1>1, MigrationHolds, PTL
-----------------------------------------------------------------------------
\* Migration implements the abstract transfer of files.

\* Whatever part of the chunks is replayed, the files have a part of what was
\* drained of them.
LEMMA PartOfReplay ==
  ASSUME NEW str, Replays(str), NEW c \in Class, NEW x, Fresh(x), NEW q \in Seq(Chunk),
         q = str[c], NEW at, Replaying(at, c, x, q), NEW n \in 0..Len(q), NEW r, r = at[n]
  PROVE  Partial(c, x, r)
<1>1. Growing(c, x, q)
  BY DEF Replays
<1>2. PICK bt : Replaying(bt, c, x, q) /\ \A i \in 0..Len(q) : Partial(c, x, bt[i])
  BY <1>1 DEF Growing
<1>3. Len(q) <= Len(q) /\ \A i \in 1..Len(q) : q[i] = q[i]
  OBVIOUS
<1>4. bt[n] = at[n]
  BY ONLY <1>2, <1>3, q \in Seq(Chunk), Replaying(at, c, x, q), n \in 0..Len(q), SameStart
<1> QED BY <1>2, <1>4

\* What becomes of the files when the image becomes r.
Same(r) == r.inserted = img.inserted /\ \A g \in File : r.content[g] = img.content[g]

Copies(f, r) ==
  /\ f \notin img.inserted /\ r.inserted = img.inserted
  /\ \A g \in File \ {f} : r.content[g] = img.content[g]
  /\ \E n \in Len(img.content[f])..produced[f] : r.content[f] = UnitsTo(f, n)

Seals(f, r) ==
  /\ f \notin img.inserted /\ r.inserted = img.inserted \cup {f}
  /\ \A g \in File : r.content[g] = img.content[g]
  /\ file_state[f] = "removed" /\ writer[f] = "closed"
  /\ img.content[f] = UnitsTo(f, produced[f])

Transfers(r) == Same(r) \/ \E f \in File : Copies(f, r) \/ Seals(f, r)

\* A file that is named keeps what it has, or has nothing yet.
LEMMA FilenameTransfers ==
  ASSUME NEW c \in Class, NEW x, Without(c, x), NEW r, Partial(c, x, img), Partial(c, x, r),
         NEW f \in FileName, r = SelectImgFile(img, f)
  PROVE  Transfers(r)
<1>1. img \in Image /\ File \subseteq FileName /\ OfClass(c) \subseteq File
  BY DEF Partial, FileName, OfClass
<1>2. /\ r.content = [img.content EXCEPT ![f] = IF f \in Begun(img) THEN @ ELSE << >>]
      /\ r.inserted = img.inserted
  BY <1>1, NamesFile
<1>3. img.content \in [FileName -> Seq(Data)]
  BY <1>1, ImageFields
<1>4. /\ \A g \in FileName \ {f} : r.content[g] = img.content[g]
      /\ r.content[f] = IF f \in Begun(img) THEN img.content[f] ELSE << >>
  BY <1>2, <1>3
<1>5. ASSUME f \in File
      PROVE  r.content[f] = img.content[f]
  <2>1. CASE f \notin OfClass(c)
    BY <1>5, <2>1 DEF Partial
  <2>2. CASE f \in OfClass(c) /\ f \in img.inserted
    BY <1>2, <2>2 DEF Partial, Without
  <2>3. CASE f \in OfClass(c) /\ f \notin img.inserted
    <3>1. f \notin Begun(img) => img.content[f] = << >>
      BY <2>3 DEF Partial, Without
    <3> QED BY <1>4, <3>1
  <2> QED BY <2>1, <2>2, <2>3
<1>6. \A g \in File : r.content[g] = img.content[g]
  BY <1>1, <1>4, <1>5
<1> QED BY <1>2, <1>6 DEF Transfers, Same

\* The current file is given more of what was drained of it.
LEMMA DataTransfers ==
  ASSUME LoopTyped, NEW c \in Class, NEW x, Without(c, x), NEW r,
         Partial(c, x, img), Partial(c, x, r),
         img.current_img_file # None, NEW data \in Seq(Data), r = ApplyData(c, img, data)
  PROVE  Transfers(r)
<1>1. /\ img \in Image /\ File \subseteq FileName /\ OfClass(c) \subseteq File
      /\ MetadataFile \notin File
  BY ImageAssumption DEF Partial, FileName, OfClass
<1>2. PICK f \in FileName : f = img.current_img_file
  BY <1>1, ImageFields
<1>3. CASE f \in File
  <2>1. Given(img, f, data, r)
    BY <1>1, <1>2, <1>3, GivesData
  <2>2. img.content \in [FileName -> Seq(Data)] /\ img.content[f] \in Seq(Data)
    BY <1>1, <1>2, ImageFields
  <2>3. PICK old, new : old = img.content[f] /\ new = old \o data
    OBVIOUS
  <2>4. /\ r.inserted = img.inserted /\ r.content[f] = new
        /\ \A g \in File \ {f} : r.content[g] = img.content[g]
    <3>1. r.content = [img.content EXCEPT ![f] = new]
      BY <2>1, <2>3 DEF Given
    <3> QED BY <1>1, <2>1, <2>2, <3>1 DEF Given
  <2>5. Len(old) \in Nat /\ Len(new) \in Nat /\ Len(old) <= Len(new)
    BY <2>2, <2>3, ConcatProperties
  <2>6. CASE f \notin OfClass(c) \/ f \in img.inserted
    <3>1. r.content[f] = img.content[f]
      <4>1. CASE f \notin OfClass(c)
        BY <1>3, <4>1 DEF Partial
      <4>2. CASE f \in OfClass(c) /\ f \in img.inserted
        BY <2>4, <4>2 DEF Partial, Without
      <4> QED BY <2>6, <4>1, <4>2
    <3> QED BY <2>4, <3>1 DEF Transfers, Same
  <2>7. CASE f \in OfClass(c) /\ f \notin img.inserted
    <3>1. drained[f] \in 0..MaxSize /\ produced[f] \in 0..MaxSize /\ drained[f] <= produced[f]
      BY <1>3 DEF LoopTyped
    <3>2. PICK n \in 0..drained[f] : new = UnitsTo(f, n)
      <4>1. r.content[f] = x.content[f] \/ \E n \in 0..drained[f] : r.content[f] = UnitsTo(f, n)
        BY <2>7 DEF Partial
      <4>2. x.content[f] = << >>
        BY <2>7 DEF Without
      <4>3. UnitsTo(f, 0) = << >> /\ 0 \in 0..drained[f]
        BY <1>3, <3>1, NoUnits, SerializerAssumption
      <4> QED BY <2>4, <4>1, <4>2, <4>3
    <3>3. n \in 0..MaxSize /\ n <= produced[f]
      BY <3>1, SerializerAssumption
    <3>4. Len(new) = n
      BY <1>3, <3>2, <3>3, UnitsAre
    <3>5. n \in Len(old)..produced[f]
      BY <2>5, <3>1, <3>3, <3>4, SerializerAssumption
    <3>6. Copies(f, r)
      BY <2>3, <2>4, <2>7, <3>2, <3>5 DEF Copies
    <3> QED BY <1>3, <3>6 DEF Transfers
  <2> QED BY <2>6, <2>7
<1>4. CASE f \notin File
  <2>1. f = MetadataFile
    BY <1>4 DEF FileName
  <2>2. CASE c = "small"
    <3>1. img.current_img_file = MetadataFile /\ r = ApplyData("small", img, data)
      BY <1>2, <2>1, <2>2
    <3>2. r.content = img.content /\ r.inserted = img.inserted
      BY <1>1, <3>1, GivesMetadata
    <3> QED BY <3>2 DEF Transfers, Same
  <2>3. CASE c # "small"
    <3>1. PICK fs, ct, ins, md, eof :
            img = [current_img_file |-> f, img_files |-> fs, content |-> ct, inserted |-> ins,
                   metadata |-> md, image_eof |-> eof]
      BY <1>1, <1>2, ImageFields
    <3>2. PICK content : content = [ct EXCEPT ![f] = @ \o data]
      OBVIOUS
    <3>3. r = [img EXCEPT !.content[f] = @ \o data]
      BY <1>2, <2>3, Zenon DEF ApplyData, IsMetadata
    <3>4. r = [current_img_file |-> f, img_files |-> fs, content |-> content, inserted |-> ins,
               metadata |-> md, image_eof |-> eof]
      BY <3>1, <3>2, <3>3
    <3>5. ct \in [FileName -> Seq(Data)]
      BY <1>1, <3>1, ImageFields
    <3>6. \A g \in File : content[g] = ct[g]
      BY <1>1, <1>4, <3>2, <3>5
    <3> QED BY <3>1, <3>4, <3>6 DEF Transfers, Same
  <2> QED BY <2>2, <2>3
<1> QED BY <1>3, <1>4

\* The current file is handed over when it is whole.
LEMMA EofTransfers ==
  ASSUME LoopTyped, Sides, NEW c \in Class, NEW x, Without(c, x), NEW r,
         Partial(c, x, img), Partial(c, x, r),
         img.current_img_file # None, r = ApplyFileEof(c, img)
  PROVE  Transfers(r)
<1>1. img \in Image /\ OfClass(c) \subseteq File
  BY DEF Partial, OfClass
<1>2. PICK f \in FileName : f = img.current_img_file
  BY <1>1, ImageFields
<1>3. Ended(c, img, f, r)
  BY <1>1, <1>2, EndsFile
<1>4. r.content = img.content
  BY <1>3 DEF Ended
<1>5. r.inserted = img.inserted \/ r.inserted = img.inserted \cup {f}
  BY <1>3 DEF Ended
<1>6. CASE r.inserted = img.inserted
  BY <1>4, <1>6 DEF Transfers, Same
<1>7. CASE r.inserted # img.inserted
  <2>1. r.inserted = img.inserted \cup {f} /\ f \notin img.inserted
    BY <1>5, <1>7
  <2>2. f \in OfClass(c)
    BY <2>1 DEF Partial
  <2>3. file_state[f] = "removed" /\ img.content[f] = UnitsTo(f, drained[f])
    BY <1>4, <2>1, <2>2 DEF Partial, Without
  <2>4. f \in File /\ writer[f] = "closed" /\ drained[f] = produced[f]
    BY <1>1, <2>2, <2>3 DEF Sides
  <2>5. Seals(f, r)
    BY <1>4, <2>1, <2>3, <2>4 DEF Seals
  <2> QED BY <2>4, <2>5 DEF Transfers
<1> QED BY <1>6, <1>7

\* Whatever chunk it is.
LEMMA ChunkTransfers ==
  ASSUME LoopTyped, Sides, NEW str, Replays(str), Streams(str), NEW r, OneChunk(str, r)
  PROVE  Transfers(r)
<1>1. PICK c \in Class : \E x, at : \E n \in 0..(Len(str[c]) - 1) :
         /\ Without(c, x) /\ Replaying(at, c, x, str[c])
         /\ img = at[n] /\ r = at[n + 1]
         /\ CanApply(c, img, str[c][n + 1].marker)
         /\ r = Apply(c, img, str[c][n + 1].marker, str[c][n + 1].data)
  BY DEF OneChunk
<1>2. PICK x, at : \E n \in 0..(Len(str[c]) - 1) :
         /\ Without(c, x) /\ Replaying(at, c, x, str[c])
         /\ img = at[n] /\ r = at[n + 1]
         /\ CanApply(c, img, str[c][n + 1].marker)
         /\ r = Apply(c, img, str[c][n + 1].marker, str[c][n + 1].data)
  BY <1>1
<1>3. PICK n \in 0..(Len(str[c]) - 1) :
         /\ Without(c, x) /\ Replaying(at, c, x, str[c])
         /\ img = at[n] /\ r = at[n + 1]
         /\ CanApply(c, img, str[c][n + 1].marker)
         /\ r = Apply(c, img, str[c][n + 1].marker, str[c][n + 1].data)
  BY <1>2
<1>4. PICK q \in Seq(Chunk) : q = str[c]
  BY DEF Streams
<1>5. n \in 0..Len(q) /\ n + 1 \in 0..Len(q) /\ n + 1 \in 1..Len(q)
  BY <1>4
<1>6. PICK m, data : m = q[n + 1].marker /\ data = q[n + 1].data
  OBVIOUS
<1>7. m \in Marker /\ data \in Seq(Data) /\ (m.body = "Filename" => m.file # None)
  <2>1. Proper(c, str[c][n + 1])
    BY <1>4, <1>5 DEF Streams
  <2> QED BY <1>4, <1>6, <2>1 DEF Proper, Chunk
<1>8. Fresh(x) /\ Replaying(at, c, x, q) /\ CanApply(c, img, m) /\ r = Apply(c, img, m, data)
  BY <1>3, <1>4, <1>6 DEF Without
<1>9. Partial(c, x, img)
  BY <1>3, <1>4, <1>5, <1>8, PartOfReplay
<1>10. Partial(c, x, r)
  BY <1>3, <1>4, <1>5, <1>8, PartOfReplay
<1>11. CASE m.body = "Filename"
  <2>1. m.file \in FileName /\ r = SelectImgFile(img, m.file)
    BY <1>7, <1>8, <1>11 DEF Marker, Apply
  <2> QED BY <1>3, <1>9, <1>10, <2>1, FilenameTransfers
<1>12. CASE m.body = "FileData"
  <2>1. img.current_img_file # None /\ r = ApplyData(c, img, data)
    BY <1>8, <1>12 DEF CanApply, Apply
  <2> QED BY <1>3, <1>7, <1>9, <1>10, <2>1, DataTransfers
<1>13. CASE m.body = "FileEof"
  <2>1. img.current_img_file # None /\ r = ApplyFileEof(c, img)
    BY <1>8, <1>13 DEF CanApply, Apply
  <2> QED BY <1>3, <1>9, <1>10, <2>1, EofTransfers
<1>14. CASE m.body = "ImageEof"
  <2>1. PICK b \in BOOLEAN : b = TRUE
    OBVIOUS
  <2>2. r = [img EXCEPT !.image_eof = b]
    BY <1>8, <1>14, <2>1 DEF Apply
  <2>3. img \in Image
    BY <1>9 DEF Partial
  <2>4. r.content = img.content /\ r.inserted = img.inserted
    BY <2>1, <2>2, <2>3, EndsImage
  <2> QED BY <2>4 DEF Transfers, Same
<1> QED BY <1>7, <1>11, <1>12, <1>13, <1>14 DEF Marker, Body

\* The first units of what was written are those of a part of it.
LEMMA FirstUnits ==
  ASSUME NEW f \in File, NEW m \in 0..MaxSize, NEW n \in 0..m
  PROVE  SubSeq(UnitsTo(f, m), 1, n) = UnitsTo(f, n)
<1>1. MaxSize \in Nat /\ n \in 0..MaxSize /\ m \in Nat /\ n \in Nat /\ n <= m
  BY SerializerAssumption
<1>2. /\ UnitsTo(f, m) \in Seq(Data) /\ Len(UnitsTo(f, m)) = m
      /\ \A i \in 1..m : UnitsTo(f, m)[i] = <<f, i>>
  BY UnitsAre
<1>3. SubSeq(UnitsTo(f, m), 1, n) = [i \in 1..n |-> UnitsTo(f, m)[i]]
  BY <1>1, <1>2
<1>4. \A i \in 1..n : UnitsTo(f, m)[i] = <<f, i>>
  BY <1>1, <1>2
<1> QED BY <1>3, <1>4 DEF UnitsTo

\* The variables of Transfer, file by file.
LEMMA TransferVariables ==
  ASSUME UNCHANGED <<writer, file_state, produced>>, (phase' = "done") = (phase = "done"),
         Same(img')
  PROVE  UNCHANGED Transfer!transferVars
<1>1. img'.inserted = img.inserted /\ \A g \in File : img'.content[g] = img.content[g]
  BY DEF Same
<1>2. writer' = writer /\ file_state' = file_state /\ produced' = produced
  OBVIOUS
<1>3. [f \in File |-> img.content[f]]' = [f \in File |-> img.content[f]]
  BY <1>1
<1> QED BY <1>1, <1>2, <1>3 DEF Transfer!transferVars

LEMMA CopyIsCopy ==
  ASSUME LoopTyped, img \in Image, NEW f \in File, Copies(f, img'),
         UNCHANGED <<writer, file_state, produced>>, (phase' = "done") = (phase = "done")
  PROVE  Transfer!Copy(f)
<1>1. writer' = writer /\ file_state' = file_state /\ produced' = produced
  OBVIOUS
<1>2. PICK n \in Len(img.content[f])..produced[f] : img'.content[f] = UnitsTo(f, n)
  BY DEF Copies
<1>3. produced[f] \in 0..MaxSize /\ Len(img.content[f]) \in Nat
  <2>1. img.content[f] \in Seq(Data)
    BY ImageFields DEF FileName
  <2> QED BY <2>1 DEF LoopTyped
<1>4. n \in 0..produced[f]
  BY <1>2, <1>3, SerializerAssumption
<1>5. PICK original, part : original = UnitsTo(f, produced[f]) /\ part = SubSeq(original, 1, n)
  OBVIOUS
<1>6. img'.content[f] = part
  BY <1>2, <1>3, <1>4, <1>5, FirstUnits
<1>7. Len(original) = produced[f]
  BY <1>3, <1>5, UnitsAre
<1>8. /\ f \notin img.inserted /\ img'.inserted = img.inserted
      /\ \A g \in File \ {f} : img'.content[g] = img.content[g]
  BY DEF Copies
<1>9. [g \in File |-> img'.content[g]] = [[g \in File |-> img.content[g]] EXCEPT ![f] = part]
  BY <1>6, <1>8
<1>10. /\ [g \in File |-> [i \in 1..produced[g] |-> <<g, i>>]][f] = original
       /\ [g \in File |-> img.content[g]][f] = img.content[f]
  BY <1>5 DEF UnitsTo
<1>11. \E k \in Len([g \in File |-> img.content[g]][f])..
                Len([g \in File |-> [i \in 1..produced[g] |-> <<g, i>>]][f]) :
         [g \in File |-> img'.content[g]] =
           [[g \in File |-> img.content[g]] EXCEPT ![f] =
              SubSeq([g \in File |-> [i \in 1..produced[g] |-> <<g, i>>]][f], 1, k)]
  BY <1>2, <1>5, <1>7, <1>9, <1>10
<1> QED BY <1>1, <1>8, <1>11 DEF Transfer!Copy

LEMMA SealIsSeal ==
  ASSUME NEW f \in File, Seals(f, img'),
         UNCHANGED <<writer, file_state, produced>>, (phase' = "done") = (phase = "done")
  PROVE  Transfer!Seal(f)
<1>1. writer' = writer /\ file_state' = file_state /\ produced' = produced
  OBVIOUS
<1>2. /\ f \notin img.inserted /\ img'.inserted = img.inserted \cup {f}
      /\ \A g \in File : img'.content[g] = img.content[g]
      /\ file_state[f] = "removed" /\ writer[f] = "closed"
      /\ img.content[f] = UnitsTo(f, produced[f])
  BY DEF Seals
<1>3. [g \in File |-> img'.content[g]] = [g \in File |-> img.content[g]]
  BY <1>2
<1>4. [g \in File |-> img.content[g]][f] = [g \in File |-> [i \in 1..produced[g] |-> <<g, i>>]][f]
  BY <1>2 DEF UnitsTo
<1>5. [g \in File |-> IF file_state[g] = "absent" THEN "none" ELSE writer[g]][f] = "closed"
  BY <1>2
<1> QED BY <1>1, <1>2, <1>3, <1>4, <1>5 DEF Transfer!Seal

-----------------------------------------------------------------------------
\* The steps of extract.

\* drain_all() returns Ok from where no shard is left, and from nowhere else.
LEMMA DoneOnce ==
  ASSUME DeserializerNext
  PROVE  /\ phase # "done"
         /\ phase' = "done" => ReturnFromDrainAll
<1>1. CASE SmallControl \/ SmallDataMarker \/ SmallData \/ SmallReject \/ SmallShort \/ SmallEof
  BY <1>1 DEF SmallControl, SmallDataMarker, SmallData, SmallReject, SmallShort, SmallEof, Fail
<1>2. CASE PollShards \/ ReturnFromDrainAll
  BY <1>2 DEF PollShards, ReturnFromDrainAll, Selecting
<1>3. ASSUME NEW s \in MainShard, PopReadable(s) \/ PopLoneShard(s)
      PROVE  phase # "done" /\ phase' # "done"
  BY <1>3 DEF PopReadable, PopLoneShard, Selecting
<1>4. CASE ReadMarker \/ ReadEof \/ ReadShort \/ ProcessData
  BY <1>4 DEF ReadMarker, ReadEof, ReadShort, ProcessData, Fail
<1>5. ASSUME NEW p \in pending_markers,
             ProcessControl(p) \/ ProcessDataMarker(p) \/ ProcessReject(p)
      PROVE  phase # "done" /\ phase' # "done"
  BY <1>5 DEF ProcessControl, ProcessDataMarker, ProcessReject, Fail
<1> QED BY <1>1, <1>2, <1>3, <1>4, <1>5 DEF DeserializerNext

LEMMA ExtractTransfers ==
  ASSUME MigrationInv, Extract
  PROVE  Transfer!TransferNext \/ UNCHANGED Transfer!transferVars
<1>1. PICK str, obj, put : Transported(str, obj, put)
  BY DEF MigrationInv
<1>2. InTransit(str, obj, put)
  BY <1>1 DEF MigrationInv, InTransit
<1>3. LoopTyped /\ Sides /\ Replays(str) /\ Streams(str) /\ img \in Image
  BY <1>1 DEF MigrationInv, Transported, Carried, Reading, ReaderTyped
<1>4. /\ DeserializerNext
      /\ writer' = writer /\ file_state' = file_state /\ produced' = produced
      /\ finished' = finished /\ metadata' = metadata
  BY DEF Extract, serializerVars
<1>5. img' = img \/ OneChunk(str, img')
  BY <1>2, <1>4, RebuiltStep
<1>6. CASE phase' # "done"
  <2>1. (phase' = "done") = (phase = "done")
    BY <1>4, <1>6, DoneOnce
  <2>2. Transfers(img')
    <3>1. CASE img' = img
      BY <3>1 DEF Transfers, Same
    <3>2. CASE OneChunk(str, img')
      BY <1>3, <3>2, ChunkTransfers
    <3> QED BY <1>5, <3>1, <3>2
  <2>3. CASE Same(img')
    BY <1>4, <2>1, <2>3, TransferVariables
  <2>4. ASSUME NEW f \in File, Copies(f, img')
        PROVE  Transfer!TransferNext
    BY <1>3, <1>4, <2>1, <2>4, CopyIsCopy DEF Transfer!TransferNext
  <2>5. ASSUME NEW f \in File, Seals(f, img')
        PROVE  Transfer!TransferNext
    BY <1>4, <2>1, <2>5, SealIsSeal DEF Transfer!TransferNext
  <2> QED BY <2>2, <2>3, <2>4, <2>5 DEF Transfers
<1>7. CASE phase' = "done"
  <2>1. ReturnFromDrainAll /\ phase # "done"
    BY <1>4, <1>7, DoneOnce
  <2>2. Selecting /\ shards = {} /\ readable_shards = {} /\ img' = img
    BY <2>1 DEF ReturnFromDrainAll
  <2>3. \A f \in File : file_state[f] # "absent" => f \in img.inserted
    BY <1>2, <2>2, MainWhole
  <2>4. \A f \in File :
          [g \in File |-> IF file_state[g] = "absent" THEN "none" ELSE writer[g]][f] # "none"
            => f \in img.inserted
    BY <2>3
  <2>5. Transfer!Complete
    BY <1>4, <1>7, <2>1, <2>2, <2>4 DEF Transfer!Complete
  <2> QED BY <2>5 DEF Transfer!TransferNext
<1> QED BY <1>6, <1>7

-----------------------------------------------------------------------------
\* The steps of capture and of its clients.

\* Where nothing of the files changes, nothing of the transfer does.
LEMMA NothingTransferred ==
  ASSUME UNCHANGED deserializerVars, UNCHANGED <<produced, writer>>,
         \A f \in File : (file_state'[f] = "absent") = (file_state[f] = "absent")
  PROVE  UNCHANGED Transfer!transferVars
<1>1. img' = img /\ phase' = phase /\ produced' = produced /\ writer' = writer
  BY DEF deserializerVars
<1>2. [f \in File |-> IF file_state[f] = "absent" THEN "none" ELSE writer[f]]' =
      [f \in File |-> IF file_state[f] = "absent" THEN "none" ELSE writer[f]]
  BY <1>1
<1> QED BY <1>1, <1>2 DEF Transfer!transferVars

LEMMA OpenFileBegins ==
  ASSUME LoopTyped, UNCHANGED deserializerVars, NEW f \in File, OpenFile(f)
  PROVE  Transfer!Begin(f)
<1>1. img' = img /\ phase' = phase /\ produced' = produced /\ writer' = writer
  BY DEF deserializerVars, OpenFile
<1>2. /\ file_state[f] = "absent" /\ writer[f] # "none"
      /\ file_state' = [file_state EXCEPT ![f] = "open"]
      /\ file_state \in [File -> {"absent", "open", "removed"}]
      /\ writer[f] \in {"none", "open", "closed"}
  BY DEF OpenFile, LoopTyped
<1>3. PICK old, new :
        /\ old = [g \in File |-> IF file_state[g] = "absent" THEN "none" ELSE writer[g]]
        /\ new = [g \in File |-> IF file_state'[g] = "absent" THEN "none" ELSE writer[g]]
  OBVIOUS
<1>4. old[f] = "none"
  BY <1>2, <1>3
<1>5. writer[f] \in {"open", "closed"}
  BY <1>2
<1>6. new = [old EXCEPT ![f] = writer[f]]
  <2>1. \A g \in File \ {f} : new[g] = old[g]
    BY <1>2, <1>3
  <2>2. new[f] = writer[f]
    BY <1>2, <1>3
  <2>3. new = [g \in File |-> new[g]] /\ old = [g \in File |-> old[g]]
    BY <1>3
  <2> QED BY <2>1, <2>2, <2>3
<1> QED BY <1>1, <1>3, <1>4, <1>5, <1>6 DEF Transfer!Begin

LEMMA ClientWriteWrites ==
  ASSUME LoopTyped, UNCHANGED deserializerVars, NEW f \in File, ClientWrite(f)
  PROVE  Transfer!Write(f)
<1>1. /\ img' = img /\ phase' = phase
      /\ writer' = writer /\ file_state' = file_state
  BY DEF deserializerVars, ClientWrite
<1>2. /\ produced \in [File -> 0..MaxSize] /\ produced[f] < MaxSize
      /\ produced' = [produced EXCEPT ![f] = @ + 1]
      /\ writer[f] = "open"
  BY DEF LoopTyped, ClientWrite
<1>3. PICK n \in Nat : n = produced[f] /\ n + 1 \in 0..MaxSize /\ n \in 0..MaxSize
  <2>1. MaxSize \in Nat /\ produced[f] \in 0..MaxSize
    BY <1>2, SerializerAssumption
  <2> QED BY <1>2, <2>1
<1>4. PICK old, new : /\ old = [g \in File |-> [i \in 1..produced[g] |-> <<g, i>>]]
                      /\ new = [g \in File |-> [i \in 1..produced'[g] |-> <<g, i>>]]
  OBVIOUS
<1>5. produced'[f] = n + 1 /\ \A g \in File \ {f} : produced'[g] = produced[g]
  BY <1>2, <1>3
<1>6. old[f] = UnitsTo(f, n) /\ new[f] = UnitsTo(f, n + 1)
  BY <1>3, <1>4, <1>5 DEF UnitsTo
<1>7. Len(old[f]) = n /\ Len(new[f]) = n + 1
  BY <1>3, <1>6, UnitsAre
<1>8. Transfer!IsFirstPart(old[f], new[f])
  <2>1. n \in 0..(n + 1) /\ n + 1 \in 0..MaxSize
    BY <1>3
  <2>2. SubSeq(UnitsTo(f, n + 1), 1, n) = UnitsTo(f, n)
    BY <2>1, FirstUnits
  <2>3. n <= n + 1
    BY <1>3
  <2> QED BY <1>6, <1>7, <2>2, <2>3 DEF Transfer!IsFirstPart
<1>9. new = [old EXCEPT ![f] = new[f]]
  <2>1. \A g \in File \ {f} : new[g] = old[g]
    BY <1>4, <1>5
  <2>2. new = [g \in File |-> new[g]] /\ old = [g \in File |-> old[g]]
    BY <1>4
  <2> QED BY <2>1, <2>2
<1>10. [g \in File |-> IF file_state[g] = "absent" THEN "none" ELSE writer[g]][f] # "closed"
  BY <1>2
<1> QED BY <1>1, <1>4, <1>7, <1>8, <1>9, <1>10 DEF Transfer!Write

LEMMA ClientCloseCloses ==
  ASSUME LoopTyped, UNCHANGED deserializerVars, NEW f \in File, ClientClose(f),
         file_state[f] # "absent"
  PROVE  Transfer!Close(f)
<1>1. img' = img /\ phase' = phase /\ produced' = produced /\ file_state' = file_state
  BY DEF deserializerVars, ClientClose
<1>2. /\ writer[f] = "open" /\ writer' = [writer EXCEPT ![f] = "closed"]
      /\ writer \in [File -> {"none", "open", "closed"}]
  BY DEF ClientClose, LoopTyped
<1>3. PICK old, new :
        /\ old = [g \in File |-> IF file_state[g] = "absent" THEN "none" ELSE writer[g]]
        /\ new = [g \in File |-> IF file_state[g] = "absent" THEN "none" ELSE writer'[g]]
  OBVIOUS
<1>4. old[f] = "open"
  BY <1>2, <1>3
<1>5. new = [old EXCEPT ![f] = "closed"]
  <2>1. \A g \in File \ {f} : new[g] = old[g]
    BY <1>2, <1>3
  <2>2. new[f] = "closed"
    BY <1>2, <1>3
  <2>3. new = [g \in File |-> new[g]] /\ old = [g \in File |-> old[g]]
    BY <1>3
  <2> QED BY <2>1, <2>2, <2>3
<1> QED BY <1>1, <1>3, <1>4, <1>5 DEF Transfer!Close

\* A file is begun when capture() is sent its pipe; what is drained of it and
\* written to the shards changes nothing of it, nor does what its client does
\* with a pipe it has not sent.
LEMMA LoopTransfers ==
  ASSUME MigrationInv, [LoopNext]_loopVars, UNCHANGED deserializerVars
  PROVE  Transfer!TransferNext \/ UNCHANGED Transfer!transferVars
<1>1. LoopTyped /\ Sides
  BY DEF MigrationInv
<1>2. ASSUME NEW f \in File, ClientCreate(f)
      PROVE  UNCHANGED Transfer!transferVars
  <2>1. /\ img' = img /\ phase' = phase /\ produced' = produced /\ file_state' = file_state
        /\ writer' = [writer EXCEPT ![f] = "open"] /\ writer[f] = "none"
        /\ writer \in [File -> {"none", "open", "closed"}]
    BY <1>1, <1>2 DEF deserializerVars, ClientCreate, LoopTyped
  <2>2. file_state[f] = "absent"
    BY <1>1, <2>1 DEF Sides
  <2>3. [g \in File |-> IF file_state[g] = "absent" THEN "none" ELSE writer[g]]' =
        [g \in File |-> IF file_state[g] = "absent" THEN "none" ELSE writer[g]]
    BY <2>1, <2>2
  <2> QED BY <2>1, <2>3 DEF Transfer!transferVars
<1>3. ASSUME NEW f \in File, OpenFile(f)
      PROVE  Transfer!TransferNext
  BY <1>1, <1>3, OpenFileBegins DEF Transfer!TransferNext
<1>4. ASSUME NEW f \in File, ClientWrite(f)
      PROVE  Transfer!TransferNext
  BY <1>1, <1>4, ClientWriteWrites DEF Transfer!TransferNext
<1>5. ASSUME NEW f \in File, ClientClose(f)
      PROVE  Transfer!TransferNext \/ UNCHANGED Transfer!transferVars
  <2>1. CASE file_state[f] # "absent"
    BY <1>1, <1>5, <2>1, ClientCloseCloses DEF Transfer!TransferNext
  <2>2. CASE file_state[f] = "absent"
    <3>1. /\ img' = img /\ phase' = phase /\ produced' = produced /\ file_state' = file_state
          /\ writer' = [writer EXCEPT ![f] = "closed"]
          /\ writer \in [File -> {"none", "open", "closed"}]
      BY <1>1, <1>5 DEF deserializerVars, ClientClose, LoopTyped
    <3>2. [g \in File |-> IF file_state[g] = "absent" THEN "none" ELSE writer[g]]' =
          [g \in File |-> IF file_state[g] = "absent" THEN "none" ELSE writer[g]]
      BY <2>2, <3>1
    <3> QED BY <3>1, <3>2 DEF Transfer!transferVars
  <2> QED BY <2>1, <2>2
<1>6. ASSUME NEW f \in File, DrainReady(f)
      PROVE  UNCHANGED Transfer!transferVars
  <2>1. /\ produced' = produced /\ writer' = writer
        /\ file_state[f] = "open"
        /\ file_state'[f] = IF IsEof(f) THEN "removed" ELSE "open"
        /\ \A g \in File \ {f} : file_state'[g] = file_state[g]
    BY <1>1, <1>6, DrainMoves
  <2>2. \A g \in File : (file_state'[g] = "absent") = (file_state[g] = "absent")
    BY <2>1
  <2> QED BY <2>1, <2>2, NothingTransferred
<1>7. ASSUME UNCHANGED <<produced, writer, file_state>>
      PROVE  UNCHANGED Transfer!transferVars
  BY <1>7, NothingTransferred
<1>8. CASE LastRequest \/ EndCapture \/ Exited \/ UNCHANGED loopVars
  <2>1. UNCHANGED <<produced, writer, file_state>>
    BY <1>8 DEF LastRequest, EndCapture, WriteImageEof, Exited, loopVars, serializerVars
  <2> QED BY <1>7, <2>1
<1>9. CASE WriteShards
  <2>1. CASE WritePayload \/ CloseShards
    BY <1>7, <2>1 DEF WritePayload, CloseShards, serializerVars
  <2>2. ASSUME NEW s \in Shard, WriteMarker(s)
        PROVE  UNCHANGED Transfer!transferVars
    BY <1>7, <2>2 DEF WriteMarker
  <2> QED BY <1>9, <2>1, <2>2 DEF WriteShards
<1> QED BY <1>2, <1>3, <1>4, <1>5, <1>6, <1>8, <1>9 DEF LoopNext, ClientStep, CaptureStep

LEMMA InitTransfers == MigrationInit => Transfer!TransferInit
<1> SUFFICES ASSUME MigrationInit
             PROVE  Transfer!TransferInit
  OBVIOUS
<1>1. /\ writer = [f \in File |-> IF f \in ExtFile THEN "open" ELSE "none"]
      /\ file_state = [f \in File |-> IF f \in ExtFile THEN "open" ELSE "absent"]
      /\ produced = [f \in File |-> 0]
      /\ img = EmptyImage /\ phase = "small"
  BY DEF MigrationInit, LoopInit, SerializerInit, DeserializerInit
<1>2. [f \in File |-> IF file_state[f] = "absent" THEN "none" ELSE writer[f]]
        \in [File -> {"none", "open"}]
  BY <1>1
<1>3. [f \in File |-> [i \in 1..produced[f] |-> <<f, i>>]] = [f \in File |-> << >>]
  <2>1. \A f \in File : [i \in 1..produced[f] |-> <<f, i>>] = << >>
    <3> TAKE f \in File
    <3>1. produced[f] = 0
      BY <1>1
    <3>2. UnitsTo(f, 0) = << >>
      BY NoUnits
    <3> QED BY <3>1, <3>2 DEF UnitsTo
  <2> QED BY <2>1
<1>4. [f \in File |-> img.content[f]] = [f \in File |-> << >>]
  <2>1. \A f \in File : img.content[f] = << >>
    BY <1>1 DEF EmptyImage, FileName
  <2> QED BY <2>1
<1>5. img.inserted = {}
  BY <1>1 DEF EmptyImage
<1>6. (phase = "done") = FALSE
  BY <1>1
<1> QED BY <1>2, <1>3, <1>4, <1>5, <1>6 DEF Transfer!TransferInit

\* Capture and extract together do what a transfer of files promises, through
\* bounded shards and however their steps interleave: what the image store has
\* of a file is at any time a first part of what the client wrote to it, a file
\* is handed over only closed and whole, and drain_all() returns Ok only when
\* every file that joined the image was.
THEOREM MigrationRefinesTransfer == MigrationSpec => RefinesTransfer
<1>1. ASSUME MigrationInv, [MigrationNext]_migrationVars
      PROVE  Transfer!TransferNext \/ UNCHANGED Transfer!transferVars
  <2>1. CASE Client \/ Capture
    BY <1>1, <2>1, LoopTransfers DEF Client, Capture, LoopNext
  <2>2. CASE Extract
    BY <1>1, <2>2, ExtractTransfers
  <2>3. CASE Finished \/ UNCHANGED migrationVars
    BY <1>1, <2>3, LoopTransfers DEF Finished, migrationVars
  <2> QED BY <1>1, <2>1, <2>2, <2>3 DEF MigrationNext
<1>2. MigrationInv /\ [MigrationNext]_migrationVars => [Transfer!TransferNext]_(Transfer!transferVars)
  BY <1>1
<1> QED
  BY <1>2, InitTransfers, MigrationHolds, PTL
  DEF MigrationSpec, RefinesTransfer, Transfer!TransferSpec

-----------------------------------------------------------------------------
\* What the image store has when drain_all() returns.

\* A part of the small chunks, then a part of the main ones, hand over only
\* files that are whole.
LEMMA HandedOverWhole ==
  ASSUME Sides, NEW y, NEW r, Partial("small", EmptyImage, y), Partial("main", y, r)
  PROVE  \A f \in r.inserted :
           /\ f \in File /\ file_state[f] = "removed" /\ writer[f] = "closed"
           /\ r.content[f] = UnitsTo(f, produced[f])
<1>1. r \in Image /\ r.inserted \subseteq FileName /\ EmptyImage.inserted = {}
  BY DEF Partial, Image, EmptyImage
<1>2. /\ "small" \in Class /\ "main" \in Class
      /\ \A f \in File : f \in OfClass("small") \/ f \in OfClass("main")
      /\ \A c \in Class : OfClass(c) \subseteq File
      /\ OfClass("small") \cap OfClass("main") = {}
  BY DEF Class, OfClass, ClassOf
<1>3. MetadataFile \notin File
  BY ImageAssumption
<1> TAKE f \in r.inserted
<1>4. f \in FileName
  BY <1>1
<1>5. CASE f \in OfClass("small")
  <2>1. f \in File /\ f \in FileName \ OfClass("main") /\ f \in File \ OfClass("main")
    BY <1>2, <1>4, <1>5
  <2>2. f \in y.inserted /\ r.content[f] = y.content[f]
    BY <2>1 DEF Partial
  <2>3. file_state[f] = "removed" /\ y.content[f] = UnitsTo(f, drained[f])
    BY <1>1, <1>5, <2>2 DEF Partial
  <2>4. writer[f] = "closed" /\ drained[f] = produced[f]
    BY <2>1, <2>3 DEF Sides
  <2> QED BY <2>1, <2>2, <2>3, <2>4
<1>6. CASE f \notin OfClass("small")
  <2>1. f \notin y.inserted
    BY <1>1, <1>4, <1>6 DEF Partial
  <2>2. f \in OfClass("main")
    BY <1>4, <2>1 DEF Partial
  <2>3. f \in File /\ file_state[f] = "removed" /\ r.content[f] = UnitsTo(f, drained[f])
    BY <1>2, <2>1, <2>2 DEF Partial
  <2>4. writer[f] = "closed" /\ drained[f] = produced[f]
    BY <2>3 DEF Sides
  <2> QED BY <2>3, <2>4
<1> QED BY <1>5, <1>6

\* Behind the small shard, the image is both.
LEMMA TwoParts ==
  ASSUME MigrationInv, phase = "done"
  PROVE  \E y : Partial("small", EmptyImage, y) /\ Partial("main", y, img)
<1>1. PICK str, obj, put : Transported(str, obj, put)
  BY DEF MigrationInv
<1>2. Replays(str) /\ Streams(str) /\ EndsReached(str) /\ next_seq \in [Class -> Nat]
  BY <1>1 DEF Transported, Carried, Reading, ReaderTyped
<1>3. "small" \in Class /\ "main" \in Class
  BY DEF Class
<1>4. PICK small \in Seq(Chunk), main \in Seq(Chunk) : small = str["small"] /\ main = str["main"]
  BY <1>2, <1>3 DEF Streams
<1>5. PICK y : y = ReplayChunks("small", EmptyImage, str["small"])
  OBVIOUS
<1>6. PICK at : Replaying(at, "main", y, str["main"]) /\ img = at[next_seq["main"]]
  BY <1>1, <1>5 DEF Transported, Rebuilt
<1>7. Fresh(EmptyImage)
  BY <1>3, EmptyWithout DEF Without
<1>8. PICK before : Replaying(before, "small", EmptyImage, small)
  BY <1>4, ReplayingExists
<1>9. before[Len(small)] = y /\ Len(small) \in 0..Len(small)
  BY <1>4, <1>5, <1>8 DEF Replaying
<1>10. Partial("small", EmptyImage, y)
  BY <1>2, <1>3, <1>4, <1>7, <1>8, <1>9, PartOfReplay
<1>11. Fresh(y)
  <2>1. LoopTyped
    BY DEF MigrationInv
  <2>2. finished
    BY <1>1 DEF Transported, Rebuilt
  <2>3. PICK z : z = ReplayChunks("main", y, str["main"])
    OBVIOUS
  <2>4. Without("main", y)
    BY <1>2, <1>5, <2>1, <2>2, <2>3, ReplayedImages
  <2> QED BY <2>4 DEF Without
<1>12. next_seq["main"] \in 0..Len(main)
  <2>1. next_seq["main"] \in Nat /\ next_seq["main"] <= Len(str["main"])
    BY <1>2, <1>3 DEF EndsReached
  <2> QED BY <1>4, <2>1
<1>13. Partial("main", y, img)
  BY <1>2, <1>3, <1>4, <1>6, <1>11, <1>12, PartOfReplay
<1> QED BY <1>10, <1>13

\* Nothing of the image is missing, nor comes to be.
AllIn == phase = "done" => \A f \in File : file_state[f] # "absent" => f \in img.inserted

LEMMA AllInNext ==
  ASSUME MigrationInv, AllIn, [MigrationNext]_migrationVars
  PROVE  AllIn'
<1> SUFFICES ASSUME phase' = "done", NEW f \in File, file_state'[f] # "absent"
             PROVE  f \in img'.inserted
  BY DEF AllIn
<1>1. CASE Extract
  <2>1. PICK str, obj, put : Transported(str, obj, put)
    BY DEF MigrationInv
  <2>2. InTransit(str, obj, put)
    BY <2>1 DEF MigrationInv, InTransit
  <2>3. DeserializerNext /\ file_state' = file_state
    BY <1>1 DEF Extract, serializerVars
  <2>4. ReturnFromDrainAll
    BY <2>3, DoneOnce
  <2>5. Selecting /\ shards = {} /\ readable_shards = {} /\ img' = img
    BY <2>4 DEF ReturnFromDrainAll
  <2> QED BY <2>2, <2>3, <2>5, MainWhole
<1>2. CASE Client \/ Capture \/ Finished \/ UNCHANGED migrationVars
  <2>1. phase = "done" /\ img' = img /\ [LoopNext]_loopVars
    BY <1>2 DEF Client, Capture, Finished, migrationVars, deserializerVars, LoopNext
  <2>2. LoopTyped /\ ~expecting
    <3>1. PICK str, obj, put : Transported(str, obj, put)
      BY DEF MigrationInv
    <3>2. finished
      BY <2>1, <3>1 DEF Transported, Rebuilt
    <3> QED BY <3>2 DEF MigrationInv, LoopTyped
  <2>3. file_state[f] # "absent"
    <3>1. ASSUME NEW g \in File, DrainReady(g)
          PROVE  file_state[f] # "absent"
      <4>1. file_state[g] = "open" /\ (f # g => file_state'[f] = file_state[f])
        BY <2>2, <3>1, DrainMoves
      <4> QED BY <4>1
    <3>2. CASE \E g \in File : ClientCreate(g) \/ ClientWrite(g) \/ ClientClose(g)
      BY <3>2 DEF ClientCreate, ClientWrite, ClientClose
    <3>3. CASE (\E g \in File : OpenFile(g)) \/ LastRequest
      BY <2>2, <3>3 DEF OpenFile, LastRequest
    <3>4. CASE EndCapture \/ Exited \/ UNCHANGED loopVars
      BY <3>4 DEF EndCapture, WriteImageEof, Exited, loopVars, serializerVars
    <3>5. CASE WriteShards
      BY <3>5 DEF WriteShards, WritePayload, WriteMarker, CloseShards, serializerVars
    <3> QED BY <2>1, <3>1, <3>2, <3>3, <3>4, <3>5 DEF LoopNext, ClientStep, CaptureStep
  <2> QED BY <2>1, <2>3 DEF AllIn
<1> QED BY <1>1, <1>2 DEF MigrationNext

\* When drain_all() has returned Ok, the image store has the files that joined
\* the image, whole, and no other, for good: no client is left that could send
\* a file or write to one.
THEOREM MigrationDelivers == MigrationSpec => []Delivered
<1>1. MigrationInit => AllIn
  BY DEF MigrationInit, DeserializerInit, AllIn
<1>2. MigrationInv /\ AllIn /\ [MigrationNext]_migrationVars => AllIn'
  BY AllInNext
<1>3. ASSUME MigrationInv, AllIn
      PROVE  Delivered
  <2> SUFFICES ASSUME phase = "done"
               PROVE  /\ img.inserted = {f \in File : file_state[f] # "absent"}
                      /\ \A f \in {g \in File : file_state[g] # "absent"} :
                           /\ writer[f] = "closed"
                           /\ img.content[f] = [i \in 1..produced[f] |-> <<f, i>>]
    BY DEF Delivered
  <2>1. PICK y : Partial("small", EmptyImage, y) /\ Partial("main", y, img)
    BY <1>3, TwoParts
  <2>2. Sides
    BY <1>3 DEF MigrationInv
  <2>3. \A f \in img.inserted :
          /\ f \in File /\ file_state[f] = "removed" /\ writer[f] = "closed"
          /\ img.content[f] = UnitsTo(f, produced[f])
    BY <2>1, <2>2, HandedOverWhole
  <2>4. \A f \in File : file_state[f] # "absent" => f \in img.inserted
    BY <1>3 DEF AllIn
  <2>5. img.inserted = {f \in File : file_state[f] # "absent"}
    BY <2>3, <2>4
  <2> QED BY <2>3, <2>4, <2>5 DEF UnitsTo
<1> QED BY <1>1, <1>2, <1>3, MigrationHolds, PTL DEF MigrationSpec
=============================================================================
