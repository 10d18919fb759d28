---------------------------- MODULE ShardSpaceProofs ----------------------------
(***************************************************************************)
(* Proofs about ShardSpace, for any number of shards, any limit, any size  *)
(* of a page and any lengths of the files.                                 *)
(***************************************************************************)
EXTENDS ShardSpace, DataLemmas, TLAPS

LEMMA InitRoom ==
  Init => RoomInv
<1> SUFFICES ASSUME Init
             PROVE  RoomInv
  OBVIOUS
<1>1. PICK host \in Hosts : PAGE_SIZE = host.PAGE_SIZE /\ shard_pipes = host.shard_pipes
  BY DEF Init
<1>2. PAGE_SIZE \in Nat \ {0} /\ DesiredCapacity \in Nat
  BY <1>1, SpaceAssumption
<1>3. MainShard \subseteq AllShard
  BY <1>1 DEF MainShard, Shard, AllShard, PipesOf
<1> QED BY <1>2, <1>3 DEF Init, RoomInv, Lag, PickedHasRoom

\* Who has room does not change where no pipe, no estimate and no chunk does.
LEMMA Quiet ==
  ASSUME RoomInv, UNCHANGED <<PAGE_SIZE, shard_pipes, capacity, bytes, remaining_space>>
  PROVE  /\ MainShard' = MainShard
         /\ \A n : SpaceRequired(n)' = SpaceRequired(n)
         /\ \A s, n : HasRoom(s, n)' = HasRoom(s, n)
BY DEF MainShard, Shard, SpaceRequired, HasRoom

\* The thread has a chunk, of which the estimates are thought enough or stale.
LEMMA BeginChunkRoom ==
  ASSUME RoomInv, NEW n \in Nat, BeginChunk(n), step \in {"idle", "loop"},
         UNCHANGED <<PAGE_SIZE, shard_pipes, capacity, bytes, remaining_space, left, target>>,
         readable_len' \in Nat
  PROVE  RoomInv'
<1>0. /\ MainShard' = MainShard
      /\ \A k : SpaceRequired(k)' = SpaceRequired(k)
      /\ \A s, k : HasRoom(s, k)' = HasRoom(s, k)
  BY Quiet
<1>1. target = None /\ step' = "choose" /\ data_size' = n
  BY DEF RoomInv, BeginChunk
<1>2. \A s : Lag(s) = 0 /\ Lag(s)' = 0
  BY <1>1 DEF Lag
<1>3. ASSUME roomy'
      PROVE  \E s \in MainShard :
               /\ HasRoom(s, n)
               /\ s \in stale' \/ remaining_space[s] >= SpaceRequired(n)
  <2>1. CASE \E s \in MainShard : remaining_space[s] >= SpaceRequired(n)
    <3>1. PICK s \in MainShard : remaining_space[s] >= SpaceRequired(n)
      BY <2>1
    <3>2. HasRoom(s, n)
      BY <1>2, <3>1 DEF RoomInv, HasRoom, SpaceRequired
    <3> QED BY <3>1, <3>2
  <2>2. CASE ~\E s \in MainShard : remaining_space[s] >= SpaceRequired(n)
    <3>1. stale' = MainShard
      BY <2>2 DEF BeginChunk, StaleShards
    <3>2. \E s \in MainShard : HasRoom(s, n)
      BY <1>3 DEF BeginChunk
    <3> QED BY <3>1, <3>2
  <2> QED BY <2>1, <2>2
<1> QED BY <1>0, <1>1, <1>2, <1>3 DEF RoomInv, PickedHasRoom

\* A refreshed estimate is the room there is.
LEMMA RefreshRoom ==
  ASSUME RoomInv, NEW s \in MainShard, Refresh(s)
  PROVE  RoomInv'
<1>1. /\ step = "choose" /\ step' = "choose" /\ target = None
      /\ UNCHANGED <<PAGE_SIZE, shard_pipes, capacity, bytes, data_size, left, readable_len,
                     target, roomy>>
      /\ stale' = stale \ {s}
      /\ remaining_space' = [remaining_space EXCEPT ![s] = capacity - bytes[s]]
  BY DEF Refresh, RoomInv, sizeVars, hostVars, pipeVars, chunkVars
<1>2. /\ MainShard' = MainShard
      /\ \A n : SpaceRequired(n)' = SpaceRequired(n)
      /\ \A t, n : HasRoom(t, n)' = HasRoom(t, n)
  BY <1>1 DEF MainShard, Shard, SpaceRequired, HasRoom
<1>3. \A t : Lag(t) = 0 /\ Lag(t)' = 0
  BY <1>1 DEF Lag
<1>4. s \in AllShard /\ capacity - bytes[s] \in Int
  BY DEF RoomInv
<1>5. ASSUME roomy
      PROVE  \E t \in MainShard :
               /\ HasRoom(t, data_size)
               /\ t \in stale' \/ remaining_space'[t] >= SpaceRequired(data_size)
  <2>1. PICK t \in MainShard :
          /\ HasRoom(t, data_size)
          /\ t \in stale \/ remaining_space[t] >= SpaceRequired(data_size)
    BY <1>1, <1>5 DEF RoomInv
  <2>2. CASE t = s
    <3>1. remaining_space'[t] >= SpaceRequired(data_size)
      BY <1>1, <1>4, <2>1, <2>2 DEF RoomInv, HasRoom
    <3> QED BY <2>1, <3>1
  <2>3. CASE t # s
    BY <1>1, <2>1, <2>3 DEF RoomInv
  <2> QED BY <2>2, <2>3
<1>6. \A t \in MainShard : remaining_space'[t] <= capacity - bytes[t]
  BY <1>1, <1>3, <1>4 DEF RoomInv
<1> QED BY <1>1, <1>2, <1>3, <1>4, <1>5, <1>6 DEF RoomInv, PickedHasRoom

\* The best estimate is that of a shard with room, if there is one.
LEMMA PickRoom ==
  ASSUME RoomInv, NEW s \in MainShard, Pick(s)
  PROVE  RoomInv'
<1>1. /\ step = "choose" /\ step' = "marker" /\ target' = s /\ target = None /\ stale = {}
      /\ UNCHANGED <<PAGE_SIZE, shard_pipes, capacity, bytes, remaining_space, data_size,
                     left, readable_len, roomy>>
      /\ \A t \in MainShard : remaining_space[t] <= remaining_space[s]
  BY DEF Pick, RoomInv, sizeVars, hostVars, pipeVars
<1>2. /\ MainShard' = MainShard
      /\ \A n : SpaceRequired(n)' = SpaceRequired(n)
      /\ \A t, n : HasRoom(t, n)' = HasRoom(t, n)
  BY <1>1, Quiet
<1>3. \A t : Lag(t) = 0 /\ Lag(t)' = 0
  BY <1>1 DEF Lag
<1>4. ASSUME roomy
      PROVE  HasRoom(s, data_size)
  <2>1. PICK t \in MainShard : remaining_space[t] >= SpaceRequired(data_size)
    BY <1>1, <1>4 DEF RoomInv
  <2>2. remaining_space[s] >= SpaceRequired(data_size)
    BY <1>1, <2>1 DEF RoomInv, SpaceRequired
  <2> QED BY <1>3, <2>2 DEF RoomInv, HasRoom, SpaceRequired
<1> QED BY <1>1, <1>2, <1>3, <1>4 DEF RoomInv, PickedHasRoom

\* What goes into the pipe of the target is what its estimate lags by, and no
\* more than is deducted in the end.
LEMMA WrittenRoom ==
  ASSUME RoomInv, step \in {"marker", "data"}, NEW n \in Nat, NEW k \in Nat,
         bytes' = [bytes EXCEPT ![target] = @ + n],
         UNCHANGED <<PAGE_SIZE, shard_pipes, capacity, readable_len>>,
         step = "marker" => n = 1 /\ k = data_size,
         step = "data" => left = n + k,
         \/ /\ k = 0
            /\ ChunkWritten
            /\ left' \in Nat
         \/ /\ step' = "data"
            /\ left' = k
            /\ UNCHANGED <<remaining_space, target, data_size>>
  PROVE  RoomInv'
<1>1. target \in MainShard /\ target \in AllShard /\ MainShard' = MainShard
  BY DEF RoomInv, MainShard, Shard
<1>2. bytes' \in [AllShard -> Nat]
  BY <1>1 DEF RoomInv
<1>3. \A s \in MainShard : s # target => Lag(s) = 0 /\ Lag(s)' = 0
  <2>1. target' \in {target, None}
    BY DEF ChunkWritten
  <2>2. None \notin MainShard
    BY SpaceAssumption DEF RoomInv
  <2> QED BY <2>1, <2>2 DEF Lag
<1>4. bytes'[target] = bytes[target] + n /\ \A s \in MainShard : s # target => bytes'[s] = bytes[s]
  BY <1>1 DEF RoomInv
<1>5. remaining_space[target] <= capacity - bytes'[target] + 1 + data_size - k
  BY <1>1, <1>4 DEF RoomInv, Lag
<1>6. CASE k = 0 /\ ChunkWritten /\ left' \in Nat
  <2>1. remaining_space' = [remaining_space EXCEPT ![target] = @ - (PAGE_SIZE + data_size)]
    BY <1>6 DEF ChunkWritten, Deduct, SpaceRequired
  <2>2. remaining_space' \in [AllShard -> Int]
    BY <1>1, <2>1 DEF RoomInv
  <2>3. target' = None /\ data_size' = 0 /\ step' \in {"idle", "loop"}
    BY <1>6 DEF ChunkWritten
  <2>4. \A s \in MainShard : Lag(s)' = 0
    BY <2>3 DEF Lag
  <2>5. \A s \in MainShard : remaining_space'[s] <= capacity - bytes'[s]
    <3>1. ASSUME NEW s \in MainShard, s = target
          PROVE  remaining_space'[s] <= capacity - bytes'[s]
      BY <1>1, <1>2, <1>5, <1>6, <2>1, <3>1 DEF RoomInv
    <3>2. ASSUME NEW s \in MainShard, s # target
          PROVE  remaining_space'[s] <= capacity - bytes'[s]
      BY <1>3, <1>4, <2>1, <3>2 DEF RoomInv
    <3> QED BY <3>1, <3>2
  <2>6. \A s \in MainShard : remaining_space'[s] <= capacity' - bytes'[s] + Lag(s)'
    BY <1>1, <1>2, <2>2, <2>4, <2>5 DEF RoomInv
  <2> QED BY <1>1, <1>2, <1>6, <2>2, <2>3, <2>6 DEF RoomInv, PickedHasRoom
<1>7. CASE step' = "data" /\ left' = k /\ UNCHANGED <<remaining_space, target, data_size>>
  <2>1. Lag(target)' = 1 + data_size - k
    BY <1>7 DEF Lag
  <2>2. \A s \in MainShard : remaining_space'[s] <= capacity' - bytes'[s] + Lag(s)'
    <3>1. ASSUME NEW s \in MainShard, s = target
          PROVE  remaining_space'[s] <= capacity' - bytes'[s] + Lag(s)'
      BY <1>1, <1>2, <1>5, <1>7, <2>1, <3>1 DEF RoomInv
    <3>2. ASSUME NEW s \in MainShard, s # target
          PROVE  remaining_space'[s] <= capacity' - bytes'[s] + Lag(s)'
      BY <1>3, <1>4, <1>7, <3>2 DEF RoomInv
    <3> QED BY <3>1, <3>2
  <2> QED BY <1>1, <1>2, <1>7, <2>2 DEF RoomInv, PickedHasRoom
<1> QED BY <1>6, <1>7

LEMMA UploadRoom ==
  ASSUME RoomInv, NEW s \in AllShard, Upload(s)
  PROVE  RoomInv'
<1>1. /\ s \in MainShard /\ bytes[s] > 0
      /\ bytes' = [bytes EXCEPT ![s] = @ - 1]
      /\ UNCHANGED <<PAGE_SIZE, shard_pipes, capacity, remaining_space, step, stale, target,
                     data_size, left, readable_len, roomy>>
  BY DEF Upload, sizeVars, hostVars, chunkVars
<1>2. bytes[s] \in Nat /\ step # "size"
  BY <1>1 DEF RoomInv
<1>3. bytes' \in [AllShard -> Nat] /\ \A t \in MainShard : bytes'[t] <= bytes[t]
  BY <1>1, <1>2 DEF RoomInv
<1>4. /\ MainShard' = MainShard
      /\ \A n : SpaceRequired(n)' = SpaceRequired(n)
      /\ \A t : Lag(t)' = Lag(t)
  BY <1>1 DEF MainShard, Shard, SpaceRequired, Lag
<1>5. \A t \in MainShard : HasRoom(t, data_size) => HasRoom(t, data_size)'
  BY <1>1, <1>3, <1>4 DEF HasRoom, RoomInv, SpaceRequired
<1>6. \A t \in MainShard : remaining_space[t] <= capacity - bytes'[t] + Lag(t)
  <2>1. ASSUME NEW t \in MainShard
        PROVE  remaining_space[t] <= capacity - bytes'[t] + Lag(t)
    <3>1. Lag(t) \in Int /\ bytes[t] \in Nat /\ bytes'[t] \in Nat /\ remaining_space[t] \in Int
      BY <1>3 DEF RoomInv, Lag
    <3>2. remaining_space[t] <= capacity - bytes[t] + Lag(t)
      BY DEF RoomInv
    <3> QED BY <1>3, <3>1, <3>2 DEF RoomInv
  <2> QED BY <2>1
<1> QED BY <1>1, <1>2, <1>3, <1>4, <1>5, <1>6 DEF RoomInv, PickedHasRoom

LEMMA SizesRoom ==
  ASSUME RoomInv, SetCapacity \/ SetCapacityFails \/ Sized
  PROVE  RoomInv'
<1>1. /\ step = "size" /\ step' \in {"size", "idle", "panicked"}
      /\ capacity' \in Nat
      /\ UNCHANGED <<PAGE_SIZE, shard_pipes, bytes, remaining_space, target,
                     data_size, left, readable_len, roomy>>
  BY DEF SetCapacity, SetCapacityFails, Sized, sizeVars, hostVars, pipeVars, chunkVars, RoomInv
<1>2. MainShard' = MainShard
  BY <1>1 DEF MainShard, Shard
<1>3. \A s : Lag(s)' = 0
  BY <1>1 DEF Lag
<1>4. \A s \in MainShard : bytes[s] = 0 /\ remaining_space[s] = 0
  BY <1>1 DEF RoomInv
<1> QED BY <1>1, <1>2, <1>3, <1>4 DEF RoomInv, PickedHasRoom

LEMMA NextRoom ==
  RoomInv /\ [Next]_vars => RoomInv'
<1> SUFFICES ASSUME RoomInv, [Next]_vars
             PROVE  RoomInv'
  OBVIOUS
<1>0. \A n \in 1..MaxReadable : n \in Nat
  BY SpaceAssumption
<1>1. CASE SetCapacity \/ SetCapacityFails \/ Sized
  BY <1>1, SizesRoom
<1>2. CASE NextChunk
  <2> DEFINE n == IF readable_len < ChunkMax THEN readable_len ELSE ChunkMax
  <2>1. n \in Nat /\ readable_len - n \in Nat
    <3>1. ChunkMax \in Nat
      BY DEF ChunkMax, RoomInv
    <3> QED BY <3>1 DEF RoomInv
  <2>2. /\ BeginChunk(n) /\ step = "loop"
        /\ readable_len' = readable_len - n
        /\ UNCHANGED <<PAGE_SIZE, shard_pipes, capacity, bytes, remaining_space, left, target>>
    BY <1>2 DEF NextChunk, sizeVars, hostVars, pipeVars
  <2> HIDE DEF n
  <2> QED BY <2>1, <2>2, BeginChunkRoom
<1>3. CASE WriteControl
  <2>1. /\ BeginChunk(0) /\ step = "idle"
        /\ UNCHANGED <<PAGE_SIZE, shard_pipes, capacity, bytes, remaining_space, left, target,
                       readable_len>>
    BY <1>3 DEF WriteControl, sizeVars, hostVars, pipeVars
  <2>2. readable_len \in Nat
    BY DEF RoomInv
  <2> QED BY <2>1, <2>2, BeginChunkRoom
<1>4. ASSUME NEW n \in 1..MaxReadable, DrainFile(n)
      PROVE  RoomInv'
  <2>1. /\ readable_len' \in Nat /\ step = "idle" /\ step' = "loop"
        /\ UNCHANGED <<PAGE_SIZE, shard_pipes, capacity, bytes, remaining_space, data_size, left,
                       target>>
    BY <1>0, <1>4 DEF DrainFile, sizeVars, hostVars, pipeVars
  <2>2. MainShard' = MainShard /\ \A s : Lag(s)' = 0 /\ Lag(s) = 0
    BY <2>1 DEF MainShard, Shard, Lag
  <2> QED BY <2>1, <2>2 DEF RoomInv, PickedHasRoom
<1>5. CASE LoopEnds
  <2>1. /\ step = "loop" /\ step' = "idle"
        /\ UNCHANGED <<PAGE_SIZE, shard_pipes, capacity, bytes, remaining_space, data_size, left,
                       target, readable_len>>
    BY <1>5 DEF LoopEnds, sizeVars, hostVars, pipeVars, chunkVars
  <2>2. MainShard' = MainShard /\ \A s : Lag(s)' = 0 /\ Lag(s) = 0
    BY <2>1 DEF MainShard, Shard, Lag
  <2> QED BY <2>1, <2>2 DEF RoomInv, PickedHasRoom
<1>6. ASSUME NEW s \in MainShard, Refresh(s) \/ Pick(s)
      PROVE  RoomInv'
  BY <1>6, RefreshRoom, PickRoom
<1>7. CASE WriteMarker
  <2>1. /\ step = "marker"
        /\ bytes' = [bytes EXCEPT ![target] = @ + 1]
        /\ UNCHANGED <<PAGE_SIZE, shard_pipes, capacity, readable_len>>
    BY <1>7 DEF WriteMarker, Fill, sizeVars, hostVars
  <2>2. data_size \in Nat /\ left \in Nat
    BY DEF RoomInv
  <2>3. \/ data_size = 0 /\ ChunkWritten /\ left' = left
        \/ /\ step' = "data" /\ left' = data_size
           /\ UNCHANGED <<remaining_space, target, data_size>>
    BY <1>7 DEF WriteMarker
  <2> QED BY <2>1, <2>2, <2>3, WrittenRoom
<1>8. CASE SpliceData
  <2>1. PICK n \in 1..PAGE_SIZE : n <= left /\ Fill(n, TRUE) /\ left' = left - n
    BY <1>8 DEF SpliceData
  <2>2. /\ step = "data"
        /\ bytes' = [bytes EXCEPT ![target] = @ + n]
        /\ UNCHANGED <<PAGE_SIZE, shard_pipes, capacity, readable_len>>
    BY <1>8, <2>1 DEF SpliceData, Fill, sizeVars, hostVars
  <2>3. n \in Nat /\ left - n \in Nat /\ left = n + (left - n)
    BY <2>1 DEF RoomInv
  <2>4. \/ left - n = 0 /\ ChunkWritten /\ left' \in Nat
        \/ /\ step' = "data" /\ left' = left - n
           /\ UNCHANGED <<remaining_space, target, data_size>>
    BY <1>8, <2>1, <2>2, <2>3 DEF SpliceData
  <2> QED BY <2>2, <2>3, <2>4, WrittenRoom
<1>9. ASSUME NEW s \in AllShard, Upload(s)
      PROVE  RoomInv'
  BY <1>9, UploadRoom
<1>10. CASE UNCHANGED vars
  <2>1. UNCHANGED <<PAGE_SIZE, shard_pipes, capacity, bytes, remaining_space, step, stale,
                    target, data_size, left, readable_len, roomy>>
    BY <1>10 DEF vars, sizeVars, hostVars, pipeVars, chunkVars
  <2>2. /\ MainShard' = MainShard
        /\ \A n : SpaceRequired(n)' = SpaceRequired(n)
        /\ \A s : Lag(s)' = Lag(s)
        /\ \A s, n : HasRoom(s, n)' = HasRoom(s, n)
    BY <2>1 DEF MainShard, Shard, SpaceRequired, HasRoom, Lag
  <2> QED BY <2>1, <2>2 DEF RoomInv, PickedHasRoom
<1> QED BY <1>1, <1>2, <1>3, <1>4, <1>5, <1>6, <1>7, <1>8, <1>9, <1>10 DEF Next, Thread, Work

\* Whatever is uploaded, drained and refreshed, an estimate lags behind its pipe by no
\* more than what is being written, and a pick rests on one that is right: RoomInv.
THEOREM RoomKept ==
  Spec => []RoomInv
<1>1. Init => RoomInv
  BY InitRoom
<1>2. RoomInv /\ [Next]_vars => RoomInv'
  BY NextRoom
<1> QED BY <1>1, <1>2, PTL DEF Spec

\* However the uploads and the draining interleave, no estimate of a shard that
\* is not being written to is above the units its pipe has room for.
THEOREM EstimatesHold ==
  Spec => []EstimateIsLowerBound
<1>1. RoomInv => EstimateIsLowerBound
  <2> SUFFICES ASSUME RoomInv, NEW s \in MainShard, target # s
               PROVE  remaining_space[s] <= capacity - bytes[s]
    BY DEF EstimateIsLowerBound
  <2>1. Lag(s) = 0
    BY DEF Lag
  <2> QED BY <2>1 DEF RoomInv
<1> QED BY <1>1, RoomKept, PTL

\* When some shard has room for a chunk as it is begun, the one that is picked has.
THEOREM PickHasRoom ==
  Spec => []PickedHasRoom
<1>1. RoomInv => PickedHasRoom
  BY DEF RoomInv
<1> QED BY <1>1, RoomKept, PTL

-----------------------------------------------------------------------------
\* The sizes of the pipes.

\* A capacity is a power of two of pages, and so is half of it.
LEMMA Halved ==
  ASSUME NEW p \in Nat \ {0}, NEW k \in Nat
  PROVE  /\ 2^k \in Nat \ {0}
         /\ p * 2^k \in Nat
         /\ (p * 2^k) \div p = 2^k
         /\ k = 0 => 2^k = 1
         /\ k # 0 => /\ 2^k = 2 * 2^(k - 1)
                     /\ 2^(k - 1) \in Nat \ {0}
                     /\ p * 2^k > p
                     /\ p * 2^k = 2 * (p * 2^(k - 1))
                     /\ (p * 2^k) \div 2 = p * 2^(k - 1)
<1>1. 2^k \in Nat \ {0}
  BY PowerType
<1>2. \A q \in Nat \ {0} : p * q \in Nat /\ (p * q) \div p = q /\ p * q >= p
  OBVIOUS
<1>3. \A q \in Nat \ {0} : p * (2 * q) = 2 * (p * q) /\ 2 * (p * q) > p
  BY <1>2
<1>4. \A n \in Nat : (2 * n) \div 2 = n
  OBVIOUS
<1>5. 2^0 = 1
  OBVIOUS
<1>6. k = 0 => 2^k = 1
  BY <1>5, Zenon
<1>7. ASSUME k # 0
      PROVE  2^k = 2 * 2^(k - 1) /\ 2^(k - 1) \in Nat \ {0}
  <2>1. k - 1 \in Nat /\ (k - 1) + 1 = k
    BY <1>7
  <2>2. 2^((k - 1) + 1) = 2 * 2^(k - 1)
    BY <2>1, Doubling
  <2>3. 2^(k - 1) \in Nat \ {0}
    BY <2>1, PowerType
  <2> QED BY <2>1, <2>2, <2>3
<1> QED BY <1>1, <1>2, <1>3, <1>4, <1>6, <1>7

\* While the pipes are set to what capacity is, those set have it; of the others,
\* those that an earlier try has reached have more, and the rest are as they were
\* created.
SizesInv ==
  /\ shard_pipes \in Seq(AllShard) /\ Len(shard_pipes) >= 2
  /\ \A i, j \in 1..Len(shard_pipes) : shard_pipes[i] = shard_pipes[j] => i = j
  /\ PAGE_SIZE \in Nat \ {0} /\ limit \in Nat
  /\ size \in [AllShard -> Nat \ {0}]
  /\ sized \in 0..Len(shard_pipes)
  /\ \E k \in Nat : capacity = PAGE_SIZE * 2^k
  /\ \/ capacity = DesiredCapacity
     \/ 2 * capacity * Cardinality(Shard) > limit * PAGE_SIZE
  /\ \A i \in 1..sized : size[shard_pipes[i]] = NextPages
  /\ \E m \in sized..Len(shard_pipes) :
       /\ \A i \in 1..m : size[shard_pipes[i]] >= NextPages
       /\ \A i \in (m + 1)..Len(shard_pipes) : size[shard_pipes[i]] = InitialPages
  /\ step # "size" => sized = Len(shard_pipes)
  /\ step # "panicked"

\* The shards are as many as there are places in the list.
LEMMA ShardsFinite ==
  ASSUME SizesInv
  PROVE  IsFiniteSet(Shard) /\ Shard \subseteq AllShard
<1>1. Len(shard_pipes) \in Nat /\ \A i \in 1..Len(shard_pipes) : shard_pipes[i] \in AllShard
  BY DEF SizesInv
<1>2. IsFiniteSet(1..Len(shard_pipes))
  BY <1>1, FS_Interval
<1>3. shard_pipes \in [1..Len(shard_pipes) -> Shard]
  BY <1>1 DEF Shard, SizesInv
<1>4. shard_pipes \in Surjection(1..Len(shard_pipes), Shard)
  BY <1>3 DEF Surjection, Shard
<1>5. IsFiniteSet(Shard)
  BY <1>2, <1>4, FS_Surjection
<1> QED BY <1>1, <1>5 DEF Shard

\* A pipe that may not grow is the first that no try has reached; all of them at
\* this capacity would be more than the limit.
LEMMA TooMuch ==
  ASSUME SizesInv, sized < Len(shard_pipes), ~Permitted(shard_pipes[sized + 1], NextPages),
         NextPages \in Nat \ {0}
  PROVE  /\ NextPages > 1
         /\ limit < NextPages * Cardinality(Shard)
<1> DEFINE q == NextPages
           s == shard_pipes[sized + 1]
           more == [size EXCEPT ![s] = q]
<1>0. IsFiniteSet(Shard) /\ Shard \subseteq AllShard
  BY ShardsFinite
<1>1. /\ sized \in Nat /\ Len(shard_pipes) \in Nat /\ sized + 1 \in 1..Len(shard_pipes)
      /\ s \in AllShard /\ s \in Shard
  BY DEF SizesInv, Shard
<1>2. size[s] < q /\ limit < AllPages - size[s] + q
  <2>1. size[s] \in Nat /\ limit \in Nat
    BY <1>1 DEF SizesInv
  <2>2. AllPages \in Int
    <3>1. IntegersOn(size, Shard)
      BY <1>0 DEF IntegersOn, SizesInv
    <3>2. SumOver(size, Shard) \in Int
      BY <3>1, <1>0, SumType
    <3> QED BY <3>2 DEF AllPages, SumOver
  <2>3. ~(q <= size[s]) /\ ~(AllPages - size[s] + q <= limit)
    BY DEF Permitted
  <2>4. q \in Nat
    OBVIOUS
  <2> HIDE DEF q, s
  <2> QED BY <2>1, <2>2, <2>3, <2>4
<1>3. PICK m \in sized..Len(shard_pipes) :
        /\ \A i \in 1..m : size[shard_pipes[i]] >= q
        /\ \A i \in (m + 1)..Len(shard_pipes) : size[shard_pipes[i]] = InitialPages
  BY DEF SizesInv
<1>4. m = sized
  <2>1. CASE m >= sized + 1
    <3>1. size[s] >= q
      BY <1>1, <1>3, <2>1
    <3> QED BY <1>1, <1>2, <3>1 DEF SizesInv
  <2> QED BY <1>1, <1>3, <2>1
<1>5. size[s] = InitialPages
  BY <1>1, <1>3, <1>4
<1>6. \A t \in Shard : more[t] \in Int /\ more[t] <= q
  <2>1. ASSUME NEW i \in 1..Len(shard_pipes)
        PROVE  size[shard_pipes[i]] <= q
    <3>1. CASE i <= sized
      <4>1. \A k \in 1..sized : size[shard_pipes[k]] = q
        BY DEF SizesInv
      <4>2. i \in 1..sized /\ q \in Nat
        BY <1>1, <3>1 DEF SizesInv
      <4> HIDE DEF q
      <4> QED BY ONLY <4>1, <4>2
    <3>2. CASE i > sized
      <4>1. size[shard_pipes[i]] = InitialPages
        BY <1>1, <1>3, <1>4, <3>2
      <4>2. size[s] < q /\ size[s] \in Nat /\ q \in Nat
        BY <1>1, <1>2 DEF SizesInv
      <4> HIDE DEF q, s
      <4> QED BY ONLY <1>5, <4>1, <4>2
    <3> QED BY <1>1, <3>1, <3>2
  <2>2. \A t \in Shard : size[t] \in Nat /\ size[t] <= q
    BY <2>1, <1>0 DEF Shard, SizesInv
  <2> QED BY <2>2, <1>0 DEF SizesInv
<1>7. SumOver(more, Shard) = AllPages - size[s] + q
  <2>1. IntegersOn(size, Shard) /\ IntegersOn(more, Shard)
    BY <1>6, <1>0 DEF IntegersOn, SizesInv
  <2>2. more[s] = q /\ \A t \in Shard \ {s} : more[t] = size[t]
    BY <1>1, <1>0 DEF SizesInv
  <2>3. SumOver(more, Shard) = SumOver(size, Shard) - size[s] + more[s]
    <3> HIDE DEF more, s
    <3> QED BY <1>1, <2>1, <2>2, <1>0, SumUpdate
  <2> QED BY <2>2, <2>3 DEF AllPages, SumOver
<1>8. SumOver(more, Shard) <= q * Cardinality(Shard)
  <2>1. IntegersOn(more, Shard) /\ q \in Int
    BY <1>6 DEF IntegersOn
  <2> HIDE DEF more, q
  <2> QED BY <1>6, <2>1, <1>0, SumBound
<1>9. /\ size[s] \in Nat \ {0} /\ Cardinality(Shard) \in Nat /\ limit \in Nat
      /\ q * Cardinality(Shard) \in Int
  <2>1. size[s] \in Nat \ {0} /\ limit \in Nat
    BY <1>1 DEF SizesInv
  <2>2. Cardinality(Shard) \in Nat
    BY <1>0, FS_CardinalityType
  <2> HIDE DEF s
  <2> QED BY <2>1, <2>2
<1>10. AllPages - size[s] + q <= q * Cardinality(Shard)
  BY <1>7, <1>8
<1>11. AllPages - size[s] + q \in Int
  <2>1. IntegersOn(more, Shard)
    BY <1>6 DEF IntegersOn
  <2>2. SumOver(more, Shard) \in Int
    BY <2>1, <1>0, SumType
  <2> QED BY <1>7, <2>2
<1> HIDE DEF q, s, more
<1>12. q > 1
  BY <1>2, <1>9 DEF q
<1>13. limit < q * Cardinality(Shard)
  BY <1>2, <1>9, <1>10, <1>11
<1> QED BY <1>12, <1>13 DEF q

LEMMA SizesInit ==
  Init => SizesInv
<1> SUFFICES ASSUME Init
             PROVE  SizesInv
  OBVIOUS
<1>1. PICK host \in Hosts :
        PAGE_SIZE = host.PAGE_SIZE /\ limit = host.limit /\ shard_pipes = host.shard_pipes
  BY DEF Init
<1>2. /\ PAGE_SIZE \in Nat \ {0} /\ limit \in Nat
      /\ shard_pipes \in Seq(AllShard) /\ Len(shard_pipes) >= 2
      /\ Cardinality(PipesOf(host)) = Len(shard_pipes)
  BY <1>1, SpaceAssumption
<1>3. PICK k \in 0..20 : capacity = PAGE_SIZE * 2^k
  BY <1>1, SpaceAssumption DEF Init
<1>4. k \in Nat
  OBVIOUS
<1>5. \A i, j \in 1..Len(shard_pipes) : shard_pipes[i] = shard_pipes[j] => i = j
  <2> DEFINE n == Len(shard_pipes)
  <2>1. n \in Nat /\ IsFiniteSet(1..n) /\ Cardinality(1..n) = n
    BY <1>2, FS_Interval
  <2>2. PipesOf(host) = {shard_pipes[i] : i \in 1..n}
    BY <1>1 DEF PipesOf
  <2>3. shard_pipes \in Surjection(1..n, PipesOf(host))
    <3>1. shard_pipes \in [1..n -> PipesOf(host)]
      <4>1. shard_pipes = [i \in 1..n |-> shard_pipes[i]]
        BY <1>2
      <4>2. \A i \in 1..n : shard_pipes[i] \in PipesOf(host)
        BY <2>2
      <4> HIDE DEF n
      <4> QED BY <4>1, <4>2
    <3> QED BY <2>2, <3>1 DEF Surjection
  <2>4. shard_pipes \in Injection(1..n, PipesOf(host))
    <3> HIDE DEF n
    <3>1. Cardinality(PipesOf(host)) = Cardinality(1..n)
      BY <1>2, <2>1 DEF n
    <3> QED BY <2>1, <2>3, <3>1, FS_Surjection
  <2> QED BY <2>4 DEF Injection, IsInjective
<1>6. size \in [AllShard -> Nat \ {0}] /\ \A s \in AllShard : size[s] = InitialPages
  BY SpaceAssumption DEF Init
<1>7. sized = 0 /\ sized \in 0..Len(shard_pipes)
  BY <1>2 DEF Init
<1>8. /\ \A i \in 1..0 : size[shard_pipes[i]] >= NextPages
      /\ \A i \in 1..Len(shard_pipes) : size[shard_pipes[i]] = InitialPages
  BY <1>2, <1>6
<1>9. \E m \in sized..Len(shard_pipes) :
        /\ \A i \in 1..m : size[shard_pipes[i]] >= NextPages
        /\ \A i \in (m + 1)..Len(shard_pipes) : size[shard_pipes[i]] = InitialPages
  <2>1. 0 \in sized..Len(shard_pipes) /\ 0 + 1 = 1
    BY <1>7, <1>2
  <2> QED BY <1>8, <2>1
<1>10. step = "size" /\ capacity = DesiredCapacity
  BY DEF Init
<1> QED BY <1>2, <1>3, <1>4, <1>5, <1>6, <1>7, <1>9, <1>10 DEF SizesInv

\* Once the pipes are sized nothing changes their sizes.
LEMMA SizesQuiet ==
  ASSUME SizesInv, UNCHANGED sizeVars, step' # "panicked",
         step' # "size" => sized = Len(shard_pipes)
  PROVE  SizesInv'
<1>1. UNCHANGED <<PAGE_SIZE, limit, shard_pipes, size, sized, capacity>>
  BY DEF sizeVars, hostVars
<1>2. Shard' = Shard /\ NextPages' = NextPages
  BY <1>1 DEF Shard, NextPages
<1> QED BY <1>1, <1>2 DEF SizesInv

LEMMA SetCapacitySizes ==
  ASSUME SizesInv, SetCapacity
  PROVE  SizesInv'
<1> DEFINE n == Len(shard_pipes)
           s == shard_pipes[sized + 1]
           q == NextPages
<1>1. /\ step = "size" /\ step' = "size" /\ sized < n
      /\ size' = [size EXCEPT ![s] = q]
      /\ sized' = sized + 1
      /\ UNCHANGED <<PAGE_SIZE, limit, shard_pipes, capacity>>
  BY DEF SetCapacity, hostVars
<1>2. /\ sized \in Nat /\ n \in Nat /\ sized + 1 \in 1..n
      /\ \A i \in 1..n : shard_pipes[i] \in AllShard
      /\ s \in AllShard
  BY <1>1 DEF SizesInv
<1>3. PICK k \in Nat : capacity = PAGE_SIZE * 2^k
  BY DEF SizesInv
<1>4. q \in Nat \ {0}
  <2>1. PAGE_SIZE \in Nat \ {0}
    BY DEF SizesInv
  <2>2. (PAGE_SIZE * 2^k) \div PAGE_SIZE = 2^k /\ 2^k \in Nat \ {0}
    BY <2>1, Halved
  <2> QED BY <1>3, <2>2 DEF NextPages
<1>5. Shard' = Shard /\ NextPages' = q
  BY <1>1 DEF Shard, NextPages
<1>6. size' \in [AllShard -> Nat \ {0}]
  BY <1>1, <1>2, <1>4 DEF SizesInv
<1>7. \A i \in 1..n : size'[shard_pipes[i]] = IF i = sized + 1 THEN q ELSE size[shard_pipes[i]]
  <2>1. ASSUME NEW i \in 1..n, i # sized + 1
        PROVE  shard_pipes[i] # s
    BY <1>2, <2>1 DEF SizesInv
  <2>2. size \in [AllShard -> Nat \ {0}]
    BY DEF SizesInv
  <2> HIDE DEF n, q
  <2> QED BY <1>1, <1>2, <2>1, <2>2
<1>8. \A i \in 1..sized' : size'[shard_pipes[i]] = q
  BY <1>1, <1>2, <1>7 DEF SizesInv
<1>9. PICK m \in sized..n :
        /\ \A i \in 1..m : size[shard_pipes[i]] >= q
        /\ \A i \in (m + 1)..n : size[shard_pipes[i]] = InitialPages
  BY DEF SizesInv
<1>10. PICK o \in (sized + 1)..n : o = IF m = sized THEN sized + 1 ELSE m
  BY <1>2, <1>9
<1>11. \A i \in 1..o : size'[shard_pipes[i]] >= q
  <2> HIDE DEF q, n, s
  <2> QED BY <1>2, <1>4, <1>7, <1>9, <1>10
<1>12. \A i \in (o + 1)..n : size'[shard_pipes[i]] = InitialPages
  <2> HIDE DEF q, n, s
  <2> QED BY <1>2, <1>7, <1>9, <1>10
<1>13. sized' \in 0..n /\ o \in sized'..n
  BY <1>1, <1>2, <1>10
<1> HIDE DEF q, n
<1>14. \E m1 \in sized'..Len(shard_pipes') :
         /\ \A i \in 1..m1 : size'[shard_pipes'[i]] >= NextPages'
         /\ \A i \in (m1 + 1)..Len(shard_pipes') : size'[shard_pipes'[i]] = InitialPages
  BY <1>1, <1>5, <1>11, <1>12, <1>13 DEF n
<1>15. \A i \in 1..sized' : size'[shard_pipes'[i]] = NextPages'
  BY <1>1, <1>5, <1>8
<1> QED BY <1>1, <1>5, <1>6, <1>13, <1>14, <1>15 DEF SizesInv, n

LEMMA SetCapacityFailsSizes ==
  ASSUME SizesInv, SetCapacityFails
  PROVE  SizesInv'
<1> DEFINE n == Len(shard_pipes)
<1>1. PICK k \in Nat : capacity = PAGE_SIZE * 2^k
  BY DEF SizesInv
<1>2. PAGE_SIZE \in Nat \ {0} /\ limit \in Nat
  BY DEF SizesInv
<1>3. NextPages = 2^k /\ NextPages \in Nat \ {0}
  BY <1>1, <1>2, Halved DEF NextPages
<1>4. NextPages > 1 /\ limit < NextPages * Cardinality(Shard)
  BY <1>3, TooMuch DEF SetCapacityFails
<1>5. k # 0
  BY <1>2, <1>3, <1>4, Halved
<1>6. PICK h : h = 2^(k - 1)
  OBVIOUS
<1>7. /\ NextPages = 2 * h /\ h \in Nat \ {0}
      /\ capacity > PAGE_SIZE
      /\ capacity = 2 * (PAGE_SIZE * h)
      /\ capacity \div 2 = PAGE_SIZE * h
  BY <1>1, <1>2, <1>3, <1>5, <1>6, Halved
<1>8. /\ step = "size" /\ step' = "size"
      /\ capacity' = PAGE_SIZE * h
      /\ sized' = 0
      /\ UNCHANGED <<PAGE_SIZE, limit, shard_pipes, size>>
  BY <1>7 DEF SetCapacityFails, Retry, hostVars
<1>9. NextPages' = h
  <2>1. (PAGE_SIZE * h) \div PAGE_SIZE = h
    BY <1>2, <1>5, <1>6, Halved, k - 1 \in Nat
  <2> QED BY <1>8, <2>1 DEF NextPages
<1>10. Shard' = Shard
  BY <1>8 DEF Shard
<1>11. 2 * capacity' * Cardinality(Shard) > limit * PAGE_SIZE
  <2>1. Cardinality(Shard) \in Nat
    BY ShardsFinite, FS_CardinalityType
  <2>2. \A c \in Nat, p \in Nat \ {0}, l \in Nat, a \in Nat :
          l < (2 * a) * c => 2 * (p * a) * c > l * p
    <3>1. \A x, l \in Nat, p \in Nat \ {0} : l < x => p * x > l * p
      OBVIOUS
    <3>2. \A c \in Nat, p \in Nat \ {0}, a \in Nat :
            (2 * a) * c \in Nat /\ 2 * (p * a) * c = p * ((2 * a) * c)
      OBVIOUS
    <3> QED BY <3>1, <3>2
  <2> QED BY <1>2, <1>4, <1>7, <1>8, <2>1, <2>2
<1>12. PICK m \in sized..n :
         /\ \A i \in 1..m : size[shard_pipes[i]] >= NextPages
         /\ \A i \in (m + 1)..n : size[shard_pipes[i]] = InitialPages
  BY DEF SizesInv
<1>13. /\ m \in 0..n /\ n \in Nat
       /\ \A i \in 1..n : size[shard_pipes[i]] \in Nat
  BY <1>12 DEF SizesInv
<1>14. \A i \in 1..m : size[shard_pipes[i]] >= h
  BY <1>7, <1>12, <1>13
<1>15. \E k1 \in Nat : capacity' = PAGE_SIZE' * 2^k1
  BY <1>5, <1>6, <1>8, k - 1 \in Nat
<1>16. \E m1 \in sized'..Len(shard_pipes') :
         /\ \A i \in 1..m1 : size'[shard_pipes'[i]] >= NextPages'
         /\ \A i \in (m1 + 1)..Len(shard_pipes') : size'[shard_pipes'[i]] = InitialPages
  BY <1>8, <1>9, <1>12, <1>13, <1>14
<1>17. sized' \in 0..Len(shard_pipes') /\ 1..sized' = {}
  BY <1>8, <1>13
<1> QED BY <1>8, <1>10, <1>11, <1>15, <1>16, <1>17 DEF SizesInv

LEMMA NextSizes ==
  SizesInv /\ [Next]_vars => SizesInv'
<1> SUFFICES ASSUME SizesInv, [Next]_vars
             PROVE  SizesInv'
  OBVIOUS
<1>1. CASE SetCapacity
  BY <1>1, SetCapacitySizes
<1>2. CASE SetCapacityFails
  BY <1>2, SetCapacityFailsSizes
<1>3. CASE Sized
  BY <1>3, SizesQuiet DEF Sized
<1>4. CASE \/ NextChunk \/ LoopEnds \/ WriteMarker \/ SpliceData \/ WriteControl
           \/ \E s \in MainShard : Refresh(s) \/ Pick(s)
           \/ \E n \in 1..MaxReadable : DrainFile(n)
  <2>1. UNCHANGED sizeVars /\ step # "size" /\ step' # "panicked"
    BY <1>4 DEF NextChunk, LoopEnds, WriteMarker, SpliceData, WriteControl, Refresh, Pick,
                DrainFile, BeginChunk, ChunkWritten
  <2>2. sized = Len(shard_pipes)
    BY <2>1 DEF SizesInv
  <2> QED BY <2>1, <2>2, SizesQuiet
<1>5. CASE (\E s \in AllShard : Upload(s)) \/ UNCHANGED vars
  <2>1. UNCHANGED <<sizeVars, step>>
    BY <1>5 DEF Upload, vars
  <2>2. step' # "panicked" /\ (step' # "size" => sized = Len(shard_pipes))
    BY <2>1 DEF SizesInv
  <2> QED BY <2>1, <2>2, SizesQuiet
<1> QED BY <1>1, <1>2, <1>3, <1>4, <1>5 DEF Next, Thread, Work

LEMMA SizesAreEqual ==
  SizesInv => SizesAgree
<1> SUFFICES ASSUME SizesInv, step # "size"
             PROVE  /\ \A s \in Shard : size[s] * PAGE_SIZE = capacity
                    /\ \/ capacity = DesiredCapacity
                       \/ 2 * capacity * Cardinality(Shard) > limit * PAGE_SIZE
  BY DEF SizesAgree
<1>1. PICK k \in Nat : capacity = PAGE_SIZE * 2^k
  BY DEF SizesInv
<1>2. PAGE_SIZE \in Nat \ {0}
  BY DEF SizesInv
<1>3. 2^k \in Nat \ {0} /\ NextPages = 2^k
  BY <1>1, <1>2, Halved DEF NextPages
<1>4. \A s \in Shard : size[s] = NextPages
  BY DEF SizesInv, Shard
<1>5. 2^k * PAGE_SIZE = PAGE_SIZE * 2^k
  BY <1>2, <1>3
<1> QED BY <1>1, <1>3, <1>4, <1>5 DEF SizesInv

\* Wherever the limit is met, and however often, increase_capacity() leaves all
\* the pipes with the one capacity capture reckons with, and not with half of what
\* the limit permits.
THEOREM SizesEqual ==
  Spec => []SizesAgree
<1>1. Spec => []SizesInv
  <2>1. Init => SizesInv
    BY SizesInit
  <2>2. SizesInv /\ [Next]_vars => SizesInv'
    BY NextSizes
  <2> QED BY <2>1, <2>2, PTL DEF Spec
<1>2. SizesInv => SizesAgree
  BY SizesAreEqual
<1> QED BY <1>1, <1>2, PTL

-----------------------------------------------------------------------------
\* The types.  An estimate is refreshed to what the pipe has room for, which is
\* not below zero, before the thread settles for one that is less than it needs;
\* so it is one chunk below zero at most when the chunk has been deducted.

EstimatesBounded ==
  /\ step # "data" => left = 0
  /\ step = "size" =>
       data_size = 0 /\ left = 0 /\ readable_len = 0 /\ \A s \in AllShard : pages[s] = 0
  /\ step = "choose" =>
       \/ stale = {} /\ \E s \in MainShard : remaining_space[s] >= 0
       \/ \A s \in MainShard \ stale : remaining_space[s] >= 0
  /\ step \in {"marker", "data"} => remaining_space[target] >= 0

SpaceInv == RoomInv /\ SizesInv /\ TypeOK /\ EstimatesBounded

\* The conjuncts of TypeOK by what they speak of.
PipesFit ==
  \A s \in MainShard : /\ pages[s] \in 0..size[s]
                       /\ bytes[s] \in pages[s]..(pages[s] * PAGE_SIZE)

EstimatesFit == \A s \in MainShard : remaining_space[s] \in -SpaceRequired(ChunkMax)..capacity

ThreadFits ==
  /\ step \in {"size", "idle", "loop", "choose", "marker", "data"}
  /\ size \in [AllShard -> Nat \ {0}]
  /\ sized \in 0..Len(shard_pipes)
  /\ pages \in [AllShard -> Nat]
  /\ readable_len \in 0..MaxReadable
  /\ data_size \in 0..ChunkMax
  /\ left \in 0..data_size
  /\ stale \subseteq MainShard
  /\ step \in {"marker", "data"} <=> target # None
  /\ target \in MainShard \cup {None}
  /\ roomy \in BOOLEAN

LEMMA ChunkType ==
  PAGE_SIZE \in Nat \ {0} /\ capacity \in Nat
    => ChunkMax \in Nat /\ SpaceRequired(ChunkMax) \in Nat
BY DEF ChunkMax, SpaceRequired

LEMMA TypesApart ==
  TypeOK <=> PipesFit /\ EstimatesFit /\ ThreadFits
<1>1. TypeOK => PipesFit
  BY DEF TypeOK, PipesFit
<1>2. TypeOK => EstimatesFit
  BY DEF TypeOK, EstimatesFit
<1>3. TypeOK => ThreadFits
  BY DEF TypeOK, ThreadFits
<1>4. ASSUME PipesFit, EstimatesFit, ThreadFits
      PROVE  TypeOK
  BY <1>4, Zenon DEF TypeOK, PipesFit, EstimatesFit, ThreadFits
<1> QED BY <1>1, <1>2, <1>3, <1>4

LEMMA SpaceInit ==
  Init => SpaceInv
<1> SUFFICES ASSUME Init
             PROVE  SpaceInv
  OBVIOUS
<1>1. RoomInv /\ SizesInv
  BY InitRoom, SizesInit
<1>2. /\ step = "size" /\ size \in [AllShard -> Nat \ {0}] /\ sized \in 0..Len(shard_pipes)
      /\ pages = [s \in AllShard |-> 0] /\ readable_len = 0 /\ data_size = 0 /\ left = 0
      /\ stale = {} /\ target = None /\ roomy = FALSE
      /\ \A s \in AllShard : bytes[s] = 0 /\ remaining_space[s] = 0
  BY <1>1 DEF Init, SizesInv
<1>3. /\ PAGE_SIZE \in Nat \ {0} /\ capacity \in Nat /\ MainShard \subseteq AllShard
      /\ MaxReadable \in Nat
  BY <1>1, SpaceAssumption DEF RoomInv
<1>4. ChunkMax \in Nat /\ SpaceRequired(ChunkMax) \in Nat
  BY <1>3, ChunkType
<1>5. \A s \in MainShard : /\ pages[s] = 0 /\ size[s] \in Nat /\ bytes[s] = 0
                           /\ remaining_space[s] = 0
  BY <1>2, <1>3
<1>6. \A s \in MainShard :
        /\ pages[s] \in 0..size[s]
        /\ bytes[s] \in pages[s]..(pages[s] * PAGE_SIZE)
        /\ remaining_space[s] \in -SpaceRequired(ChunkMax)..capacity
  BY <1>3, <1>4, <1>5
<1>7. pages \in [AllShard -> Nat]
  BY <1>2
<1>8. /\ readable_len \in 0..MaxReadable /\ data_size \in 0..ChunkMax /\ left \in 0..data_size
  BY <1>2, <1>3, <1>4
<1>9. ThreadFits
  BY <1>2, <1>7, <1>8 DEF ThreadFits
<1>10. PipesFit /\ EstimatesFit
  BY <1>6 DEF PipesFit, EstimatesFit
<1>11. EstimatesBounded
  BY <1>2 DEF EstimatesBounded
<1> QED BY <1>1, <1>9, <1>10, <1>11, TypesApart DEF SpaceInv

\* What SpaceInv gives of the numbers.
LEMMA Numbers ==
  ASSUME SpaceInv
  PROVE  /\ PAGE_SIZE \in Nat \ {0} /\ capacity \in Nat /\ MainShard \subseteq AllShard
         /\ MaxReadable \in Nat
         /\ ChunkMax \in Nat /\ ChunkMax > 0
         /\ \A n : SpaceRequired(n) = PAGE_SIZE + n
         /\ step # "size" => \A s \in MainShard : size[s] * PAGE_SIZE = capacity
<1>1. /\ PAGE_SIZE \in Nat \ {0} /\ capacity \in Nat /\ MainShard \subseteq AllShard
      /\ MaxReadable \in Nat
  BY SpaceAssumption DEF SpaceInv, RoomInv
<1>2. ChunkMax \in Nat /\ ChunkMax > 0
  BY <1>1 DEF ChunkMax
<1>3. step # "size" => \A s \in MainShard : size[s] * PAGE_SIZE = capacity
  BY SizesAreEqual DEF SpaceInv, SizesAgree, MainShard
<1> QED BY <1>1, <1>2, <1>3 DEF SpaceRequired

\* A step of a thread that has nothing in hand before and after it.
LEMMA QuietSpace ==
  ASSUME SpaceInv, RoomInv', SizesInv',
         UNCHANGED <<PAGE_SIZE, limit, shard_pipes, capacity, size, sized, bytes, pages,
                     remaining_space, step, stale, readable_len, data_size, left, target, roomy>>
  PROVE  SpaceInv'
<1>1. /\ MainShard' = MainShard /\ ChunkMax' = ChunkMax
      /\ SpaceRequired(ChunkMax)' = SpaceRequired(ChunkMax)
  BY DEF MainShard, Shard, ChunkMax, SpaceRequired
<1>2. TypeOK' /\ EstimatesBounded'
  BY <1>1 DEF SpaceInv, TypeOK, EstimatesBounded
<1> QED BY <1>2 DEF SpaceInv

LEMMA SizesSpace ==
  ASSUME SpaceInv, RoomInv', SizesInv', SetCapacity \/ SetCapacityFails \/ Sized
  PROVE  SpaceInv'
<1>1. /\ step = "size" /\ step' \in {"size", "idle", "panicked"}
      /\ UNCHANGED <<PAGE_SIZE, limit, shard_pipes, bytes, pages, remaining_space, stale,
                     readable_len, data_size, left, target, roomy>>
  BY DEF SetCapacity, SetCapacityFails, Sized, sizeVars, hostVars, pipeVars, chunkVars
<1>2. step' # "panicked" /\ size' \in [AllShard -> Nat \ {0}] /\ sized' \in 0..Len(shard_pipes)
  BY <1>1 DEF SizesInv
<1>3. MainShard' = MainShard
  BY <1>1 DEF MainShard, Shard
<1>4. PAGE_SIZE' \in Nat \ {0} /\ capacity' \in Nat /\ MainShard \subseteq AllShard
  BY <1>3 DEF RoomInv
<1>5. ChunkMax' \in Nat /\ SpaceRequired(ChunkMax)' \in Nat
  <2>1. (PAGE_SIZE \in Nat \ {0} /\ capacity \in Nat)'
    BY <1>4
  <2>2. (ChunkMax \in Nat /\ SpaceRequired(ChunkMax) \in Nat)'
    BY <2>1, ChunkType, PTL
  <2> QED BY <2>2
<1>6. /\ \A s \in AllShard : bytes[s] = 0 /\ remaining_space[s] = 0 /\ pages[s] = 0
      /\ data_size = 0 /\ left = 0 /\ readable_len = 0
  BY <1>1 DEF SpaceInv, RoomInv, EstimatesBounded
<1>7. EstimatesFit'
  BY <1>1, <1>3, <1>4, <1>5, <1>6 DEF EstimatesFit
<1>8. PipesFit'
  <2> SUFFICES ASSUME NEW s \in MainShard
               PROVE  0 \in 0..size'[s] /\ 0 \in 0..(0 * PAGE_SIZE)
    BY <1>1, <1>3, <1>4, <1>6 DEF PipesFit
  <2> QED BY <1>1, <1>2, <1>4
<1>9. data_size' \in 0..ChunkMax' /\ left' \in 0..data_size'
  BY <1>1, <1>5, <1>6
<1>10. ThreadFits'
  BY <1>1, <1>2, <1>3, <1>9, Zenon DEF ThreadFits, SpaceInv, TypeOK
<1>11. EstimatesBounded'
  BY <1>1, <1>2, <1>6 DEF EstimatesBounded
<1> QED BY <1>7, <1>8, <1>10, <1>11, TypesApart, PTL DEF SpaceInv

\* What a step of a thread that is done with sizing leaves alone.
LEMMA Unmoved ==
  ASSUME UNCHANGED <<PAGE_SIZE, limit, shard_pipes, capacity, size, sized>>
  PROVE  /\ MainShard' = MainShard /\ ChunkMax' = ChunkMax
         /\ \A n : SpaceRequired(n)' = SpaceRequired(n)
BY DEF MainShard, Shard, ChunkMax, SpaceRequired

\* No pipe and no estimate changes.
LEMMA Undisturbed ==
  ASSUME SpaceInv, UNCHANGED <<PAGE_SIZE, limit, shard_pipes, capacity, size, sized, bytes, pages>>
  PROVE  /\ PipesFit'
         /\ remaining_space' = remaining_space => EstimatesFit'
<1>1. PipesFit /\ EstimatesFit
  BY TypesApart DEF SpaceInv
<1>2. MainShard' = MainShard /\ ChunkMax' = ChunkMax
      /\ SpaceRequired(ChunkMax)' = SpaceRequired(ChunkMax)
  BY Unmoved DEF SpaceRequired
<1>3. PipesFit'
  BY <1>1, <1>2 DEF PipesFit
<1>4. ASSUME remaining_space' = remaining_space
      PROVE  EstimatesFit'
  BY <1>1, <1>2, <1>4 DEF EstimatesFit
<1> QED BY <1>3, <1>4

LEMMA BeginChunkSpace ==
  ASSUME SpaceInv, RoomInv', SizesInv', NEW n \in 0..ChunkMax, step \in {"idle", "loop"},
         BeginChunk(n), readable_len' \in 0..MaxReadable,
         UNCHANGED <<sizeVars, pipeVars, remaining_space, left, target>>
  PROVE  SpaceInv'
<1>1. /\ data_size' = n /\ roomy' \in BOOLEAN
      /\ stale' = StaleShards(n) /\ step' = "choose"
      /\ UNCHANGED <<PAGE_SIZE, limit, shard_pipes, capacity, size, sized, bytes, pages,
                     remaining_space, left, target>>
  BY DEF BeginChunk, sizeVars, hostVars, pipeVars
<1>2. /\ MainShard' = MainShard /\ ChunkMax' = ChunkMax
      /\ \A m : SpaceRequired(m)' = SpaceRequired(m)
  BY <1>1, Unmoved
<1>3. /\ left = 0 /\ target = None /\ target \in MainShard \cup {None}
      /\ step' \notin {"marker", "data", "size"}
      /\ size \in [AllShard -> Nat \ {0}] /\ pages \in [AllShard -> Nat]
  BY <1>1 DEF SpaceInv, TypeOK, EstimatesBounded
<1>4. PipesFit' /\ EstimatesFit'
  BY <1>1, Undisturbed
<1>5. sized' \in 0..Len(shard_pipes')
  BY DEF SizesInv
<1>6. ChunkMax \in Nat /\ PAGE_SIZE \in Nat /\ MainShard \subseteq AllShard
      /\ \A m : SpaceRequired(m) = PAGE_SIZE + m
  BY Numbers
<1>7. left' \in 0..data_size'
  BY <1>1, <1>3, <1>6
<1>8. stale' \subseteq MainShard
  BY <1>1 DEF StaleShards
<1>9. ThreadFits'
  BY <1>1, <1>2, <1>3, <1>5, <1>7, <1>8, Zenon DEF ThreadFits
<1>10. \/ stale' = MainShard
       \/ stale' = {} /\ \E s \in MainShard : remaining_space[s] >= 0
  <2>1. CASE \E s \in MainShard : remaining_space[s] >= SpaceRequired(n)
    <3>1. PICK s \in MainShard : remaining_space[s] >= SpaceRequired(n)
      BY <2>1
    <3>2. remaining_space[s] \in Int
      BY <1>6 DEF SpaceInv, RoomInv
    <3>3. remaining_space[s] >= 0
      BY <1>6, <3>1, <3>2
    <3> QED BY <1>1, <2>1, <3>3 DEF StaleShards
  <2>2. CASE ~ \E s \in MainShard : remaining_space[s] >= SpaceRequired(n)
    BY <1>1, <2>2 DEF StaleShards
  <2> QED BY <2>1, <2>2
<1>11. EstimatesBounded'
  BY <1>1, <1>2, <1>3, <1>10 DEF EstimatesBounded
<1> QED BY <1>4, <1>9, <1>11, TypesApart, PTL DEF SpaceInv

LEMMA LoopSpace ==
  ASSUME SpaceInv, RoomInv', SizesInv',
         LoopEnds \/ \E n \in 1..MaxReadable : DrainFile(n)
  PROVE  SpaceInv'
<1>1. /\ step \in {"idle", "loop"} /\ step' \in {"idle", "loop"}
      /\ readable_len' \in 0..MaxReadable
      /\ UNCHANGED <<PAGE_SIZE, limit, shard_pipes, capacity, size, sized, bytes, pages,
                     remaining_space, left, target, data_size, roomy, stale>>
  <2>1. readable_len \in 0..MaxReadable /\ MaxReadable \in Nat
    BY SpaceAssumption DEF SpaceInv, TypeOK
  <2> QED BY <2>1 DEF LoopEnds, DrainFile, sizeVars, hostVars, pipeVars, chunkVars
<1>2. MainShard' = MainShard /\ ChunkMax' = ChunkMax
  BY <1>1, Unmoved
<1>3. PipesFit' /\ EstimatesFit'
  BY <1>1, Undisturbed
<1>4. ThreadFits'
  BY <1>1, <1>2, Zenon DEF ThreadFits, SpaceInv, TypeOK
<1>5. EstimatesBounded'
  BY <1>1 DEF EstimatesBounded, SpaceInv
<1> QED BY <1>3, <1>4, <1>5, TypesApart, PTL DEF SpaceInv

LEMMA RefreshSpace ==
  ASSUME SpaceInv, RoomInv', SizesInv', NEW s \in MainShard, Refresh(s)
  PROVE  SpaceInv'
<1>1. /\ step = "choose" /\ s \in stale /\ stale' = stale \ {s}
      /\ remaining_space' = [remaining_space EXCEPT ![s] = capacity - bytes[s]]
      /\ UNCHANGED <<PAGE_SIZE, limit, shard_pipes, capacity, size, sized, bytes, pages,
                     step, readable_len, left, target, data_size, roomy>>
  BY DEF Refresh, sizeVars, hostVars, pipeVars, chunkVars
<1>2. /\ MainShard' = MainShard /\ ChunkMax' = ChunkMax
      /\ \A m : SpaceRequired(m)' = SpaceRequired(m)
  BY <1>1, Unmoved
<1>3. PipesFit'
  BY <1>1, Undisturbed
<1>4. /\ PAGE_SIZE \in Nat \ {0} /\ capacity \in Nat /\ ChunkMax \in Nat
      /\ MainShard \subseteq AllShard
      /\ \A m : SpaceRequired(m) = PAGE_SIZE + m
      /\ size[s] * PAGE_SIZE = capacity
  BY <1>1, Numbers
<1>5. /\ remaining_space \in [AllShard -> Int] /\ bytes \in [AllShard -> Nat]
      /\ pages \in [AllShard -> Nat] /\ size \in [AllShard -> Nat \ {0}]
  BY DEF SpaceInv, RoomInv, TypeOK
<1>6. capacity - bytes[s] \in 0..capacity
  <2>1. bytes[s] <= pages[s] * PAGE_SIZE /\ pages[s] <= size[s]
    BY <1>4, <1>5 DEF SpaceInv, TypeOK
  <2>2. pages[s] \in Nat /\ size[s] \in Nat /\ bytes[s] \in Nat
    BY <1>4, <1>5
  <2>3. \A p, q, r \in Nat : p <= q => p * r <= q * r
    OBVIOUS
  <2>4. pages[s] * PAGE_SIZE <= size[s] * PAGE_SIZE /\ pages[s] * PAGE_SIZE \in Nat
    BY <1>4, <2>1, <2>2, <2>3
  <2> QED BY <1>4, <2>1, <2>2, <2>4
<1>7. EstimatesFit'
  <2>1. remaining_space'[s] \in 0..capacity /\ \A t \in MainShard : t # s => remaining_space'[t] = remaining_space[t]
    BY <1>1, <1>4, <1>5, <1>6
  <2>2. 0..capacity \subseteq -SpaceRequired(ChunkMax)..capacity
    BY <1>4
  <2>3. EstimatesFit
    BY TypesApart DEF SpaceInv
  <2>4. \A t \in MainShard : remaining_space'[t] \in -SpaceRequired(ChunkMax)..capacity
    BY <2>1, <2>2, <2>3 DEF EstimatesFit
  <2>5. (-SpaceRequired(ChunkMax)..capacity)' = -SpaceRequired(ChunkMax)..capacity
    BY <1>1, <1>2, <1>4 DEF SpaceRequired
  <2> QED BY <1>2, <2>4, <2>5, Zenon DEF EstimatesFit
<1>8. ThreadFits'
  BY <1>1, <1>2, Zenon DEF ThreadFits, SpaceInv, TypeOK
<1>9. \A t \in MainShard \ stale' : remaining_space'[t] >= 0
  <2>1. \A t \in MainShard \ stale : remaining_space[t] >= 0
    BY <1>1 DEF EstimatesBounded, SpaceInv
  <2> QED BY <1>1, <1>4, <1>5, <1>6, <2>1
<1>10. EstimatesBounded'
  <2>1. step' = "choose" /\ left' = 0
    BY <1>1 DEF EstimatesBounded, SpaceInv
  <2> QED BY <1>2, <1>9, <2>1 DEF EstimatesBounded
<1> QED BY <1>3, <1>7, <1>8, <1>10, TypesApart, PTL DEF SpaceInv

LEMMA PickSpace ==
  ASSUME SpaceInv, RoomInv', SizesInv', NEW s \in MainShard, Pick(s)
  PROVE  SpaceInv'
<1>1. /\ step = "choose" /\ stale = {} /\ target' = s /\ step' = "marker"
      /\ \A t \in MainShard : remaining_space[t] <= remaining_space[s]
      /\ UNCHANGED <<PAGE_SIZE, limit, shard_pipes, capacity, size, sized, bytes, pages,
                     remaining_space, readable_len, left, data_size, roomy, stale>>
  BY DEF Pick, sizeVars, hostVars, pipeVars
<1>2. MainShard' = MainShard /\ ChunkMax' = ChunkMax
  BY <1>1, Unmoved
<1>3. PipesFit' /\ EstimatesFit'
  BY <1>1, Undisturbed
<1>4. s # None
  BY SpaceAssumption, Numbers
<1>5. ThreadFits'
  BY <1>1, <1>2, <1>4, Zenon DEF ThreadFits, SpaceInv, TypeOK
<1>6. remaining_space[s] >= 0
  <2>1. PICK t \in MainShard : remaining_space[t] >= 0
    BY <1>1 DEF EstimatesBounded, SpaceInv
  <2>2. remaining_space[s] \in Int /\ remaining_space[t] \in Int
    BY Numbers DEF SpaceInv, RoomInv
  <2> QED BY <1>1, <2>1, <2>2
<1>7. EstimatesBounded'
  <2>1. left' = 0
    BY <1>1 DEF EstimatesBounded, SpaceInv
  <2> QED BY <1>1, <1>6, <2>1 DEF EstimatesBounded
<1> QED BY <1>3, <1>5, <1>7, TypesApart, PTL DEF SpaceInv

\* What is written into a pipe is spread over pages that hold it.
LEMMA FillFits ==
  ASSUME SpaceInv, step \in {"marker", "data"}, NEW n \in 1..PAGE_SIZE, NEW own \in BOOLEAN,
         Fill(n, own), UNCHANGED <<PAGE_SIZE, limit, shard_pipes, capacity, size, sized>>
  PROVE  PipesFit' /\ pages' \in [AllShard -> Nat]
<1>1. /\ target \in MainShard /\ MainShard \subseteq AllShard
      /\ bytes \in [AllShard -> Nat] /\ pages \in [AllShard -> Nat]
      /\ PAGE_SIZE \in Nat \ {0} /\ n \in Nat \ {0} /\ n <= PAGE_SIZE
      /\ size \in [AllShard -> Nat \ {0}]
  BY Numbers DEF SpaceInv, RoomInv, TypeOK
<1>2. /\ bytes' = [bytes EXCEPT ![target] = bytes[target] + n]
      /\ own => pages[target] < size[target] /\ pages' = [pages EXCEPT ![target] = pages[target] + 1]
      /\ ~own => bytes[target] + n <= pages[target] * PAGE_SIZE /\ pages' = pages
  <2>1. ~own => [pages EXCEPT ![target] = pages[target]] = pages
    BY <1>1
  <2> QED BY <2>1 DEF Fill
<1>3. pages' \in [AllShard -> Nat]
  BY <1>1, <1>2
<1>4. MainShard' = MainShard
  BY Unmoved
<1>5. PICK b \in Nat, p \in Nat, z \in Nat : b = bytes[target] /\ p = pages[target] /\ z = size[target]
  BY <1>1
<1>6. p <= z /\ p <= b /\ b <= p * PAGE_SIZE
  BY <1>1, <1>5 DEF SpaceInv, TypeOK
<1>7. p * PAGE_SIZE \in Nat /\ (p + 1) * PAGE_SIZE = p * PAGE_SIZE + PAGE_SIZE
  BY <1>1
<1>8. /\ pages'[target] \in 0..size'[target]
      /\ bytes'[target] \in pages'[target]..(pages'[target] * PAGE_SIZE)
  <2>1. CASE own
    <3>1. bytes'[target] = b + n /\ pages'[target] = p + 1 /\ p < z /\ size'[target] = z
      BY <1>1, <1>2, <1>5, <2>1
    <3> QED BY <1>1, <1>6, <1>7, <3>1
  <2>2. CASE ~own
    <3>1. /\ bytes'[target] = b + n /\ pages'[target] = p /\ size'[target] = z
          /\ b + n <= p * PAGE_SIZE
      BY <1>1, <1>2, <1>5, <2>2
    <3> QED BY <1>1, <1>6, <1>7, <3>1
  <2> QED BY <2>1, <2>2
<1>9. \A s \in MainShard \ {target} : bytes'[s] = bytes[s] /\ pages'[s] = pages[s]
  BY <1>1, <1>2
<1>10. PipesFit
  BY TypesApart DEF SpaceInv
<1>11. PipesFit'
  BY <1>4, <1>8, <1>9, <1>10 DEF PipesFit
<1> QED BY <1>3, <1>11

\* What is left of an estimate when the chunk is deducted.
LEMMA WrittenSpace ==
  ASSUME SpaceInv, step \in {"marker", "data"}, ChunkWritten,
         UNCHANGED <<PAGE_SIZE, limit, shard_pipes, capacity, size, sized>>
  PROVE  EstimatesFit'
<1>1. /\ target \in MainShard /\ MainShard \subseteq AllShard
      /\ remaining_space \in [AllShard -> Int]
      /\ remaining_space[target] >= 0
      /\ data_size \in 0..ChunkMax
  BY Numbers DEF SpaceInv, RoomInv, EstimatesBounded, TypeOK
<1>2. /\ PAGE_SIZE \in Nat /\ ChunkMax \in Nat /\ capacity \in Nat
      /\ \A m : SpaceRequired(m) = PAGE_SIZE + m
  BY Numbers
<1>3. remaining_space' = [remaining_space EXCEPT
                           ![target] = remaining_space[target] - (PAGE_SIZE + data_size)]
  BY <1>2 DEF ChunkWritten, Deduct
<1>4. EstimatesFit
  BY TypesApart DEF SpaceInv
<1>5. remaining_space[target] \in 0..capacity
  BY <1>1, <1>4 DEF EstimatesFit
<1>6. remaining_space'[target] \in -(PAGE_SIZE + ChunkMax)..capacity
  <2>1. remaining_space'[target] = remaining_space[target] - (PAGE_SIZE + data_size)
    BY <1>1, <1>3
  <2> QED BY <1>1, <1>2, <1>5, <2>1
<1>7. \A s \in MainShard \ {target} : remaining_space'[s] = remaining_space[s]
  BY <1>1, <1>3
<1>8. \A s \in MainShard : remaining_space'[s] \in -(PAGE_SIZE + ChunkMax)..capacity
  BY <1>2, <1>4, <1>6, <1>7 DEF EstimatesFit
<1>9. MainShard' = MainShard /\ ChunkMax' = ChunkMax
  BY Unmoved
<1> QED BY <1>8, <1>9 DEF EstimatesFit, SpaceRequired

LEMMA WriteMarkerSpace ==
  ASSUME SpaceInv, RoomInv', SizesInv', WriteMarker
  PROVE  SpaceInv'
<1>1. /\ step = "marker"
      /\ Fill(1, TRUE) \/ Fill(1, FALSE)
      /\ roomy' = FALSE
      /\ UNCHANGED <<PAGE_SIZE, limit, shard_pipes, capacity, size, sized, readable_len, stale>>
  BY DEF WriteMarker, sizeVars, hostVars
<1>2. 1 \in 1..PAGE_SIZE
  BY Numbers
<1>3. PipesFit' /\ pages' \in [AllShard -> Nat]
  BY <1>1, <1>2, FillFits
<1>4. MainShard' = MainShard /\ ChunkMax' = ChunkMax
  BY <1>1, Unmoved
<1>5. /\ left = 0 /\ target # None /\ target \in MainShard /\ remaining_space[target] >= 0
      /\ data_size \in 0..ChunkMax /\ ChunkMax \in Nat
  BY <1>1, Numbers DEF SpaceInv, TypeOK, EstimatesBounded
<1>6. CASE data_size = 0
  <2>1. ChunkWritten /\ left' = 0 /\ target' = None /\ data_size' = 0 /\ step' = "idle"
    BY <1>1, <1>5, <1>6 DEF WriteMarker, ChunkWritten
  <2>2. EstimatesFit'
    BY <1>1, <2>1, WrittenSpace
  <2>3. data_size' \in 0..ChunkMax' /\ left' \in 0..data_size'
    BY <1>4, <1>5, <2>1
  <2>4. ThreadFits'
    BY <1>1, <1>3, <1>4, <2>1, <2>3, Zenon DEF ThreadFits, SpaceInv, TypeOK
  <2>5. EstimatesBounded'
    BY <2>1 DEF EstimatesBounded
  <2> QED BY <1>3, <2>2, <2>4, <2>5, TypesApart, PTL DEF SpaceInv
<1>7. CASE data_size # 0
  <2>1. left' = data_size /\ step' = "data" /\ UNCHANGED <<remaining_space, target, data_size>>
    BY <1>7 DEF WriteMarker
  <2>2. EstimatesFit'
    <3>1. EstimatesFit /\ SpaceRequired(ChunkMax)' = SpaceRequired(ChunkMax)
      BY <1>1, Unmoved, TypesApart DEF SpaceInv, SpaceRequired
    <3> QED BY <1>1, <1>4, <2>1, <3>1 DEF EstimatesFit
  <2>3. data_size' \in 0..ChunkMax' /\ left' \in 0..data_size'
    BY <1>4, <1>5, <2>1
  <2>4. ThreadFits'
    BY <1>1, <1>3, <1>4, <1>5, <2>1, <2>3, Zenon DEF ThreadFits, SpaceInv, TypeOK
  <2>5. EstimatesBounded'
    BY <1>5, <2>1 DEF EstimatesBounded
  <2> QED BY <1>3, <2>2, <2>4, <2>5, TypesApart, PTL DEF SpaceInv
<1> QED BY <1>6, <1>7

LEMMA SpliceSpace ==
  ASSUME SpaceInv, RoomInv', SizesInv', SpliceData
  PROVE  SpaceInv'
<1>1. /\ step = "data"
      /\ UNCHANGED <<PAGE_SIZE, limit, shard_pipes, capacity, size, sized, readable_len, stale,
                     roomy>>
  BY DEF SpliceData, sizeVars, hostVars
<1>2. PICK n \in 1..PAGE_SIZE : n <= left /\ Fill(n, TRUE) /\ left' = left - n
  BY DEF SpliceData
<1>3. PipesFit' /\ pages' \in [AllShard -> Nat]
  BY <1>1, <1>2, FillFits
<1>4. MainShard' = MainShard /\ ChunkMax' = ChunkMax
  BY <1>1, Unmoved
<1>5. /\ target # None /\ target \in MainShard /\ remaining_space[target] >= 0
      /\ data_size \in 0..ChunkMax /\ ChunkMax \in Nat /\ PAGE_SIZE \in Nat
      /\ left \in 0..data_size /\ data_size # 0
  <2>1. /\ target # None /\ target \in MainShard /\ remaining_space[target] >= 0
        /\ data_size \in 0..ChunkMax /\ ChunkMax \in Nat /\ PAGE_SIZE \in Nat
        /\ left \in 0..data_size
    BY <1>1, Numbers DEF SpaceInv, TypeOK, EstimatesBounded
  <2> QED BY <1>2, <2>1
<1>6. left' \in 0..data_size /\ left' <= data_size
  BY <1>2, <1>5
<1>7. CASE left' = 0
  <2>1. ChunkWritten /\ target' = None /\ data_size' = 0 /\ step' = "loop"
    BY <1>5, <1>7 DEF SpliceData, ChunkWritten
  <2>2. EstimatesFit'
    BY <1>1, <2>1, WrittenSpace
  <2>3. data_size' \in 0..ChunkMax' /\ left' \in 0..data_size'
    BY <1>4, <1>5, <1>7, <2>1
  <2>4. ThreadFits'
    BY <1>1, <1>3, <1>4, <2>1, <2>3, Zenon DEF ThreadFits, SpaceInv, TypeOK
  <2>5. EstimatesBounded'
    BY <1>7, <2>1 DEF EstimatesBounded
  <2> QED BY <1>3, <2>2, <2>4, <2>5, TypesApart, PTL DEF SpaceInv
<1>8. CASE left' # 0
  <2>1. UNCHANGED <<remaining_space, target, data_size, step>>
    BY <1>8 DEF SpliceData
  <2>2. EstimatesFit'
    <3>1. EstimatesFit /\ SpaceRequired(ChunkMax)' = SpaceRequired(ChunkMax)
      BY <1>1, Unmoved, TypesApart DEF SpaceInv, SpaceRequired
    <3> QED BY <1>1, <1>4, <2>1, <3>1 DEF EstimatesFit
  <2>3. data_size' \in 0..ChunkMax' /\ left' \in 0..data_size'
    BY <1>4, <1>5, <1>6, <2>1
  <2>4. ThreadFits'
    BY <1>1, <1>3, <1>4, <1>5, <2>1, <2>3, Zenon DEF ThreadFits, SpaceInv, TypeOK
  <2>5. EstimatesBounded'
    BY <1>1, <1>5, <2>1 DEF EstimatesBounded
  <2> QED BY <1>3, <2>2, <2>4, <2>5, TypesApart, PTL DEF SpaceInv
<1> QED BY <1>7, <1>8

LEMMA UploadSpace ==
  ASSUME SpaceInv, RoomInv', SizesInv', NEW s \in AllShard, Upload(s)
  PROVE  SpaceInv'
<1>1. PICK n \in {pages[s], pages[s] - 1} :
        n <= bytes[s] - 1 /\ bytes[s] - 1 <= n * PAGE_SIZE /\ pages' = [pages EXCEPT ![s] = n]
  BY DEF Upload
<1>2. /\ s \in MainShard /\ bytes[s] > 0
      /\ bytes' = [bytes EXCEPT ![s] = bytes[s] - 1]
      /\ UNCHANGED <<PAGE_SIZE, limit, shard_pipes, capacity, size, sized, remaining_space, step,
                     stale, readable_len, data_size, left, target, roomy>>
  BY DEF Upload, sizeVars, hostVars, chunkVars
<1>3. /\ MainShard \subseteq AllShard
      /\ bytes \in [AllShard -> Nat] /\ pages \in [AllShard -> Nat]
      /\ PAGE_SIZE \in Nat \ {0} /\ size \in [AllShard -> Nat \ {0}]
  BY Numbers DEF SpaceInv, RoomInv, TypeOK
<1>4. PICK b \in Nat, p \in Nat, z \in Nat : b = bytes[s] /\ p = pages[s] /\ z = size[s]
  BY <1>3
<1>5. p <= z /\ b > 0 /\ n \in {p, p - 1} /\ n <= b - 1 /\ b - 1 <= n * PAGE_SIZE
  BY <1>1, <1>2, <1>4 DEF SpaceInv, TypeOK
<1>6. n \in Nat /\ n <= z
  <2>1. n # -1
    <3>1. (-1) * PAGE_SIZE < 0 /\ b - 1 >= 0 /\ (-1) * PAGE_SIZE \in Int
      BY <1>3, <1>5
    <3> QED BY <1>5, <3>1
  <2> QED BY <1>5, <2>1
<1>7. pages' \in [AllShard -> Nat]
  BY <1>1, <1>3, <1>6
<1>8. MainShard' = MainShard /\ ChunkMax' = ChunkMax
      /\ SpaceRequired(ChunkMax)' = SpaceRequired(ChunkMax)
  BY <1>2, Unmoved DEF SpaceRequired
<1>9. PipesFit'
  <2>1. pages'[s] = n /\ bytes'[s] = b - 1 /\ size'[s] = z
    BY <1>1, <1>2, <1>3, <1>4
  <2>2. pages'[s] \in 0..size'[s] /\ bytes'[s] \in pages'[s]..(pages'[s] * PAGE_SIZE)
    BY <1>3, <1>5, <1>6, <2>1
  <2>3. \A t \in MainShard \ {s} : pages'[t] = pages[t] /\ bytes'[t] = bytes[t]
    BY <1>1, <1>2, <1>3
  <2>4. PipesFit
    BY TypesApart DEF SpaceInv
  <2> QED BY <1>2, <1>8, <2>2, <2>3, <2>4 DEF PipesFit
<1>10. EstimatesFit'
  <2>1. EstimatesFit
    BY TypesApart DEF SpaceInv
  <2> QED BY <1>2, <1>8, <2>1 DEF EstimatesFit
<1>11. ThreadFits'
  BY <1>2, <1>7, <1>8, Zenon DEF ThreadFits, SpaceInv, TypeOK
<1>12. EstimatesBounded'
  <2>1. step # "size"
    BY <1>2 DEF SpaceInv, RoomInv
  <2>2. EstimatesBounded
    BY DEF SpaceInv
  <2> QED BY <1>2, <1>8, <2>1, <2>2 DEF EstimatesBounded
<1> QED BY <1>9, <1>10, <1>11, <1>12, TypesApart, PTL DEF SpaceInv

LEMMA NextSpace ==
  SpaceInv /\ [Next]_vars => SpaceInv'
<1> SUFFICES ASSUME SpaceInv, [Next]_vars
             PROVE  SpaceInv'
  OBVIOUS
<1>1. RoomInv' /\ SizesInv'
  BY NextRoom, NextSizes DEF SpaceInv
<1>2. CASE SetCapacity \/ SetCapacityFails \/ Sized
  BY <1>1, <1>2, SizesSpace
<1>3. CASE NextChunk
  <2> DEFINE n == IF readable_len < ChunkMax THEN readable_len ELSE ChunkMax
  <2>1. ChunkMax \in Nat /\ readable_len \in 0..MaxReadable /\ MaxReadable \in Nat
    BY Numbers DEF SpaceInv, TypeOK
  <2>2. n \in 0..ChunkMax /\ readable_len - n \in 0..MaxReadable
    BY <2>1
  <2>3. /\ step = "loop" /\ BeginChunk(n) /\ readable_len' = readable_len - n
        /\ UNCHANGED <<sizeVars, pipeVars, remaining_space, left, target>>
    BY <1>3 DEF NextChunk
  <2> HIDE DEF n
  <2> QED BY <1>1, <2>2, <2>3, BeginChunkSpace
<1>4. CASE WriteControl
  <2>1. /\ step = "idle" /\ BeginChunk(0) /\ readable_len' = readable_len
        /\ UNCHANGED <<sizeVars, pipeVars, remaining_space, left, target>>
    BY <1>4 DEF WriteControl
  <2>2. 0 \in 0..ChunkMax /\ readable_len \in 0..MaxReadable
    BY Numbers DEF SpaceInv, TypeOK
  <2> QED BY <1>1, <2>1, <2>2, BeginChunkSpace
<1>5. CASE LoopEnds \/ \E n \in 1..MaxReadable : DrainFile(n)
  BY <1>1, <1>5, LoopSpace
<1>6. ASSUME NEW s \in MainShard, Refresh(s) \/ Pick(s)
      PROVE  SpaceInv'
  BY <1>1, <1>6, RefreshSpace, PickSpace
<1>7. CASE WriteMarker \/ SpliceData
  BY <1>1, <1>7, WriteMarkerSpace, SpliceSpace
<1>8. ASSUME NEW s \in AllShard, Upload(s)
      PROVE  SpaceInv'
  BY <1>1, <1>8, UploadSpace
<1>9. CASE UNCHANGED vars
  <2>1. UNCHANGED <<PAGE_SIZE, limit, shard_pipes, capacity, size, sized, bytes, pages,
                    remaining_space, step, stale, readable_len, data_size, left, target, roomy>>
    BY <1>9 DEF vars, sizeVars, hostVars, pipeVars, chunkVars
  <2> QED BY <1>1, <2>1, QuietSpace
<1> QED BY <1>2, <1>3, <1>4, <1>5, <1>6, <1>7, <1>8, <1>9 DEF Next, Thread, Work

LEMMA SpaceKept ==
  Spec => []SpaceInv
<1>1. Init => SpaceInv
  BY SpaceInit
<1>2. SpaceInv /\ [Next]_vars => SpaceInv'
  BY NextSpace
<1> QED BY <1>1, <1>2, PTL DEF Spec

\* Every variable of the choice of a shard keeps to its type.  An estimate is at
\* most one chunk and its marker below zero, which is the most a chunk deducts;
\* a pipe never holds more pages than it has; and the assertion of
\* increase_capacity() that the capacity is a page at least never fails.
THEOREM TypesKept ==
  Spec => []TypeOK
<1>1. SpaceInv => TypeOK
  BY DEF SpaceInv
<1> QED BY <1>1, SpaceKept, PTL
=============================================================================
