------------------------------ MODULE ShardSpace ------------------------------
(***************************************************************************)
(* Which main shard takes a chunk.  The pipes are first grown as far as    *)
(* the user's limit allows (increase_capacity()).  Then the pipes of the   *)
(* image files are drained chunk by chunk; each chunk goes to the shard    *)
(* whose estimated remaining_space is greatest, and the estimates are      *)
(* refreshed, one fionread() after the other, when that seems too little.  *)
(* The uploads behind the shards take what they want meanwhile.  Sizes are *)
(* in units, a page of a pipe holding some of them.                        *)
(***************************************************************************)
EXTENDS Integers, Sequences, FiniteSets, FiniteSetsExt

CONSTANTS None,
          Hosts,            \* what capture is started with: a page, a limit, the shards
          DesiredCapacity,  \* SHARD_PIPE_DESIRED_CAPACITY
          InitialPages,     \* the pages of a pipe as it was created
          MaxReadable       \* bound: what fionread() may say of an image file

PipesOf(host) == {host.shard_pipes[i] : i \in 1..Len(host.shard_pipes)}

AllShard == UNION {PipesOf(host) : host \in Hosts}

ASSUME SpaceAssumption ==
  /\ \A host \in Hosts :
       /\ host.PAGE_SIZE \in Nat \ {0}
       /\ \E k \in 0..20 : DesiredCapacity = host.PAGE_SIZE * 2^k
       /\ host.limit \in Nat
       /\ host.shard_pipes \in Seq(AllShard)
       /\ Len(host.shard_pipes) >= 2
       /\ Cardinality(PipesOf(host)) = Len(host.shard_pipes)
  /\ DesiredCapacity \in Nat
  /\ None \notin AllShard
  /\ InitialPages \in Nat \ {0}
  /\ MaxReadable \in Nat

VARIABLES PAGE_SIZE,
          limit,       \* pages the user may have in pipes (pipe-user-pages)
          shard_pipes, \* the shards, in the order of the command line
          size,        \* pages of the pipe of each shard
          sized,       \* how many pipes have been set to capacity
          capacity,    \* the capacity tried, then shard_pipe_capacity
          bytes,       \* units in the pipe of a main shard: what fionread() says
          pages,       \* pages they are spread over
          remaining_space,
          step,        \* where the thread is
          readable_len,  \* what is left to drain of the image file
          data_size,   \* data of the chunk being written
          left,        \* and what is left of it
          stale,       \* shards that are still to be refreshed
          target,      \* the shard picked
          roomy        \* when the chunk was begun, some shard had room for it

hostVars  == <<PAGE_SIZE, limit, shard_pipes>>
sizeVars  == <<hostVars, size, sized, capacity>>
pipeVars  == <<bytes, pages>>
chunkVars == <<readable_len, data_size, left, target, roomy>>
vars == <<sizeVars, pipeVars, remaining_space, step, stale, chunkVars>>

\* The first shard is that of the small files.
Shard     == {shard_pipes[i] : i \in 1..Len(shard_pipes)}
MainShard == Shard \ {shard_pipes[1]}

Init ==
  /\ \E host \in Hosts :
       PAGE_SIZE = host.PAGE_SIZE /\ limit = host.limit /\ shard_pipes = host.shard_pipes
  /\ size = [s \in AllShard |-> InitialPages]
  /\ sized = 0
  /\ capacity = DesiredCapacity
  /\ bytes = [s \in AllShard |-> 0]
  /\ pages = [s \in AllShard |-> 0]
  /\ remaining_space = [s \in AllShard |-> 0]
  /\ step = "size"
  /\ readable_len = 0
  /\ data_size = 0
  /\ left = 0
  /\ stale = {}
  /\ target = None
  /\ roomy = FALSE

-----------------------------------------------------------------------------
\* increase_capacity().

AllPages == FoldFunctionOnSet(+, 0, size, Shard)

\* The limit is looked at only for a pipe that grows.
Permitted(s, n) == n <= size[s] \/ AllPages - size[s] + n <= limit

NextPages == capacity \div PAGE_SIZE

SetCapacity ==
  LET s == shard_pipes[sized + 1]
  IN  /\ step = "size"
      /\ sized < Len(shard_pipes)
      /\ Permitted(s, NextPages)
      /\ size' = [size EXCEPT ![s] = NextPages]
      /\ sized' = sized + 1
      /\ UNCHANGED <<hostVars, capacity, pipeVars, remaining_space, step, stale,
                     chunkVars>>

\* Mutant: the pipes that were set already are left as they are.
Retry_TheRest == sized' = sized

\* All the pipes are set anew to the capacity that is tried next.
Retry == sized' = 0

\* EPERM; the assertion ends the process.
SetCapacityFails ==
  /\ step = "size"
  /\ sized < Len(shard_pipes)
  /\ ~Permitted(shard_pipes[sized + 1], NextPages)
  /\ IF capacity > PAGE_SIZE
     THEN /\ capacity' = capacity \div 2
          /\ Retry
          /\ UNCHANGED step
     ELSE /\ step' = "panicked"
          /\ UNCHANGED <<capacity, sized>>
  /\ UNCHANGED <<hostVars, size, pipeVars, remaining_space, stale, chunkVars>>

Sized ==
  /\ step = "size"
  /\ sized = Len(shard_pipes)
  /\ step' = "idle"
  /\ UNCHANGED <<sizeVars, pipeVars, remaining_space, stale, chunkVars>>

-----------------------------------------------------------------------------
\* drain_img_file(), as far as it writes to main shards.

\* chunk_max_data_size()
ChunkMax == IF capacity \div 4 - PAGE_SIZE > PAGE_SIZE
            THEN capacity \div 4 - PAGE_SIZE ELSE PAGE_SIZE

SpaceRequired(n) == PAGE_SIZE + n

HasRoom(s, n) == capacity - bytes[s] >= SpaceRequired(n)

\* Mutant: only the shards that are thought to have most room are refreshed.
StaleShards_Top(n) ==
  {s \in MainShard : /\ remaining_space[s] < SpaceRequired(n)
                     /\ \A t \in MainShard : remaining_space[t] <= remaining_space[s]}

\* Mutant: what was estimated is taken for granted.
StaleShards_None(n) == {}

\* Unless the shard with most room seems to have enough, all are refreshed.
StaleShards(n) ==
  IF \E s \in MainShard : remaining_space[s] >= SpaceRequired(n) THEN {} ELSE MainShard

\* write_chunk() is called, with n units of data.
BeginChunk(n) ==
  /\ data_size' = n
  /\ roomy' = \E s \in MainShard : HasRoom(s, n)
  /\ stale' = StaleShards(n)
  /\ step' = "choose"

\* A Filename, FileEof or ImageEof marker.
WriteControl ==
  /\ step = "idle"
  /\ BeginChunk(0)
  /\ UNCHANGED <<sizeVars, pipeVars, remaining_space, readable_len, left, target>>

\* fionread() says that n units can be read.
DrainFile(n) ==
  /\ step = "idle"
  /\ readable_len' = n
  /\ step' = "loop"
  /\ UNCHANGED <<sizeVars, pipeVars, remaining_space, data_size, left, stale, target, roomy>>

\* Mutant: after each chunk the client is asked how much there is by now.
NextChunk_Anew ==
  LET n == IF readable_len < ChunkMax THEN readable_len ELSE ChunkMax
  IN  /\ step = "loop"
      /\ readable_len > 0
      /\ BeginChunk(n)
      /\ readable_len' \in 0..MaxReadable
      /\ UNCHANGED <<sizeVars, pipeVars, remaining_space, left, target>>

NextChunk ==
  LET n == IF readable_len < ChunkMax THEN readable_len ELSE ChunkMax
  IN  /\ step = "loop"
      /\ readable_len > 0
      /\ BeginChunk(n)
      /\ readable_len' = readable_len - n
      /\ UNCHANGED <<sizeVars, pipeVars, remaining_space, left, target>>

LoopEnds ==
  /\ step = "loop"
  /\ readable_len = 0
  /\ step' = "idle"
  /\ UNCHANGED <<sizeVars, pipeVars, remaining_space, stale, chunkVars>>

\* refresh_remaining_space() of one shard, while the uploads go on.
Refresh(s) ==
  /\ step = "choose"
  /\ s \in stale
  /\ remaining_space' = [remaining_space EXCEPT ![s] = capacity - bytes[s]]
  /\ stale' = stale \ {s}
  /\ UNCHANGED <<sizeVars, pipeVars, step, chunkVars>>

\* Shards with as much room as each other go by their descriptor: any may be first.
Pick(s) ==
  /\ step = "choose"
  /\ stale = {}
  /\ \A t \in MainShard : remaining_space[t] <= remaining_space[s]
  /\ target' = s
  /\ step' = "marker"
  /\ UNCHANGED <<sizeVars, pipeVars, remaining_space, readable_len, data_size, left, stale,
                 roomy>>

\* Mutant: only the data are deducted.
Deduct_DataOnly == remaining_space' = [remaining_space EXCEPT ![target] = @ - data_size]

Deduct == remaining_space' = [remaining_space EXCEPT ![target] = @ - SpaceRequired(data_size)]

ChunkWritten ==
  /\ Deduct
  /\ target' = None
  /\ data_size' = 0
  /\ step' = IF data_size = 0 THEN "idle" ELSE "loop"

\* n units go into the pipe of the target, in a page of their own or not.
Fill(n, own) ==
  /\ IF own THEN pages[target] < size[target]
            ELSE bytes[target] + n <= pages[target] * PAGE_SIZE
  /\ bytes' = [bytes EXCEPT ![target] = @ + n]
  /\ pages' = [pages EXCEPT ![target] = IF own THEN @ + 1 ELSE @]

\* The marker, of one unit; it takes a page, unless it fits behind another one.
WriteMarker ==
  /\ step = "marker"
  /\ Fill(1, TRUE) \/ Fill(1, FALSE)
  /\ IF data_size = 0
     THEN ChunkWritten /\ UNCHANGED left
     ELSE /\ left' = data_size
          /\ step' = "data"
          /\ UNCHANGED <<remaining_space, target, data_size>>
  /\ roomy' = FALSE
  /\ UNCHANGED <<sizeVars, readable_len, stale>>

\* splice() moves pages, as full as the client filled them.
SpliceData ==
  /\ step = "data"
  /\ \E n \in 1..PAGE_SIZE :
       /\ n <= left
       /\ Fill(n, TRUE)
       /\ left' = left - n
  /\ IF left' = 0
     THEN ChunkWritten
     ELSE UNCHANGED <<remaining_space, target, data_size, step>>
  /\ UNCHANGED <<sizeVars, readable_len, stale, roomy>>

Thread ==
  \/ SetCapacity \/ SetCapacityFails \/ Sized
  \/ NextChunk \/ LoopEnds
  \/ \E s \in MainShard : Refresh(s) \/ Pick(s)
  \/ WriteMarker \/ SpliceData

\* What there is to drain.
Work == WriteControl \/ \E n \in 1..MaxReadable : DrainFile(n)

\* The upload reads a unit; a page is free when its last unit has been read.
Upload(s) ==
  /\ s \in MainShard
  /\ bytes[s] > 0
  /\ bytes' = [bytes EXCEPT ![s] = @ - 1]
  /\ \E n \in {pages[s], pages[s] - 1} :
       /\ n <= bytes[s] - 1
       /\ bytes[s] - 1 <= n * PAGE_SIZE
       /\ pages' = [pages EXCEPT ![s] = n]
  /\ UNCHANGED <<sizeVars, remaining_space, step, stale, chunkVars>>

Next == Thread \/ Work \/ \E s \in AllShard : Upload(s)

Spec == Init /\ [][Next]_vars

\* The thread runs whenever it is not blocked, and no upload stops for good.
FairSpec == Spec /\ WF_vars(Thread) /\ \A s \in AllShard : WF_vars(Upload(s))

-----------------------------------------------------------------------------
\* Every variable keeps to its type; in particular an estimate stays within one
\* chunk below zero, however long capture goes on.
TypeOK ==
  /\ step \in {"size", "idle", "loop", "choose", "marker", "data"}
  /\ size \in [AllShard -> Nat \ {0}]
  /\ sized \in 0..Len(shard_pipes)
  /\ pages \in [AllShard -> Nat]
  /\ \A s \in MainShard :
       /\ pages[s] \in 0..size[s]
       /\ bytes[s] \in pages[s]..(pages[s] * PAGE_SIZE)
       /\ remaining_space[s] \in -SpaceRequired(ChunkMax)..capacity
  /\ readable_len \in 0..MaxReadable
  /\ data_size \in 0..ChunkMax
  /\ left \in 0..data_size
  /\ stale \subseteq MainShard
  /\ step \in {"marker", "data"} <=> target # None
  /\ target \in MainShard \cup {None}
  /\ roomy \in BOOLEAN

\* Whichever pipe the limit was met at, in the end all have the capacity that
\* capture reckons with, and twice as much would not have been permitted.
SizesAgree ==
  step # "size" =>
    /\ \A s \in Shard : size[s] * PAGE_SIZE = capacity
    /\ \/ capacity = DesiredCapacity
       \/ 2 * capacity * Cardinality(Shard) > limit * PAGE_SIZE

\* An estimate is never above the units for which a pipe has room: an upload
\* makes room without being noticed, only capture takes it.
EstimateIsLowerBound ==
  \A s \in MainShard : target # s => remaining_space[s] <= capacity - bytes[s]

\* When some shard has room for a chunk, the chunk goes to one that has, though
\* the estimates are as old as the last time the best of them was too low.
PickedHasRoom == (step = "marker" /\ roomy) => HasRoom(target, data_size)

\* Why: an estimate that is fresh, or was high enough, is that of a shard with
\* room; and while a chunk is written the estimate lags by what it took so far.
Lag(s) == IF step = "data" /\ s = target THEN 1 + data_size - left ELSE 0

RoomInv ==
  /\ PAGE_SIZE \in Nat \ {0}
  /\ MainShard \subseteq AllShard
  /\ capacity \in Nat
  /\ bytes \in [AllShard -> Nat]
  /\ remaining_space \in [AllShard -> Int]
  /\ data_size \in Nat /\ left \in Nat /\ readable_len \in Nat
  /\ target # None => step \in {"marker", "data"}
  /\ step \in {"marker", "data"} => target \in MainShard
  /\ step = "size" => \A s \in AllShard : bytes[s] = 0 /\ remaining_space[s] = 0
  /\ \A s \in MainShard : remaining_space[s] <= capacity - bytes[s] + Lag(s)
  /\ (step = "choose" /\ roomy) =>
       \E s \in MainShard :
         /\ HasRoom(s, data_size)
         /\ s \in stale \/ remaining_space[s] >= SpaceRequired(data_size)
  /\ PickedHasRoom

\* As long as the uploads go on, capture gets back to its poller.
DrainReturns == (step # "idle") ~> (step = "idle")
=============================================================================
