------------------------------ MODULE ShardPipes ------------------------------
(***************************************************************************)
(* The shard pipes between the two processes (or between each of them and  *)
(* the program that uploads or downloads a shard): bounded byte streams    *)
(* whose slots are the markers and payloads of ImageStream.  A write to a  *)
(* full pipe blocks; a read of an empty one blocks until data arrives or   *)
(* the write end is gone.  The first shard is reserved for small files.    *)
(***************************************************************************)
EXTENDS ImageStream

CONSTANTS MainShard,   \* the shards of the large files
          SmallShard,  \* the shard of the small files
          Capacity     \* bound on the slots a pipe holds

ASSUME ShardAssumption ==
  /\ MainShard # {}
  /\ SmallShard \notin MainShard
  /\ None \notin MainShard \cup {SmallShard}
  /\ Capacity \in Nat \ {0}

VARIABLES pipe,    \* the slots in flight of each shard
          ending   \* its write end: open, or ended at a chunk boundary, or within a chunk

pipeVars == <<pipe, ending>>

Shard == MainShard \cup {SmallShard}

ShardsOf(class) == IF class = "small" THEN {SmallShard} ELSE MainShard

PipesInit ==
  /\ pipe = [s \in Shard |-> << >>]
  /\ ending = [s \in Shard |-> "open"]

\* The writer of s adds a slot; the guard is its blocking on a full pipe.
Put(s, slot) ==
  /\ ending[s] = "open"
  /\ Len(pipe[s]) < Capacity
  /\ pipe' = [pipe EXCEPT ![s] = Append(@, slot)]

\* The reader of s removes the slot at the head.
Take(s) == pipe' = [pipe EXCEPT ![s] = Tail(@)]

\* The writer of s is gone, at a chunk boundary ("eof") or not ("torn").
EndShard(s, how) ==
  /\ ending[s] = "open"
  /\ ending' = [ending EXCEPT ![s] = how]

\* What poll() reports for POLLIN, POLLHUP included.
Readable(s) == pipe[s] # << >> \/ ending[s] # "open"

\* What a read of the next marker or payload finds.
HasSlot(s, kind) == pipe[s] # << >> /\ Head(pipe[s]).kind = kind
AtEof(s)  == pipe[s] = << >> /\ ending[s] = "eof"
AtTear(s) == pipe[s] = << >> /\ ending[s] = "torn"
=============================================================================
