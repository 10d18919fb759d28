-------------------------------- MODULE Restore --------------------------------
(***************************************************************************)
(* Extract fed with stored shards: each shard is delivered to its pipe by  *)
(* a program of its own (a download), independently of the others, and any *)
(* delivery may end early, at a slot boundary or within one.  Or one       *)
(* program delivers the main shards, blocking on the one it writes to.     *)
(***************************************************************************)
EXTENDS ShardReader

CONSTANT Images  \* what may be stored, and how it is delivered

\* One program delivers all the main shards, chunk by chunk, or each has its own;
\* and the shards whose delivery may end early.
Delivery == [coupled : BOOLEAN, fragile : SUBSET Shard]

ASSUME StoreAssumption ==
  \A image \in Images :
    /\ WellFormed(image.stream)
    /\ Spreads(image.stream, image.object)
    /\ image.delivery \in Delivery

VARIABLES stream,    \* the chunks that capture wrote, per class
          object,    \* the stored shards they are spread over
          delivery,  \* how they are delivered
          sent,      \* how many slots of each have been delivered
          cut        \* the shards whose delivery ended early

storeVars == <<stream, object, delivery, sent, cut>>
vars == <<pipeVars, storeVars, deserializerVars>>

Init ==
  /\ PipesInit
  /\ DeserializerInit
  /\ \E image \in Images :
       stream = image.stream /\ object = image.object /\ delivery = image.delivery
  /\ sent = [s \in Shard |-> 0]
  /\ cut = {}

\* The number of the chunk whose slot is to be delivered next to s.
ChunkDue(s) ==
  LET slot == object[s][sent[s] + 1]
  IN  IF slot.kind = "marker" THEN slot.seq ELSE object[s][sent[s]].seq

\* A single writer of all main shards blocks on the one that is full.
InTurn(s) ==
  \A t \in MainShard \ {s} :
    (delivery.coupled /\ s \in MainShard /\ sent[t] < Len(object[t])) => ChunkDue(s) < ChunkDue(t)

\* A slot is delivered as long as there is a reader to deliver it to.
Deliver(s) ==
  /\ Running
  /\ sent[s] < Len(object[s])
  /\ InTurn(s)
  /\ Put(s, object[s][sent[s] + 1])
  /\ sent' = [sent EXCEPT ![s] = @ + 1]
  /\ UNCHANGED <<ending, stream, object, delivery, cut, deserializerVars>>

EndDelivery(s) ==
  /\ Running
  /\ sent[s] = Len(object[s])
  /\ EndShard(s, "eof")
  /\ UNCHANGED <<pipe, storeVars, deserializerVars>>

Truncate(s, how) ==
  /\ Running
  /\ s \in delivery.fragile
  /\ sent[s] < Len(object[s])
  /\ EndShard(s, how)
  /\ cut' = cut \cup {s}
  /\ UNCHANGED <<pipe, stream, object, delivery, sent, deserializerVars>>

Read == DeserializerNext /\ UNCHANGED storeVars

\* The thread has returned from drain_all(), or an error ended it.
Returned == ~Running /\ UNCHANGED vars

Next ==
  \/ \E s \in Shard : Deliver(s) \/ EndDelivery(s)
  \/ \E s \in Shard, how \in {"eof", "torn"} : Truncate(s, how)
  \/ Read
  \/ Returned

Spec == Init /\ [][Next]_vars

\* Every delivery goes on until its shard is exhausted or cut, and the thread
\* runs whenever it is not blocked.
FairSpec ==
  /\ Spec
  /\ WF_vars(Read)
  /\ \A s \in Shard : WF_vars(Deliver(s)) /\ WF_vars(EndDelivery(s))

-----------------------------------------------------------------------------
\* Every variable keeps to its type.
TypeOK ==
  /\ ReaderTyped(object, sent)
  /\ delivery \in Delivery
  /\ cut \in SUBSET Shard

\* The stored shards hold the chunks.
Stored == WellFormed(stream) /\ Spreads(stream, object)

\* Only a cut shard ends before its last slot.
CutShort ==
  \A s \in Shard :
    /\ ending[s] # "open" => s \in cut \/ sent[s] = Len(object[s])
    /\ ending[s] = "torn" => s \in cut

\* The inductive invariant: what ShardReader says of any extract, and of these
\* shards.
RestoreInv ==
  /\ TypeOK
  /\ Stored
  /\ CutShort
  /\ Reading(stream, object, sent)

\* drain_all() never returns Ok for a part of an image, whichever shards were
\* cut and wherever: all chunks of the large files up to ImageEof have been
\* applied, and all of the small files but for the last marker of the metadata.
AcceptedIsWhole ==
  phase = "done" =>
    /\ next_seq["main"] = Len(stream["main"])
    /\ next_seq["small"] >= Len(stream["small"]) - 1

\* The shards, read in whatever order they become readable, rebuild what a
\* sequential reader of the two streams would, and are refused only when it
\* would refuse them too or a shard is cut.
Replay == INSTANCE SequentialReplay
            WITH stage   <- CASE phase \in {"small", "small_data"} -> "small"
                              [] phase \in {"select", "read", "data"} -> "main"
                              [] OTHER -> phase,
                 applied <- next_seq,
                 image   <- img,
                 damaged <- cut # {}

RefinesReplay == Replay!ReplaySpec

\* The reader ends, with an image or with an error: it is never left blocked
\* on a shard that has nothing more to give.
DrainTerminates == <>(phase \in {"done", "failed"})
=============================================================================
