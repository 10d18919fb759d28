------------------------------- MODULE Migration -------------------------------
(***************************************************************************)
(* Capture directly connected to extract, the shards being the pipes       *)
(* between them: the live migration that get_next_readable_shard() speaks  *)
(* of.  Both processes block on the same bounded pipes.                    *)
(***************************************************************************)
EXTENDS CaptureLoop, ImageDeserializer

migrationVars == <<loopVars, deserializerVars>>

MigrationInit == LoopInit /\ DeserializerInit

Capture == CaptureStep /\ UNCHANGED deserializerVars

Client == ClientStep /\ UNCHANGED deserializerVars

Extract == DeserializerNext /\ UNCHANGED <<serializerVars, expecting>>

\* Extract has returned.
Finished == ~Running /\ UNCHANGED migrationVars

MigrationNext == Client \/ Capture \/ Extract \/ Finished

\* The two threads run whenever they are not blocked; a client may do nothing.
MigrationSpec == MigrationInit /\ [][MigrationNext]_migrationVars
MigrationFairSpec ==
  MigrationSpec /\ WF_migrationVars(Capture) /\ WF_migrationVars(Extract)

-----------------------------------------------------------------------------
MigrationTypeOK ==
  /\ LoopTypeOK
  /\ \A s \in Shard : Len(pipe[s]) <= Capacity
  /\ img \in Image
  /\ pending_markers \in SUBSET PendingMarker

\* What the image store holds is, file by file, the first part of what the
\* client wrote; a file is inserted only when whole, and drain_all() returns Ok
\* only when all the files are.
Transfer == INSTANCE ImageTransfer
              WITH state    <- [f \in File |-> IF file_state[f] = "absent" THEN "none"
                                               ELSE writer[f]],
                   original <- [f \in File |-> [i \in 1..produced[f] |-> <<f, i>>]],
                   copy     <- [f \in File |-> img.content[f]],
                   sealed   <- img.inserted,
                   complete <- phase = "done"

RefinesTransfer == Transfer!TransferSpec

\* The list read from the small shard, from which files are served, names
\* every file of the image once.
MetadataComplete ==
  phase \in {"select", "read", "data", "done"} =>
    /\ {img.metadata[i] : i \in 1..Len(img.metadata)} =
         {f \in File : file_state[f] = "removed"}
    /\ \A i, j \in 1..Len(img.metadata) : img.metadata[i] = img.metadata[j] => i = j

\* drain_all() returns Ok for the files that joined the image and no others,
\* each of them whole, as its client has closed it; and as capture has ended,
\* no file joins the image and none grows behind its back.
Delivered ==
  phase = "done" =>
    LET sent == {f \in File : file_state[f] # "absent"}
    IN  /\ img.inserted = sent
        /\ \A f \in sent : /\ writer[f] = "closed"
                           /\ img.content[f] = [i \in 1..produced[f] |-> <<f, i>>]

\* A stream that capture wrote to its end is never refused.
NeverRefused == phase # "failed"

\* The two processes never wait for each other: capture for room in a pipe that
\* extract does not read, extract for data in a pipe that capture does not
\* write.  drain_small_file_shard() waits for the small shard, a read for the
\* picked one, and poll() for any of shards.
WantsRoom ==
  IF target # None THEN {target}
  ELSE IF Idle THEN {} ELSE ShardsOf(Head(outbox).class)

CaptureBlocked ==
  WantsRoom # {} /\ \A s \in WantsRoom : Len(pipe[s]) >= Capacity

WaitsFor ==
  CASE phase \in {"small", "small_data"}  -> {SmallShard}
    [] phase \in {"read", "data"}         -> {picked}
    [] phase = "select" /\ InOrder = {} /\ readable_shards = {} -> shards
    [] OTHER -> {}

ExtractBlocked ==
  WaitsFor # {} /\ \A s \in WaitsFor : ~Readable(s)

NoMutualBlocking == ~(CaptureBlocked /\ ExtractBlocked)

\* Once the clients are done, their image gets to the other side.
ClientDone == ~expecting /\ \A f \in File : file_state[f] = "open" => writer[f] = "closed"

MigrationCompletes == ClientDone ~> (phase = "done")
=============================================================================
