------------------------------ MODULE CaptureLoop ------------------------------
(***************************************************************************)
(* The loop of capture() with polling reduced to its promise: between two  *)
(* calls that block, the thread serves any source that is ready.  Capture  *)
(* refines this module down to the poller; here nobody reads the shards,   *)
(* so that the pipes show all that was written to them.                    *)
(***************************************************************************)
EXTENDS ImageSerializer, ShardObjects, SequencesExt

VARIABLE expecting  \* the poller holds the listener or a client's connection

loopVars == <<pipeVars, serializerVars, expecting>>

LoopInit ==
  /\ PipesInit
  /\ SerializerInit
  /\ expecting = TRUE

\* A client creates the pipe of a file and sends one end with its request.
ClientCreate(f) ==
  /\ expecting
  /\ writer[f] = "none"
  /\ writer' = [writer EXCEPT ![f] = "open"]
  /\ UNCHANGED <<pipeVars, file_state, produced, drained, current_filename, seq, metadata,
                 outbox, target, finished, expecting>>

\* The request is read and the other end goes to the poller.
OpenFile(f) ==
  /\ Idle
  /\ expecting
  /\ writer[f] # "none"
  /\ file_state[f] = "absent"
  /\ file_state' = [file_state EXCEPT ![f] = "open"]
  /\ UNCHANGED <<pipeVars, writer, produced, drained, current_filename, seq, metadata,
                 outbox, target, finished, expecting>>

\* The listener and the last connection leave the poller.
LastRequest ==
  /\ Idle
  /\ expecting
  /\ expecting' = FALSE
  /\ UNCHANGED <<pipeVars, serializerVars>>

DrainReady(f) ==
  /\ Idle
  /\ FileReady(f)
  /\ DrainImgFile(f)
  /\ UNCHANGED expecting

\* poll() returns None once the poller is empty.
EndCapture ==
  /\ Idle
  /\ ~expecting
  /\ \A f \in File : file_state[f] # "open"
  /\ WriteImageEof
  /\ UNCHANGED expecting

WriteShards ==
  /\ WritePayload \/ (\E s \in Shard : WriteMarker(s)) \/ CloseShards
  /\ UNCHANGED expecting

\* What the thread does of itself; requests are up to the clients.
CaptureStep == (\E f \in File : DrainReady(f)) \/ EndCapture \/ WriteShards

ClientStep ==
  \/ \E f \in File : ClientCreate(f) \/ OpenFile(f)
  \/ LastRequest
  \/ \E f \in File : (ClientWrite(f) \/ ClientClose(f)) /\ UNCHANGED expecting

\* The process has exited.
Exited == (\A s \in Shard : ending[s] = "eof") /\ UNCHANGED loopVars

LoopNext == ClientStep \/ CaptureStep \/ Exited

LoopSpec == LoopInit /\ [][LoopNext]_loopVars

-----------------------------------------------------------------------------
LoopTypeOK ==
  /\ SerializerTypeOK
  /\ pipe \in [Shard -> Seq(Slot)]
  /\ ending \in [Shard -> {"open", "eof"}]
  /\ expecting \in BOOLEAN

\* The chunks of a class, gathered from the shards by their numbers.
MarkersOf(c) == {at \in UNION {{s} \X (1..Len(pipe[s])) : s \in ShardsOf(c)} :
                   pipe[at[1]][at[2]].kind = "marker"}

ChunkAt(s, i) ==
  [marker |-> pipe[s][i],
   data   |-> IF HasPayload(pipe[s][i]) /\ i < Len(pipe[s])
              THEN pipe[s][i+1].data ELSE << >>]

Numbers(c) == {pipe[at[1]][at[2]].seq : at \in MarkersOf(c)}

Written ==
  [c \in Class |->
     [k \in 1..seq[c] |->
        LET at == CHOOSE at \in MarkersOf(c) : pipe[at[1]][at[2]].seq = k - 1
        IN  ChunkAt(at[1], at[2])]]

AllWritten == finished /\ Idle

\* Capture leaves behind what extract relies on: two streams of chunks with
\* consecutive numbers, every chunk whole in one shard, in each shard in
\* increasing order, whatever shard each write_chunk() picked.
ShardsWellFormed ==
  AllWritten =>
    /\ \A c \in Class : Numbers(c) = 0..(seq[c] - 1)
    /\ WellFormed(Written)
    /\ Spreads(Written, pipe)

\* Replaying the streams chunk by chunk, the small files first, gives every
\* file its client sent, whole, and the list of them.
ReplayChunks(class, image, chunks) ==
  FoldLeft(LAMBDA acc, ch :
             IF acc # None /\ CanApply(class, acc, ch.marker)
             THEN Apply(class, acc, ch.marker, ch.data) ELSE None,
           image, chunks)

ShardsReplay ==
  AllWritten =>
    LET image == ReplayChunks("main", ReplayChunks("small", EmptyImage, Written["small"]),
                              Written["main"])
        sent  == {f \in File : file_state[f] # "absent"}
    IN  /\ image # None
        /\ image.image_eof
        /\ image.inserted = sent
        /\ image.metadata = metadata
        /\ \A f \in sent : image.content[f] = [i \in 1..produced[f] |-> <<f, i>>]
=============================================================================
