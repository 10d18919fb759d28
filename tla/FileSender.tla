------------------------------- MODULE FileSender -------------------------------
(***************************************************************************)
(* The image store of serve(): the thread that drains the shards sends     *)
(* what it reads to the thread that serves the files, over a channel of    *)
(* its own for the large files, after acquiring the memory each chunk      *)
(* takes.  The small files were sent before the second thread started.     *)
(* Files that are overlaid go to a pipe of the user's instead.  What       *)
(* drain_all() asks of the store is given as a script: ImageStream and     *)
(* Restore are about how it comes about.                                   *)
(***************************************************************************)
EXTENDS Semaphore, Sequences, FiniteSets, SequencesExt

CONSTANTS Unit,       \* what files are made of
          Large,      \* the files of the script that go to the channel
          Overlay,    \* those that bypass it (--ext-file-fds)
          Script,     \* create, data and insert, in the order of drain_all()
          ChunkSize   \* units of memory acquired at a time

Call(op, f, data) == [op |-> op, file |-> f, data |-> data]

\* Capture puts a payload behind no marker unless there is one, and an image has
\* one file of a name: nothing of it follows its insert.
ASSUME SenderAssumption ==
  /\ ChunkSize \in Nat \ {0}
  /\ IsFiniteSet(Large) /\ Large \cap Overlay = {}
  /\ Script \in Seq([op : {"create", "data", "insert"}, file : Large \cup Overlay,
                     data : Seq(Unit)])
  /\ \A i \in 1..Len(Script) :
       /\ Script[i].op = "data" => Script[i].data # << >>
       /\ Script[i].op = "insert" =>
            \A j \in (i + 1)..Len(Script) : Script[j].file # Script[i].file

VARIABLES drain,              \* where the draining thread is
          step,               \* the call of the script it is at
          done,               \* units of its data sent
          chunk,              \* units whose memory is acquired, being read
          channel,            \* sent and not received
          small_file_sender   \* the sender of the small files is open

senderVars == <<count, drain, step, done, chunk, channel, small_file_sender>>

Content(f, units) == [file |-> f, content |-> units, eof |-> FALSE]
Eof(f)            == [file |-> f, content |-> << >>, eof |-> TRUE]

SenderInit ==
  /\ SemaphoreInit
  /\ drain = "drain"
  /\ step = 1
  /\ done = 0
  /\ chunk = << >>
  /\ channel = << >>
  /\ small_file_sender = TRUE

At(op, files) ==
  /\ drain = "drain"
  /\ step <= Len(Script)
  /\ Script[step].op = op
  /\ Script[step].file \in files

\* Mutant: the sender of the small files stays open.
Create_SmallKept ==
  /\ At("create", Large)
  /\ step' = step + 1
  /\ UNCHANGED <<count, drain, done, chunk, channel, small_file_sender>>

\* create(): with the first large file the small ones are known to be complete.
Create ==
  /\ At("create", Large)
  /\ small_file_sender' = FALSE
  /\ step' = step + 1
  /\ UNCHANGED <<count, drain, done, chunk, channel>>

\* The next piece of at most ChunkSize units.
Piece ==
  LET data == Script[step].data
  IN  SubSeq(data, done + 1, IF done + ChunkSize < Len(data) THEN done + ChunkSize
                                                             ELSE Len(data))

\* write_all_from_pipe()
AcquireMemory ==
  /\ At("data", Large)
  /\ chunk = << >>
  /\ Acquire(Len(Piece))
  /\ chunk' = Piece
  /\ UNCHANGED <<drain, step, done, channel, small_file_sender>>

\* Nobody is told when the receiver is gone: the chunk is dropped.
SendContent(received) ==
  LET f    == Script[step].file
      last == done + Len(chunk) = Len(Script[step].data)
  IN  /\ At("data", Large)
      /\ chunk # << >>
      /\ channel' = IF received THEN Append(channel, Content(f, chunk)) ELSE channel
      /\ chunk' = << >>
      /\ done' = IF last THEN 0 ELSE done + Len(chunk)
      /\ step' = IF last THEN step + 1 ELSE step
      /\ UNCHANGED <<count, drain, small_file_sender>>

\* insert(): here a receiver that is gone is an error.
Insert(received) ==
  /\ At("insert", Large)
  /\ IF received
     THEN /\ channel' = Append(channel, Eof(Script[step].file))
          /\ step' = step + 1
          /\ UNCHANGED drain
     ELSE /\ drain' = "failed"
          /\ UNCHANGED <<channel, step>>
  /\ UNCHANGED <<count, done, chunk, small_file_sender>>

\* A file that is overlaid is created, written and inserted without the serving
\* thread, the small files or the memory limit; who reads it goes on reading.
Overlaid ==
  /\ \E op \in {"create", "data", "insert"} : At(op, Overlay)
  /\ step' = step + 1
  /\ UNCHANGED <<count, drain, done, chunk, channel, small_file_sender>>

\* drain_all() has returned Ok.
CloseSenders ==
  /\ drain = "drain"
  /\ step > Len(Script)
  /\ drain' = "join"
  /\ small_file_sender' = FALSE
  /\ UNCHANGED <<count, step, done, chunk, channel>>

\* drain_all() returns an error: a shard is cut.
DrainError ==
  /\ drain = "drain"
  /\ drain' = "failed"
  /\ UNCHANGED <<count, step, done, chunk, channel, small_file_sender>>
=============================================================================
