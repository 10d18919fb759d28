---------------------------- MODULE ImageSerializer ----------------------------
(***************************************************************************)
(* The capture side: one thread that polls the pipes of the image files    *)
(* its client sends, cuts what each has into chunks and writes these to    *)
(* the shards, blocking when a shard is full.  A call of                   *)
(* drain_img_file() numbers its chunks in the order in which it writes     *)
(* them; here it queues them in outbox, which the thread then writes slot  *)
(* by slot before it polls again.                                          *)
(***************************************************************************)
EXTENDS ShardPipes

CONSTANTS ExtFile,    \* files whose pipes are given on the command line
          MaxSize,    \* bound: units a client writes to a file
          ClientRoom, \* units the pipe of an image file holds
          ChunkMax    \* chunk_max_data_size(), in units

ASSUME SerializerAssumption ==
  /\ ExtFile \subseteq File
  /\ MaxSize \in Nat
  /\ ClientRoom \in Nat \ {0}
  /\ ChunkMax \in Nat \ {0}

\* What is sent of a file is its units, what is listed its name.
ASSUME DataAssumption == File \cup (File \X (1..MaxSize)) \subseteq Data

VARIABLES writer,            \* the client's end of the pipe of each image file
          file_state,        \* whether the poller holds the other end
          produced,          \* units its client has written
          drained,           \* units read from it
          current_filename,  \* the file the last Filename marker named
          seq,               \* small_file_seq and seq
          metadata,          \* the files drained to their end
          outbox,            \* chunks numbered and still to be written
          target,            \* the shard that is owed the payload of the first
          finished           \* write_image_eof() has been called

serializerVars ==
  <<writer, file_state, produced, drained, current_filename, seq, metadata, outbox,
    target, finished>>

SerializerInit ==
  /\ writer = [f \in File |-> IF f \in ExtFile THEN "open" ELSE "none"]
  /\ file_state = [f \in File |-> IF f \in ExtFile THEN "open" ELSE "absent"]
  /\ produced = [f \in File |-> 0]
  /\ drained = [f \in File |-> 0]
  /\ current_filename = None
  /\ seq = [c \in Class |-> 0]
  /\ metadata = << >>
  /\ outbox = << >>
  /\ target = None
  /\ finished = FALSE

-----------------------------------------------------------------------------
\* The client's end of the pipe of an image file.

Fionread(f) == produced[f] - drained[f]

\* A client may write to the pipe from the moment it has created it, even
\* before capture has received the other end.
ClientWrite(f) ==
  /\ writer[f] = "open"
  /\ produced[f] < MaxSize
  /\ Fionread(f) < ClientRoom
  /\ produced' = [produced EXCEPT ![f] = @ + 1]
  /\ UNCHANGED <<pipeVars, writer, file_state, drained, current_filename, seq, metadata,
                 outbox, target, finished>>

ClientClose(f) ==
  /\ writer[f] = "open"
  /\ writer' = [writer EXCEPT ![f] = "closed"]
  /\ UNCHANGED <<pipeVars, file_state, produced, drained, current_filename, seq, metadata,
                 outbox, target, finished>>

\* epoll reports the pipe: EPOLLIN, or EPOLLHUP once the writer is gone.
FileReady(f) == file_state[f] = "open" /\ (Fionread(f) > 0 \/ writer[f] = "closed")

-----------------------------------------------------------------------------
\* drain_img_file().

Idle == outbox = << >>

Fragment(body, f, data) == [body |-> body, file |-> f, data |-> data]

\* The markers of a class, numbered from seq on.
Numbered(class, fragments) ==
  [k \in 1..Len(fragments) |->
     [class  |-> class,
      marker |-> MakeMarker(seq[class] + k - 1, fragments[k].body, fragments[k].file),
      data   |-> fragments[k].data]]

\* Mutant: a file is named once, whatever was written since.
FilenameFragment_Once(f) ==
  IF drained[f] > 0 THEN << >> ELSE <<Fragment("Filename", f, << >>)>>

\* maybe_write_filename_marker()
FilenameFragment(f) ==
  IF current_filename = f THEN << >> ELSE <<Fragment("Filename", f, << >>)>>

\* Mutant: chunks are always as large as they may be.
DataSize_NoMin(readable_len) == ChunkMax

DataSize(readable_len) == IF readable_len < ChunkMax THEN readable_len ELSE ChunkMax

\* What fionread() reported, cut into chunks of at most ChunkMax units.
DataFragments(f) ==
  LET len == Fionread(f)
      Units(done) == [i \in 1..DataSize(len - done) |-> <<f, drained[f] + done + i>>]
  IN  [k \in 1..((len + ChunkMax - 1) \div ChunkMax) |->
         Fragment("FileData", None, Units((k - 1) * ChunkMax))]

EofFragment == <<Fragment("FileEof", None, << >>)>>

\* Mutant: one counter for the chunks of both classes.
Queue_OneCounter(class, fragments) ==
  /\ outbox' = outbox \o Numbered(class, fragments)
  /\ seq' = [c \in Class |-> seq[c] + Len(fragments)]

Queue(class, fragments) ==
  /\ outbox' = outbox \o Numbered(class, fragments)
  /\ seq' = [seq EXCEPT ![class] = @ + Len(fragments)]

\* Mutant: a pipe that is not full is at its end.
IsEof_Short(f) == Fionread(f) < ClientRoom

\* End of file is inferred from fionread() = 0: the poller reported the pipe.
IsEof(f) == Fionread(f) = 0

\* Mutant: a file is listed whenever it is drained.
Listed_Always(f) == Append(metadata, f)

Listed(f) == IF IsEof(f) THEN Append(metadata, f) ELSE metadata

\* At its end of file the pipe leaves the poller.
DrainImgFile(f) ==
  /\ Queue(ClassOf(f),
           FilenameFragment(f) \o (IF IsEof(f) THEN EofFragment ELSE DataFragments(f)))
  /\ current_filename' = f
  /\ drained' = [drained EXCEPT ![f] = produced[f]]
  /\ metadata' = Listed(f)
  /\ file_state' = [file_state EXCEPT ![f] = IF IsEof(f) THEN "removed" ELSE @]
  /\ UNCHANGED <<pipeVars, writer, produced, target, finished>>

-----------------------------------------------------------------------------
\* write_chunk(): the marker, then its data, to the same shard.  The shard of a
\* large file is the one estimated to have most room: any may be.

WriteMarker(s) ==
  /\ ~Idle
  /\ target = None
  /\ s \in ShardsOf(Head(outbox).class)
  /\ Put(s, Head(outbox).marker)
  /\ IF HasPayload(Head(outbox).marker)
     THEN target' = s /\ UNCHANGED outbox
     ELSE outbox' = Tail(outbox) /\ UNCHANGED target
  /\ UNCHANGED <<ending, writer, file_state, produced, drained, current_filename, seq,
                 metadata, finished>>

WritePayload ==
  /\ target # None
  /\ Put(target, MakePayload(Head(outbox).data))
  /\ target' = None
  /\ outbox' = Tail(outbox)
  /\ UNCHANGED <<ending, writer, file_state, produced, drained, current_filename, seq,
                 metadata, finished>>

\* Mutant: the large files get no ImageEof.
EndFragments_SmallOnly ==
  [small |-> <<Fragment("Filename", MetadataFile, << >>),
               Fragment("FileData", None, metadata)>> \o EofFragment,
   main  |-> << >>]

\* The metadata go to the small shard, ImageEof to a main one.
EndFragments ==
  [small |-> <<Fragment("Filename", MetadataFile, << >>),
               Fragment("FileData", None, metadata)>> \o EofFragment,
   main  |-> <<Fragment("ImageEof", None, << >>)>>]

WriteImageEof ==
  /\ ~finished
  /\ outbox' = Numbered("small", EndFragments.small) \o Numbered("main", EndFragments.main)
  /\ seq' = [c \in Class |-> seq[c] + Len(EndFragments[c])]
  /\ finished' = TRUE
  /\ UNCHANGED <<pipeVars, writer, file_state, produced, drained, current_filename, metadata,
                 target>>

\* The process exits, and with it go the write ends of the shards.
CloseShards ==
  /\ finished
  /\ Idle
  /\ \E s \in Shard : ending[s] = "open"
  /\ ending' = [s \in Shard |-> "eof"]
  /\ UNCHANGED <<pipe, serializerVars>>

-----------------------------------------------------------------------------
SerializerTypeOK ==
  /\ writer \in [File -> {"none", "open", "closed"}]
  /\ file_state \in [File -> {"absent", "open", "removed"}]
  /\ produced \in [File -> 0..MaxSize]
  /\ drained \in [File -> 0..MaxSize]
  /\ current_filename \in File \cup {None}
  /\ seq \in [Class -> Nat]
  /\ metadata \in Seq(File)
  /\ \A k \in 1..Len(outbox) :
       /\ outbox[k].class \in Class
       /\ outbox[k].marker \in Marker
       /\ outbox[k].data \in Seq(Data)
  /\ target \in Shard \cup {None}
  /\ finished \in BOOLEAN
=============================================================================
