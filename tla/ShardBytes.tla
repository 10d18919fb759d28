------------------------------- MODULE ShardBytes -------------------------------
(***************************************************************************)
(* One shard down to the byte: a writer whose writes and splices are       *)
(* partial when the pipe is full and who may be gone at any byte, and the  *)
(* loops of the reader, which get less than they ask for: those of         *)
(* pb_read_next() for a marker, and for a payload those of the image store *)
(* it goes to.  Bytes are told apart by their position.                    *)
(***************************************************************************)
EXTENDS Integers, Sequences, FiniteSetsExt, Folds

CONSTANTS Frames,    \* what may be written: sequences of markers and payloads
          Prefix,    \* bytes of the length in front of a marker
          PipeRoom,  \* bytes the pipe holds
          Stores,    \* the stores to look at
          SmallMax,  \* MAX_SMALL_CHUNK_SIZE of the memory store
          ChunkSize  \* the size of its large chunks, and of the pieces that are sent

ASSUME BytesAssumption ==
  /\ Frames \subseteq Seq([kind : {"marker", "payload"}, len : Nat])
  /\ \A list \in Frames : \A i \in 1..Len(list) : list[i].kind = "payload" =>
       list[i].len > 0 /\ i > 1 /\ list[i-1].kind = "marker"
  /\ Prefix \in Nat \ {0}
  /\ PipeRoom \in Nat \ {0}
  /\ Stores \subseteq {"disk", "sender", "memory"}
  /\ ChunkSize \in Nat
  /\ SmallMax \in 1..(ChunkSize - 1)  \* a page, and 10 MB

VARIABLES frames,   \* what is written
          store,    \* the store it is read into
          written,  \* bytes that went into the pipe
          closed,   \* its write end is gone
          read,     \* bytes that came out of it
          taken,    \* frames read
          at,       \* what the reader is reading
          left,     \* bytes left of the payload, piece after piece
          want,     \* bytes the loop at hand is to get
          have,     \* bytes it has got
          file,     \* the pieces the store has of the file
          short     \* it made do with less than the payload

writerVars == <<frames, store, written, closed>>
readerVars == <<read, taken, at, left, want, have, file, short>>
vars == <<writerVars, readerVars>>

SizeOf(frame) == IF frame.kind = "marker" THEN Prefix + frame.len ELSE frame.len

\* Where the first n frames end.
Offset(n) == FoldFunctionOnSet(+, 0, [i \in 1..Len(frames) |-> SizeOf(frames[i])], 1..n)

Init ==
  /\ frames \in Frames
  /\ store \in Stores
  /\ written = 0
  /\ closed = FALSE
  /\ read = 0
  /\ taken = 0
  /\ at = "prefix"
  /\ left = 0
  /\ want = Prefix
  /\ have = 0
  /\ file = [large |-> FALSE, pieces |-> IF store = "memory" THEN <<0>> ELSE << >>]
  /\ short = FALSE

-----------------------------------------------------------------------------
\* The writer: the loops of pb_write() and splice_all().

\* Frames written in full.
Sent == Max({n \in 0..Len(frames) : Offset(n) <= written})

\* One write or splice is of one frame, and stops where the pipe is full.
WriteSome(n) ==
  /\ ~closed
  /\ Sent < Len(frames)
  /\ written + n <= Offset(Sent + 1)
  /\ written + n - read <= PipeRoom
  /\ written' = written + n
  /\ UNCHANGED <<frames, store, closed, readerVars>>

\* It has written everything, or is gone before.
CloseShard ==
  /\ ~closed
  /\ closed' = TRUE
  /\ UNCHANGED <<frames, store, written, readerVars>>

Writer == CloseShard \/ \E n \in 1..PipeRoom : WriteSome(n)

-----------------------------------------------------------------------------
\* The memory store.

LastOf(pieces) == pieces[Len(pieces)]

\* reserve_chunk() of n bytes: a small file becomes a large one, whose first
\* chunk it is, before it outgrows SmallMax; a large one has room in its last.
Reserve(f, n) ==
  IF f.large
  THEN IF LastOf(f.pieces) < ChunkSize THEN f ELSE [f EXCEPT !.pieces = Append(@, 0)]
  ELSE [f EXCEPT !.large = LastOf(f.pieces) + n > SmallMax]

RoomIn(f) == ChunkSize - LastOf(f.pieces)

AtMost(n, bound) == IF n < bound THEN n ELSE bound

\* Mutant: all n bytes, whatever room the chunk has.
CopySize_All(n) == n

\* What one call of copy_from_reader() is to get of n bytes.
CopySize(n) ==
  LET f == Reserve(file, n) IN IF f.large THEN AtMost(n, RoomIn(f)) ELSE n

CopyInto(f, n) == [f EXCEPT !.pieces[Len(f.pieces)] = @ + n]

-----------------------------------------------------------------------------
\* The reader.

Reading == at \in {"prefix", "body", "payload"}

\* A read, or a splice, of no more than the loop still wants.
ReadSome(n) ==
  /\ Reading
  /\ n <= want - have
  /\ n <= written - read
  /\ read' = read + n
  /\ have' = have + n
  /\ UNCHANGED <<writerVars, taken, at, left, want, file, short>>

Begin(what, n) == at' = what /\ want' = n /\ have' = 0

\* pb_read_next(): the length of a marker, then the marker.
PrefixRead ==
  /\ at = "prefix"
  /\ have = want
  /\ Begin("body", frames[taken + 1].len)
  /\ UNCHANGED <<writerVars, read, taken, left, file, short>>

PayloadDue(n) == n < Len(frames) /\ frames[n + 1].kind = "payload"

BodyRead ==
  /\ at = "body"
  /\ have = want
  /\ taken' = taken + 1
  /\ IF PayloadDue(taken + 1)
     THEN at' = "piece" /\ left' = frames[taken + 2].len /\ UNCHANGED <<want, have>>
     ELSE Begin("prefix", Prefix) /\ UNCHANGED left
  /\ UNCHANGED <<writerVars, read, file, short>>

\* write_all_from_pipe(): the next piece of the payload, as large as the store
\* takes it, or the end of the payload.
BeginPiece ==
  /\ at = "piece"
  /\ left > 0
  /\ Begin("payload", CASE store = "disk"   -> left
                        [] store = "sender" -> AtMost(left, ChunkSize)
                        [] store = "memory" -> CopySize(left))
  /\ file' = IF store = "memory" THEN Reserve(file, left) ELSE file
  /\ UNCHANGED <<writerVars, read, taken, left, short>>

\* Mutant: one splice is taken to have moved everything.
GotPiece_Once == have > 0

GotPiece == have = want

\* n bytes are in the file, or on their way to the serving thread.
Keep(n) ==
  CASE store = "disk"   -> file
    [] store = "sender" -> [file EXCEPT !.pieces = Append(@, n)]
    [] store = "memory" -> CopyInto(file, n)

PieceRead ==
  /\ at = "payload"
  /\ GotPiece
  /\ file' = Keep(have)
  /\ left' = left - want
  /\ at' = "piece"
  /\ UNCHANGED <<writerVars, read, taken, want, have, short>>

PayloadRead ==
  /\ at = "piece"
  /\ left = 0
  /\ taken' = taken + 1
  /\ Begin("prefix", Prefix)
  /\ UNCHANGED <<writerVars, read, left, file, short>>

\* The end of the shard where the loop wants more.
AtEnd == Reading /\ have < want /\ closed /\ written = read

\* read_to_end() into a small file is taken to have read what it was asked to.
Unnoticed == at = "payload" /\ store = "memory" /\ ~file.large

\* Mutant: a length that is cut is taken for the end of the shard.
CleanEnd_Partial == at = "prefix"

\* None, when the shard ends in front of a marker.
CleanEnd == at = "prefix" /\ have = 0

\* Mutant: a splice that moved nothing is tried again.
ReadEof_Spins ==
  /\ AtEnd
  /\ ~Unnoticed
  /\ at' = IF at = "payload" THEN at ELSE IF CleanEnd THEN "eof" ELSE "failed"
  /\ UNCHANGED <<writerVars, read, taken, left, want, have, file, short>>

ReadEof ==
  /\ AtEnd
  /\ ~Unnoticed
  /\ at' = IF CleanEnd THEN "eof" ELSE "failed"
  /\ UNCHANGED <<writerVars, read, taken, left, want, have, file, short>>

ReadEofUnnoticed ==
  /\ AtEnd
  /\ Unnoticed
  /\ file' = CopyInto(file, have)
  /\ left' = 0
  /\ at' = "piece"
  /\ short' = TRUE
  /\ UNCHANGED <<writerVars, read, taken, want, have>>

Reader ==
  \/ \E n \in 1..PipeRoom : ReadSome(n)
  \/ PrefixRead \/ BodyRead \/ BeginPiece \/ PieceRead \/ PayloadRead
  \/ ReadEof \/ ReadEofUnnoticed

Ended == at \in {"eof", "failed"}

\* The reader is gone, and nobody else is looked at.
Exited == Ended /\ UNCHANGED vars

Next == Writer \/ Reader \/ Exited

Spec == Init /\ [][Next]_vars

\* The reader runs whenever it is not blocked; the writer goes on or is gone.
FairSpec == Spec /\ WF_vars(Reader) /\ WF_vars(Writer)

-----------------------------------------------------------------------------
\* Every variable keeps to its type; in particular no chunk of the memory store is
\* written past its end, and no loop gets more than it asked for.
TypeOK ==
  /\ written \in 0..Offset(Len(frames))
  /\ read \in 0..written
  /\ taken \in 0..Len(frames)
  /\ at \in {"prefix", "body", "piece", "payload", "eof", "failed"}
  /\ have \in 0..want
  /\ left \in Nat
  /\ at = "payload" => want \in 1..left
  /\ \A i \in 1..Len(file.pieces) : file.pieces[i] \in 0..ChunkSize

\* Bytes of payloads among the first n frames.
PayloadBytes(n) ==
  FoldFunctionOnSet(+, 0, [i \in 1..Len(frames) |-> frames[i].len],
                    {i \in 1..n : frames[i].kind = "payload"})

\* What has been read of the payload at hand, before the piece at hand.
Before == IF at \in {"piece", "payload"} THEN frames[taken + 1].len - left ELSE 0

\* The pieces make up what was read of the payloads, none of them is empty but
\* in an empty file, and a chunk of the memory store is full before the next.
FileHolds ==
  (store # "disk" /\ ~short /\ ~Ended) =>
    LET n == Len(file.pieces)
    IN  /\ FoldFunctionOnSet(+, 0, file.pieces, 1..n) = PayloadBytes(taken) + Before
        /\ store = "sender" => \A i \in 1..n : file.pieces[i] > 0
        /\ store = "memory" => \A i \in 1..(n - 1) : file.pieces[i] = ChunkSize
        /\ store = "memory" /\ ~file.large => n = 1 /\ file.pieces[1] <= SmallMax

\* Whatever is partial and wherever the writer is gone, the loops implement a
\* shard that is read frame by frame, but for a payload of which the memory
\* store takes a part for the whole.
Slots == INSTANCE SlotStream
           WITH sent    <- Sent,
                ending  <- IF ~closed THEN "open"
                           ELSE IF Offset(Sent) = written THEN "eof" ELSE "torn",
                verdict <- IF Ended THEN at ELSE "reading"

RefinesSlots == Slots!SlotInit /\ [][short \/ Slots!SlotNext]_(Slots!slotVars)

\* The reader comes to an end, whatever the writer does.
ReaderEnds == <>Ended
=============================================================================
