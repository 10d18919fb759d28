--------------------------- MODULE SequentialReplay ---------------------------
(***************************************************************************)
(* What restoring an image means, with no shards, pipes or threads: the    *)
(* chunks of the small files are applied one after the other in the order  *)
(* in which capture numbered them, then those of the large files.  The     *)
(* reader accepts exactly when it has applied both streams to their end,   *)
(* and it may refuse only with a reason: a chunk that cannot be applied, a *)
(* stream that ends without its metadata or its ImageEof, or damage.       *)
(* ImageDeserializer, fed from any number of shards in any order of        *)
(* arrival, implements this specification (see Restore).                   *)
(***************************************************************************)
EXTENDS ImageStream

VARIABLES stream,   \* the chunks of each class, in the order of their numbers
          stage,    \* the class being replayed, or the outcome
          applied,  \* how many chunks of each class have been applied
          image,    \* the image they give
          damaged   \* some shard is not whole

replayVars == <<stream, stage, applied, image, damaged>>

Next(class)    == stream[class][applied[class] + 1]
Remains(class) == applied[class] < Len(stream[class])

\* ImageEof must be the last chunk.
Applicable(class) ==
  LET m == Next(class).marker
  IN  /\ CanApply(class, image, m)
      /\ m.body = "ImageEof" => applied[class] + 1 = Len(stream[class])

ReplayInit ==
  /\ stage = "small"
  /\ applied = [c \in Class |-> 0]
  /\ image = EmptyImage
  /\ damaged = FALSE

ReplayChunk(class) ==
  /\ stage = class
  /\ Remains(class)
  /\ CanApply(class, image, Next(class).marker)
  /\ image' = Apply(class, image, Next(class).marker, Next(class).data)
  /\ applied' = [applied EXCEPT ![class] = @ + 1]
  /\ UNCHANGED <<stream, stage, damaged>>

EndSmall ==
  /\ stage = "small"
  /\ ~Remains("small") \/ damaged
  /\ image.metadata # None
  /\ stage' = "main"
  /\ UNCHANGED <<stream, applied, image, damaged>>

Accept ==
  /\ stage = "main"
  /\ ~Remains("main") \/ damaged
  /\ image.image_eof
  /\ stage' = "done"
  /\ UNCHANGED <<stream, applied, image, damaged>>

\* The reasons for refusing an image that is whole.
Malformed(class) ==
  IF Remains(class)
  THEN image.image_eof \/ ~Applicable(class)
  ELSE (class = "small" /\ image.metadata = None) \/ (class = "main" /\ ~image.image_eof)

Refuse ==
  /\ stage \in Class
  /\ damaged \/ Malformed(stage)
  /\ stage' = "failed"
  /\ UNCHANGED <<stream, applied, image, damaged>>

Damage ==
  /\ ~damaged
  /\ damaged' = TRUE
  /\ UNCHANGED <<stream, stage, applied, image>>

ReplayNext ==
  \/ \E class \in Class : ReplayChunk(class)
  \/ EndSmall \/ Accept \/ Refuse \/ Damage

ReplaySpec == ReplayInit /\ [][ReplayNext]_replayVars
=============================================================================
