------------------------------- MODULE SlotStream -------------------------------
(***************************************************************************)
(* One shard as the other modules see it (ShardPipes): its markers and     *)
(* payloads are written one by one, each in one step, and read one by one, *)
(* until the write end is gone, at the boundary of two of them or within   *)
(* one.  The reader finds the end of file where a marker would begin, and  *)
(* an error anywhere else.                                                 *)
(***************************************************************************)
EXTENDS Naturals, Sequences

CONSTANT Frames   \* what may be written: sequences of frames, "marker" or "payload"

VARIABLES frames,  \* what is written
          sent,    \* frames written
          ending,  \* the write end: open, or ended between frames, or within one
          taken,   \* frames read
          verdict  \* what the reader has come to

slotVars == <<frames, sent, ending, taken, verdict>>

SlotInit ==
  /\ frames \in Frames
  /\ sent = 0
  /\ ending = "open"
  /\ taken = 0
  /\ verdict = "reading"

PutFrame ==
  /\ ending = "open"
  /\ sent < Len(frames)
  /\ sent' = sent + 1
  /\ UNCHANGED <<frames, ending, taken, verdict>>

EndFrames(how) ==
  /\ ending = "open"
  /\ how = "torn" => sent < Len(frames)
  /\ ending' = how
  /\ UNCHANGED <<frames, sent, taken, verdict>>

TakeFrame ==
  /\ verdict = "reading"
  /\ taken < sent
  /\ taken' = taken + 1
  /\ UNCHANGED <<frames, sent, ending, verdict>>

\* The last marker that was read announces a payload.
PayloadDue == taken < Len(frames) /\ frames[taken + 1].kind = "payload"

ReadEnd ==
  /\ verdict = "reading"
  /\ taken = sent
  /\ ending # "open"
  /\ verdict' = IF ending = "eof" /\ ~PayloadDue THEN "eof" ELSE "failed"
  /\ UNCHANGED <<frames, sent, ending, taken>>

SlotNext ==
  \/ PutFrame
  \/ \E how \in {"eof", "torn"} : EndFrames(how)
  \/ TakeFrame
  \/ ReadEnd

SlotSpec == SlotInit /\ [][SlotNext]_slotVars
=============================================================================
