----------------------------- MODULE ImageTransfer -----------------------------
(***************************************************************************)
(* What capture and extract promise together: files that grow at one side  *)
(* are copied to the other.  The copy of a file is at all times the first  *)
(* part of it; it is sealed only once the file is closed and copied        *)
(* entirely; and the image is complete only when every file that was begun *)
(* is sealed.                                                              *)
(***************************************************************************)
EXTENDS Integers, Sequences

CONSTANT File

VARIABLES state,    \* of the file where it is written: "none", "open" or "closed"
          original, \* what was written
          copy,     \* what was copied
          sealed,   \* the files handed over as finished
          complete  \* the image was handed over as finished

transferVars == <<state, original, copy, sealed, complete>>

TransferInit ==
  /\ state \in [File -> {"none", "open"}]
  /\ original = [f \in File |-> << >>]
  /\ copy = [f \in File |-> << >>]
  /\ sealed = {}
  /\ complete = FALSE

IsFirstPart(s, t) == Len(s) <= Len(t) /\ s = SubSeq(t, 1, Len(s))

\* What was written before the file joined the image counts.
Begin(f) ==
  /\ state[f] = "none"
  /\ \E now \in {"open", "closed"} : state' = [state EXCEPT ![f] = now]
  /\ UNCHANGED <<original, copy, sealed, complete>>

Write(f) ==
  /\ state[f] # "closed"
  /\ Len(original'[f]) = Len(original[f]) + 1
  /\ IsFirstPart(original[f], original'[f])
  /\ original' = [original EXCEPT ![f] = original'[f]]
  /\ UNCHANGED <<state, copy, sealed, complete>>

Close(f) ==
  /\ state[f] = "open"
  /\ state' = [state EXCEPT ![f] = "closed"]
  /\ UNCHANGED <<original, copy, sealed, complete>>

Copy(f) ==
  /\ f \notin sealed
  /\ \E n \in Len(copy[f])..Len(original[f]) :
       copy' = [copy EXCEPT ![f] = SubSeq(original[f], 1, n)]
  /\ UNCHANGED <<state, original, sealed, complete>>

Seal(f) ==
  /\ state[f] = "closed"
  /\ f \notin sealed
  /\ copy[f] = original[f]
  /\ sealed' = sealed \cup {f}
  /\ UNCHANGED <<state, original, copy, complete>>

Complete ==
  /\ ~complete
  /\ \A f \in File : state[f] # "none" => f \in sealed
  /\ complete' = TRUE
  /\ UNCHANGED <<state, original, copy, sealed>>

TransferNext ==
  \/ \E f \in File : Begin(f) \/ Write(f) \/ Close(f) \/ Copy(f) \/ Seal(f)
  \/ Complete

TransferSpec == TransferInit /\ [][TransferNext]_transferVars
=============================================================================
