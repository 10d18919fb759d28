------------------------------- MODULE MCCapture -------------------------------
(***************************************************************************)
(* Small instances of Capture.                                             *)
(***************************************************************************)
EXTENDS Capture, TLC

\* The clients are alike.
ClientSymmetry == Permutations(Client)

MCData == File \cup (File \X (1..MaxSize))
=============================================================================
