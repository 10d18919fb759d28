----------------------------- MODULE MCCaptureLoop -----------------------------
(***************************************************************************)
(* Small instances of CaptureLoop.                                         *)
(***************************************************************************)
EXTENDS CaptureLoop, TLC

\* The large files are alike, and so are the main shards.
FileAndShardSymmetry == Permutations(LargeFile) \cup Permutations(MainShard)

MCData == File \cup (File \X (1..MaxSize))
=============================================================================
