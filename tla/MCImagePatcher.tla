----------------------------- MODULE MCImagePatcher -----------------------------
(***************************************************************************)
(* Small instances of ImagePatcher: files of up to three entries on two    *)
(* ports, and up to two remaps among three.                                *)
(***************************************************************************)
EXTENDS ImagePatcher, SequencesExt

Dumped == [listens : BOOLEAN, src_port : {1, 2}]

MCImages ==
  {NoFile} \cup
  [header : {TRUE}, entries : BoundedSeq(Dumped, 3), cut : {FALSE}] \cup
  [header : BOOLEAN, entries : BoundedSeq(Dumped, 1), cut : BOOLEAN]

\* Swaps, chains and two remaps of a port are among them.
MCRequests == BoundedSeq(Remap, 2)
=============================================================================
