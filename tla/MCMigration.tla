------------------------------ MODULE MCMigration ------------------------------
(***************************************************************************)
(* Small instances of Migration: a small file, one or two large ones, each *)
(* of at most MaxSize units.                                               *)
(***************************************************************************)
EXTENDS Migration

MCData == File \cup (File \X (1..MaxSize))
=============================================================================
