---------------------------- MODULE MCPathTable ----------------------------
(* Small instances of PathTable for TLC. *)
EXTENDS PathTable
============================================================================
