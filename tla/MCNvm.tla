------------------------------- MODULE MCNvm -------------------------------
(***************************************************************************)
(* Small instances of the flash store for TLC.                             *)
(***************************************************************************)
EXTENDS NvmInv

Ids1 == {1}
Ids2 == {1, 2}
NoFailures == {}
WriteFailures == {"format", "sector", "entry", "retire"}
=============================================================================
