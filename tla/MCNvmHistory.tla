---------------------------- MODULE MCNvmHistory ----------------------------
(***************************************************************************)
(* Two ids, and errors in the collector's copies, for TLC.                 *)
(***************************************************************************)
EXTENDS NvmHistory

Ids2 == {1, 2}
CollectFailures == {"gc"}
=============================================================================
