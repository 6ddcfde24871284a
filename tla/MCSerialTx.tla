----------------------------- MODULE MCSerialTx -----------------------------
(***************************************************************************)
(* Two tasks on one transmitter, for TLC.                                  *)
(***************************************************************************)
EXTENDS SerialTx

CONSTANTS t1, t2
TwoTasks == {t1, t2}
OneTask == {t1}
Zeroed == {FALSE}
Reused == BOOLEAN
=============================================================================
