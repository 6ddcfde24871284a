------------------------------- MODULE MCLwip -------------------------------
(***************************************************************************)
(* Two clients and one loss of the link, for TLC.                          *)
(***************************************************************************)
EXTENDS LwipServer

Any == BOOLEAN
=============================================================================
