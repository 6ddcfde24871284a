----------------------------- MODULE MCSerialRx -----------------------------
(***************************************************************************)
(* A buffer of four bytes, for TLC.                                        *)
(***************************************************************************)
EXTENDS SerialRx
=============================================================================
