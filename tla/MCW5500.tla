------------------------------- MODULE MCW5500 -------------------------------
(***************************************************************************)
(* Two clients, one after the other, for TLC.                              *)
(***************************************************************************)
EXTENDS W5500Server

Any == {[polite |-> TRUE, lags |-> FALSE], [polite |-> FALSE, lags |-> TRUE]}
=============================================================================
