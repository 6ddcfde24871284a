------------------------------- MODULE MCDhcp -------------------------------
(***************************************************************************)
(* Two servers, for TLC.                                                   *)
(***************************************************************************)
EXTENDS Dhcp

Both == {"task", "loop"}
TwoServers == {"s1", "s2"}
=============================================================================
