---------------------------- MODULE MCRingBuffer ----------------------------
(***************************************************************************)
(* A small ring buffer for TLC.                                            *)
(***************************************************************************)
EXTENDS RingBufferUse

TwoBytes == {1, 2}
=============================================================================
