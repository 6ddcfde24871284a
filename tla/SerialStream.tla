---------------------------- MODULE SerialStream ----------------------------
(***************************************************************************)
(* What a buffered transmitter promises: bytes are accepted in bursts and  *)
(* sent one at a time, each once, in the order of acceptance.  Bytes are   *)
(* numbered by that order.                                                 *)
(***************************************************************************)
EXTENDS Naturals, Sequences

CONSTANT Room    \* the most that waits

VARIABLES
  accepted,   \* bytes accepted
  waiting,    \* accepted and not sent, oldest first
  wire        \* sent

vars == <<accepted, waiting, wire>>

Init == accepted = 0 /\ waiting = <<>> /\ wire = <<>>

Accept(n) ==
  /\ Len(waiting) + n <= Room
  /\ accepted' = accepted + n
  /\ waiting' = waiting \o [i \in 1 .. n |-> accepted + i]
  /\ UNCHANGED wire

Send ==
  /\ waiting # <<>>
  /\ wire' = Append(wire, Head(waiting))
  /\ waiting' = Tail(waiting)
  /\ UNCHANGED accepted

Next == Send \/ \E n \in 1 .. Room : Accept(n)

Spec == Init /\ [][Next]_vars
=============================================================================
