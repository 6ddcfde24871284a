----------------------------- MODULE ByteQueue ------------------------------
(***************************************************************************)
(* What lnRingBuffer promises: a bounded queue of bytes.                   *)
(***************************************************************************)
EXTENDS Naturals, Sequences

CONSTANTS
  Bytes,      \* what is queued
  MaxPut,     \* the most one operation puts or takes
  Capacity    \* the most the queue holds

VARIABLES
  queue,   \* oldest byte first
  last     \* the last Offer or Take: its bytes, and how many were accepted

vars == <<queue, last>>

Fitting(n) == IF n <= Capacity - Len(queue) THEN n ELSE Capacity - Len(queue)
Present(n) == IF n <= Len(queue) THEN n ELSE Len(queue)
Drop(n) == SubSeq(queue, n + 1, Len(queue))

Init == queue = <<>> /\ last = <<"none", <<>>>>

\* The longest prefix that fits is accepted.
Offer(data) == /\ queue' = queue \o SubSeq(data, 1, Fitting(Len(data)))
               /\ last' = <<"put", data, Fitting(Len(data))>>

Take(n) == /\ last' = <<"get", SubSeq(queue, 1, Present(n))>>
           /\ queue' = Drop(Present(n))

Skip(n) == n <= Len(queue) /\ queue' = Drop(n) /\ UNCHANGED last
Clear   == queue' = <<>> /\ UNCHANGED last

Next ==
  \/ \E n \in 0 .. MaxPut : \/ \E data \in [1 .. n -> Bytes] : Offer(data)
                            \/ Take(n) \/ Skip(n)
  \/ Clear

Spec == Init /\ [][Next]_vars
=============================================================================
