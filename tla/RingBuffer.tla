----------------------------- MODULE RingBuffer -----------------------------
(***************************************************************************)
(* lnRingBuffer (include/lnRingBuffer.h): a byte queue in a buffer of      *)
(* Size bytes, one of which stays unused so that head = tail means empty.  *)
(* put() and get() copy in two runs, because what is free, or filled, may  *)
(* wrap around the end of the buffer.                                      *)
(*                                                                         *)
(* The class is given as operators on a record, for the modules that own a *)
(* ring buffer; RingBufferUse lets one ring be used in every order.        *)
(***************************************************************************)
EXTENDS Integers, Sequences

CONSTANT Size    \* _size; _mask is Size - 1

\* The constructor asserts a power of two, so "& _mask" is "% Size".
ASSUME SizeAssumption ==
  Size \in Nat \ {0} /\ \E k \in 0 .. 31 : Size = 2 ^ k

Indices == 0 .. Size - 1
Lesser(a, b) == IF a <= b THEN a ELSE b       \* CMIN

Count(r) == (Size + r.head - r.tail) % Size
Free(r)  == Size - Count(r) - 1
Empty(r) == r.head = r.tail
Full(r)  == r.head = (r.tail + Size - 1) % Size

\* What getReadPointer and getWritePointer return: the length of the run
\* that starts at tail, and of the one that starts at head.
ReadRun(r) == IF r.head < r.tail THEN Size - r.tail ELSE r.head - r.tail
\* Mutation: the place that must stay unused is offered when tail is 0.
WriteRunAll(r) ==
  IF r.head < r.tail THEN r.tail - r.head - 1 ELSE Size - r.head
WriteRun(r) ==
  IF r.head < r.tail THEN r.tail - r.head - 1
  ELSE IF r.tail = 0 THEN Size - r.head - 1 ELSE Size - r.head

\* Mutation: no mask.
ConsumeUnmasked(r, n) ==
  [head |-> r.head, tail |-> r.tail + n, buf |-> r.buf]
Consume(r, n) ==
  [head |-> r.head, tail |-> (r.tail + n) % Size, buf |-> r.buf]

\* One run of put(): memcpy of n bytes, the first of them data[first]; add().
Store(r, n, data, first) ==
  [head |-> (r.head + n) % Size, tail |-> r.tail,
   buf  |-> [i \in Indices |-> IF i \in r.head .. r.head + n - 1
                               THEN data[first + i - r.head] ELSE r.buf[i]]]

\* put() of the first n bytes of data.
PutFirst(r, n)  == Lesser(WriteRun(r), n)
PutSecond(r, n, data) ==
  LET n1 == PutFirst(r, n) IN Lesser(WriteRun(Store(r, n1, data, 1)), n - n1)
PutDone(r, n, data) == PutFirst(r, n) + PutSecond(r, n, data)
\* Mutation: the second run copies from the start of data again.
PutRestarted(r, n, data) ==
  LET n1 == PutFirst(r, n)
  IN  Store(Store(r, n1, data, 1), PutSecond(r, n, data), data, 1)
Put(r, n, data) ==
  LET n1 == PutFirst(r, n)
  IN  Store(Store(r, n1, data, 1), PutSecond(r, n, data), data, n1 + 1)

\* get() of at most n bytes: what is copied out, and the ring afterwards.
Run(r, n) == [i \in 1 .. n |-> r.buf[r.tail + i - 1]]
Get(r, n) ==
  LET size == Lesser(n, Count(r))
      n1   == Lesser(ReadRun(r), size)
      r1   == Consume(r, n1)
      n2   == Lesser(ReadRun(r1), size - n1)
  IN  [ring |-> Consume(r1, n2), data |-> Run(r, n1) \o Run(r1, n2)]

\* The queue a ring stands for.
At(r, i) == r.buf[(r.tail + i) % Size]
Contents(r) == [i \in 1 .. Count(r) |-> At(r, i - 1)]

NewRing(byte) == [head |-> 0, tail |-> 0, buf |-> [i \in Indices |-> byte]]

IsRing(r) ==
  r.head \in Indices /\ r.tail \in Indices /\ DOMAIN r.buf = Indices
=============================================================================
