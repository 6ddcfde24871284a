-------------------------- MODULE SerialTx_proofs ---------------------------
(***************************************************************************)
(* First, what the operators of lnRingBuffer compute, for every buffer     *)
(* size, and from it that a ring buffer used in any order is a bounded     *)
(* byte queue.                                                             *)
(*                                                                         *)
(* Then the buffered transmitter that owns such a ring: it never stalls    *)
(* and never loses a wake-up, for every buffer size, any number of tasks   *)
(* and calls of any length, once _txing starts out FALSE.                  *)
(***************************************************************************)
EXTENDS SerialTx, RingBufferUse, SequenceTheorems, TLAPS

\* "& _mask" on the sums and differences the class forms.
LEMMA Wrap ==
  \A i \in 0 .. 2 * Size - 1 : i % Size = IF i < Size THEN i ELSE i - Size
<1> SUFFICES ASSUME NEW i \in 0 .. 2 * Size - 1
             PROVE  i % Size = IF i < Size THEN i ELSE i - Size
  OBVIOUS
<1>1. Size \in Nat \ {0}
  BY SizeAssumption
<1>2. CASE i < Size
  BY <1>1, <1>2
<1>3. CASE i >= Size
  <2>1. i - Size \in 0 .. Size - 1
    BY <1>1, <1>3
  <2>2. (i - Size) % Size = i - Size
    BY <1>1, <2>1
  <2>3. i % Size = (i - Size) % Size
    BY <1>1, <1>3
  <2> QED BY <2>2, <2>3, <1>1, <1>3
<1> QED BY <1>1, <1>2, <1>3

\* count() is the distance from tail to head, and leaves one place unused.
LEMMA CountValue ==
  ASSUME NEW r, IsRing(r)
  PROVE  /\ Count(r) = IF r.head >= r.tail THEN r.head - r.tail
                       ELSE Size + r.head - r.tail
         /\ Count(r) \in 0 .. Size - 1
         /\ Free(r) \in 0 .. Size - 1
<1> DEFINE h == r.head
           t == r.tail
<1>1. Size \in Nat \ {0} /\ h \in 0 .. Size - 1 /\ t \in 0 .. Size - 1
  BY SizeAssumption DEF IsRing, Indices
<1>2. Size + h - t \in 0 .. 2 * Size - 1
  BY <1>1
<1>3. Count(r) = IF Size + h - t < Size THEN Size + h - t ELSE Size + h - t - Size
  BY <1>1, <1>2, Wrap DEF Count
<1> QED BY <1>1, <1>3 DEF Free

\* An index within the buffer plus at most a buffer's length stays an index.
LEMMA WrapIndex ==
  ASSUME NEW i \in Indices, NEW n \in 0 .. Size
  PROVE  /\ (i + n) % Size \in Indices
         /\ (i + n) % Size = IF i + n < Size THEN i + n ELSE i + n - Size
<1>1. Size \in Nat \ {0} /\ i \in 0 .. Size - 1
  BY SizeAssumption DEF Indices
<1>2. i + n \in 0 .. 2 * Size - 1
  BY <1>1
<1>3. (i + n) % Size = IF i + n < Size THEN i + n ELSE i + n - Size
  BY <1>1, <1>2, Wrap
<1> QED BY <1>1, <1>2, <1>3 DEF Indices

\* The run a reader is offered: within the buffer and within what is there,
\* and not empty unless the ring is.  Taking part of it frees that much.
LEMMA ReadRunValue ==
  ASSUME NEW r, IsRing(r)
  PROVE  /\ ReadRun(r) \in 0 .. Count(r)
         /\ r.tail + ReadRun(r) <= Size
         /\ Count(r) > 0 => ReadRun(r) > 0
         /\ Empty(r) <=> Count(r) = 0
         /\ \A n \in 0 .. ReadRun(r) :
              IsRing(Consume(r, n)) /\ Count(Consume(r, n)) = Count(r) - n
<1>1. Size \in Nat \ {0} /\ r.head \in 0 .. Size - 1 /\ r.tail \in 0 .. Size - 1
  BY SizeAssumption DEF IsRing, Indices
<1>2. Count(r) = IF r.head >= r.tail THEN r.head - r.tail ELSE Size + r.head - r.tail
  BY CountValue
<1>3. /\ ReadRun(r) \in 0 .. Count(r)
      /\ r.tail + ReadRun(r) <= Size
      /\ Count(r) > 0 => ReadRun(r) > 0
      /\ Empty(r) <=> Count(r) = 0
  BY <1>1, <1>2 DEF ReadRun, Empty
<1>4. ASSUME NEW n \in 0 .. ReadRun(r)
      PROVE  IsRing(Consume(r, n)) /\ Count(Consume(r, n)) = Count(r) - n
  <2> DEFINE c == Consume(r, n)
  <2>1. n \in 0 .. Size /\ r.tail \in Indices
    BY <1>1, <1>3, <1>4, CountValue DEF Indices
  <2>2. /\ c.head = r.head /\ c.buf = r.buf
        /\ c.tail = (r.tail + n) % Size
    BY DEF Consume
  <2>3. /\ c.tail \in Indices
        /\ c.tail = IF r.tail + n < Size THEN r.tail + n ELSE r.tail + n - Size
    BY <2>1, <2>2, WrapIndex
  <2>4. IsRing(c)
    BY <2>2, <2>3 DEF IsRing
  <2>5. Count(c) = IF c.head >= c.tail THEN c.head - c.tail ELSE Size + c.head - c.tail
    BY <2>4, CountValue
  <2>6. n \in Nat /\ n <= ReadRun(r)
    BY <1>1, <1>3, <1>4
  <2> HIDE DEF c
  <2>7. Count(c) = Count(r) - n
    BY <1>1, <1>2, <2>2, <2>3, <2>5, <2>6 DEF ReadRun
  <2> QED BY <2>4, <2>7 DEF c
<1> QED BY <1>3, <1>4

\* Taking bytes from the tail leaves the others as they are, and the run
\* that is copied out holds the oldest ones.
LEMMA ConsumeValue ==
  ASSUME NEW r, IsRing(r), NEW n \in 0 .. ReadRun(r)
  PROVE  /\ \A i \in 0 .. Count(r) - n - 1 : At(Consume(r, n), i) = At(r, n + i)
         /\ \A i \in 1 .. n : Run(r, n)[i] = At(r, i - 1)
<1> DEFINE t == r.tail
<1>1. /\ Size \in Nat \ {0} /\ t \in 0 .. Size - 1 /\ t \in Indices
      /\ Count(r) \in 0 .. Size - 1 /\ ReadRun(r) \in 0 .. Count(r)
      /\ t + ReadRun(r) <= Size
  BY SizeAssumption, CountValue, ReadRunValue DEF IsRing, Indices
<1>2. n \in Nat /\ n <= ReadRun(r) /\ n \in 0 .. Size
  BY <1>1
<1>3. /\ Consume(r, n).tail = (t + n) % Size /\ Consume(r, n).buf = r.buf
      /\ (t + n) % Size \in Indices
      /\ (t + n) % Size = IF t + n < Size THEN t + n ELSE t + n - Size
  BY <1>1, <1>2, WrapIndex DEF Consume
<1> HIDE DEF t
<1>4. ASSUME NEW i \in 0 .. Count(r) - n - 1
      PROVE  At(Consume(r, n), i) = At(r, n + i)
  <2>1. i \in 0 .. Size /\ i \in Nat /\ n + i \in 0 .. Size
    BY <1>1, <1>2, <1>4
  <2> DEFINE u == (t + n) % Size
  <2>2. u \in Indices
    BY <1>3
  <2>3. (u + i) % Size = IF u + i < Size THEN u + i ELSE u + i - Size
    BY <2>1, <2>2, WrapIndex
  <2>4. (t + (n + i)) % Size = IF t + (n + i) < Size THEN t + (n + i)
                               ELSE t + (n + i) - Size
    BY <1>1, <2>1, WrapIndex
  <2>5. u = IF t + n < Size THEN t + n ELSE t + n - Size
    BY <1>3
  <2> HIDE DEF u
  <2>6. (u + i) % Size = (t + (n + i)) % Size
    BY <1>1, <1>2, <1>4, <2>1, <2>3, <2>4, <2>5
  <2> QED BY <1>3, <2>6 DEF At, t, u
<1>5. ASSUME NEW i \in 1 .. n
      PROVE  Run(r, n)[i] = At(r, i - 1)
  <2>1. i - 1 \in 0 .. Size /\ t + (i - 1) < Size
    BY <1>1, <1>2, <1>5
  <2>2. (t + (i - 1)) % Size = t + (i - 1)
    BY <1>1, <2>1, WrapIndex
  <2>3. t + (i - 1) = t + i - 1
    BY <1>1, <1>2
  <2> QED BY <2>2, <2>3 DEF At, Run, t
<1> QED BY <1>4, <1>5

\* A ring that grows at its head offers a reader no shorter a run.
LEMMA ReadRunGrows ==
  ASSUME NEW r, IsRing(r), NEW p, IsRing(p), p.tail = r.tail, Count(r) <= Count(p)
  PROVE  ReadRun(r) <= ReadRun(p)
<1>1. /\ Size \in Nat \ {0}
      /\ r.head \in 0 .. Size - 1 /\ r.tail \in 0 .. Size - 1
      /\ p.head \in 0 .. Size - 1
  BY SizeAssumption DEF IsRing, Indices
<1>2. /\ Count(r) = IF r.head >= r.tail THEN r.head - r.tail ELSE Size + r.head - r.tail
      /\ Count(p) = IF p.head >= p.tail THEN p.head - p.tail ELSE Size + p.head - p.tail
  BY CountValue
<1> QED BY <1>1, <1>2 DEF ReadRun

\* The run a writer is offered: within the buffer and within what is free,
\* and not empty unless the ring is full.
LEMMA WriteRunValue ==
  ASSUME NEW r, IsRing(r)
  PROVE  /\ WriteRun(r) \in 0 .. Free(r)
         /\ r.head + WriteRun(r) <= Size
         /\ Free(r) > 0 => WriteRun(r) > 0
<1>1. Size \in Nat \ {0} /\ r.head \in 0 .. Size - 1 /\ r.tail \in 0 .. Size - 1
  BY SizeAssumption DEF IsRing, Indices
<1>2. Count(r) = IF r.head >= r.tail THEN r.head - r.tail ELSE Size + r.head - r.tail
  BY CountValue
<1> QED BY <1>1, <1>2 DEF WriteRun, Free

\* One run of put() appends its bytes and changes none that is queued.
LEMMA StoreValue ==
  ASSUME NEW r, IsRing(r), NEW n \in 0 .. WriteRun(r), NEW data, NEW first \in Nat
  PROVE  LET s == Store(r, n, data, first)
         IN  /\ IsRing(s)
             /\ s.tail = r.tail
             /\ s.head = (r.head + n) % Size
             /\ Count(s) = Count(r) + n
             /\ \A i \in 0 .. Count(r) - 1 : At(s, i) = At(r, i)
             /\ \A i \in 0 .. n - 1 : At(s, Count(r) + i) = data[first + i]
<1> DEFINE s == Store(r, n, data, first)
           h == r.head
           t == r.tail
           c == Count(r)
<1>1. Size \in Nat \ {0} /\ h \in 0 .. Size - 1 /\ t \in 0 .. Size - 1
  BY SizeAssumption DEF IsRing, Indices
<1>2. c = IF h >= t THEN h - t ELSE Size + h - t
  BY CountValue
<1>3. n \in Nat /\ n <= WriteRun(r) /\ h + n <= Size /\ n <= Size
  BY <1>1, WriteRunValue
<1>4. /\ s.tail = t /\ s.head = (h + n) % Size
      /\ s.buf = [i \in Indices |-> IF i \in h .. h + n - 1
                                    THEN data[first + i - h] ELSE r.buf[i]]
  BY DEF Store
<1>5. /\ s.head \in Indices
      /\ s.head = IF h + n < Size THEN h + n ELSE h + n - Size
  <2>1. h \in Indices /\ n \in 0 .. Size
    BY <1>1, <1>3 DEF Indices
  <2>2. /\ (h + n) % Size \in Indices
        /\ (h + n) % Size = IF h + n < Size THEN h + n ELSE h + n - Size
    BY <2>1, WrapIndex
  <2> QED BY <1>4, <2>2
<1>6. IsRing(s)
  BY <1>1, <1>4, <1>5 DEF IsRing, Indices
<1>7. Count(s) = IF s.head >= s.tail THEN s.head - s.tail ELSE Size + s.head - s.tail
  BY <1>6, CountValue
<1> HIDE DEF s, h, t, c
<1>8. Count(s) = c + n
  BY <1>1, <1>2, <1>3, <1>4, <1>5, <1>7 DEF WriteRun, h, t
<1>9. ASSUME NEW i \in 0 .. c - 1
      PROVE  At(s, i) = At(r, i)
  <2>1. i \in Nat /\ i < c /\ i \in 0 .. Size
    BY <1>1, <1>2, <1>9
  <2>2. /\ (t + i) % Size \in Indices
        /\ (t + i) % Size = IF t + i < Size THEN t + i ELSE t + i - Size
    <3>1. t \in Indices
      BY <1>1 DEF Indices
    <3> QED BY <2>1, <3>1, WrapIndex
  <2>3. (t + i) % Size \notin h .. h + n - 1
    BY <1>1, <1>2, <1>3, <2>1, <2>2 DEF WriteRun, h, t, Indices
  <2> QED BY <1>4, <2>2, <2>3 DEF At, t
<1>10. ASSUME NEW i \in 0 .. n - 1
       PROVE  At(s, c + i) = data[first + i]
  <2>1. i \in Nat /\ i < n /\ c + i \in 0 .. Size
    BY <1>1, <1>2, <1>3, <1>10 DEF WriteRun, h, t
  <2>2. /\ (t + (c + i)) % Size \in Indices
        /\ (t + (c + i)) % Size =
             IF t + (c + i) < Size THEN t + (c + i) ELSE t + (c + i) - Size
    <3>1. t \in Indices
      BY <1>1 DEF Indices
    <3> QED BY <2>1, <3>1, WrapIndex
  <2>3. (t + (c + i)) % Size = h + i
    BY <1>1, <1>2, <1>3, <2>1, <2>2
  <2>4. h + i \in h .. h + n - 1 /\ first + (h + i) - h = first + i
    BY <1>1, <2>1
  <2> QED BY <1>4, <2>2, <2>3, <2>4 DEF At
<1> QED BY <1>4, <1>6, <1>8, <1>9, <1>10 DEF s, h, t, c

(***************************************************************************)
(* put() accepts as many bytes as fit, wherever head and tail are: its two *)
(* runs never leave room unused.  It appends them in order and changes no  *)
(* byte that is queued.                                                    *)
(***************************************************************************)
THEOREM PutAppends ==
  ASSUME NEW r, IsRing(r), NEW n \in Nat, NEW data
  PROVE  LET p    == Put(r, n, data)
             done == PutDone(r, n, data)
         IN  /\ done = Lesser(n, Free(r))
             /\ IsRing(p)
             /\ p.tail = r.tail
             /\ Count(p) = Count(r) + done
             /\ \A i \in 0 .. Count(r) - 1 : At(p, i) = At(r, i)
             /\ \A i \in 0 .. done - 1 : At(p, Count(r) + i) = data[1 + i]
<1> DEFINE n1 == PutFirst(r, n)
           n2 == PutSecond(r, n, data)
           r1 == Store(r, n1, data, 1)
           p  == Put(r, n, data)
           c  == Count(r)
<1>1. Size \in Nat \ {0} /\ r.head \in 0 .. Size - 1 /\ r.tail \in 0 .. Size - 1
  BY SizeAssumption DEF IsRing, Indices
<1>2. c = IF r.head >= r.tail THEN r.head - r.tail ELSE Size + r.head - r.tail
  BY CountValue
<1>3. WriteRun(r) \in Nat /\ Free(r) = Size - c - 1 /\ Free(r) \in Nat
  BY <1>1, WriteRunValue, CountValue DEF Free
<1>4. n1 = Lesser(WriteRun(r), n) /\ n1 \in 0 .. WriteRun(r) /\ n1 <= n
  BY <1>3 DEF PutFirst, Lesser
<1>5. /\ IsRing(r1) /\ r1.tail = r.tail /\ r1.head = (r.head + n1) % Size
      /\ Count(r1) = c + n1
      /\ \A i \in 0 .. c - 1 : At(r1, i) = At(r, i)
      /\ \A i \in 0 .. n1 - 1 : At(r1, c + i) = data[1 + i]
  BY <1>4, StoreValue
<1>6. n2 = Lesser(WriteRun(r1), n - n1)
  BY DEF PutSecond
<1>7. p = Store(r1, n2, data, n1 + 1)
  BY DEF Put
<1>8. WriteRun(r1) \in Nat /\ n1 \in Nat /\ c \in Nat
  BY <1>1, <1>3, <1>4, <1>5, WriteRunValue, CountValue DEF Free
<1>9. n2 \in 0 .. WriteRun(r1) /\ n2 <= n - n1 /\ n2 \in Nat
  BY <1>4, <1>6, <1>8 DEF Lesser
<1>10. PutDone(r, n, data) = n1 + n2
  BY DEF PutDone
<1> HIDE DEF n1, n2, r1, p, c
<1>11. /\ IsRing(p) /\ p.tail = r1.tail
       /\ Count(p) = c + n1 + n2
       /\ \A i \in 0 .. c + n1 - 1 : At(p, i) = At(r1, i)
       /\ \A i \in 0 .. n2 - 1 : At(p, c + n1 + i) = data[n1 + 1 + i]
  <2>1. n1 + 1 \in Nat
    BY <1>8
  <2>2. /\ IsRing(p) /\ p.tail = r1.tail
        /\ Count(p) = Count(r1) + n2
        /\ \A i \in 0 .. Count(r1) - 1 : At(p, i) = At(r1, i)
        /\ \A i \in 0 .. n2 - 1 : At(p, Count(r1) + i) = data[n1 + 1 + i]
    BY <1>5, <1>7, <1>9, <2>1, StoreValue
  <2>3. /\ \A i \in 0 .. c + n1 - 1 : At(p, i) = At(r1, i)
        /\ \A i \in 0 .. n2 - 1 : At(p, c + n1 + i) = data[n1 + 1 + i]
    BY <1>5, <1>8, <1>9, <2>2
  <2> QED BY <1>5, <1>8, <1>9, <2>2, <2>3
\* The first run ends at the end of the buffer or uses all there is.
<1>12. r1.head = IF r.head + n1 < Size THEN r.head + n1 ELSE r.head + n1 - Size
  <2>1. r.head \in Indices /\ n1 \in 0 .. Size
    BY <1>1, <1>4, <1>8, WriteRunValue DEF Indices
  <2> QED BY <1>5, <2>1, WrapIndex
<1>13. n1 + n2 = Lesser(n, Free(r))
  <2>1. CASE r.head < r.tail
    <3>1. WriteRun(r) = Free(r)
      BY <1>1, <1>2, <1>3, <2>1 DEF WriteRun
    <3>2. n1 < n => WriteRun(r1) = 0
      BY <1>1, <1>2, <1>3, <1>4, <1>5, <1>12, <2>1, <3>1 DEF Lesser, WriteRun
    <3> QED BY <1>3, <1>4, <1>6, <1>8, <1>9, <3>1, <3>2 DEF Lesser
  <2>2. CASE r.head >= r.tail /\ r.tail = 0
    <3>1. WriteRun(r) = Free(r)
      BY <1>1, <1>2, <1>3, <2>2 DEF WriteRun
    <3>2. n1 < n => WriteRun(r1) = 0
      BY <1>1, <1>2, <1>3, <1>4, <1>5, <1>12, <2>2, <3>1 DEF Lesser, WriteRun
    <3> QED BY <1>3, <1>4, <1>6, <1>8, <1>9, <3>1, <3>2 DEF Lesser
  <2>3. CASE r.head >= r.tail /\ r.tail > 0
    <3>1. WriteRun(r) = Size - r.head /\ Free(r) = Size - r.head + r.tail - 1
      BY <1>1, <1>2, <1>3, <2>3 DEF WriteRun
    <3>2. n1 < n => WriteRun(r1) = r.tail - 1
      BY <1>1, <1>3, <1>4, <1>5, <1>12, <2>3, <3>1 DEF Lesser, WriteRun
    <3>3. CASE n1 = n
      <4>1. n2 = 0 /\ n1 + n2 = n
        BY <1>9, <3>3
      <4>2. n <= WriteRun(r)
        BY <1>3, <1>4, <3>3
      <4>3. n <= Free(r)
        BY <1>1, <2>3, <3>1, <4>2
      <4> QED BY <4>1, <4>3 DEF Lesser
    <3>4. CASE n1 < n
      <4>1. n1 = Size - r.head /\ n2 = Lesser(r.tail - 1, n - n1)
        BY <1>1, <1>4, <1>6, <3>1, <3>2, <3>4 DEF Lesser
      <4> QED BY <1>1, <2>3, <3>1, <4>1 DEF Lesser
    <3> QED BY <1>4, <1>8, <3>3, <3>4
  <2> QED BY <1>1, <2>1, <2>2, <2>3
<1>14. \A i \in 0 .. c - 1 : At(p, i) = At(r, i)
  BY <1>5, <1>8, <1>11
<1>15. ASSUME NEW i \in 0 .. n1 + n2 - 1
       PROVE  At(p, c + i) = data[1 + i]
  <2>1. CASE i < n1
    <3>1. i \in 0 .. n1 - 1 /\ c + i \in 0 .. c + n1 - 1
      BY <1>8, <1>9, <1>15, <2>1
    <3> QED BY <1>5, <1>11, <3>1
  <2>2. CASE i >= n1
    <3>1. i - n1 \in 0 .. n2 - 1
      BY <1>8, <1>9, <1>15, <2>2
    <3>2. c + n1 + (i - n1) = c + i /\ n1 + 1 + (i - n1) = 1 + i
      BY <1>8, <1>15, <2>2
    <3>3. At(p, c + n1 + (i - n1)) = data[n1 + 1 + (i - n1)]
      BY <1>11, <3>1
    <3> QED BY <3>2, <3>3
  <2> QED BY <1>8, <1>9, <1>15, <2>1, <2>2
<1> QED
  <2>1. Count(p) = c + (n1 + n2) /\ p.tail = r.tail
    BY <1>5, <1>8, <1>9, <1>11
  <2>2. \A i \in 0 .. PutDone(r, n, data) - 1 : At(p, c + i) = data[1 + i]
    BY <1>8, <1>9, <1>10, <1>15
  <2>3. /\ PutDone(r, n, data) = Lesser(n, Free(r))
        /\ Count(p) = c + PutDone(r, n, data)
    BY <1>10, <1>13, <2>1
  <2> QED
    BY <1>11, <1>14, <2>1, <2>2, <2>3 DEF p, c

\* The queue a ring stands for is a sequence of what its buffer holds.
LEMMA ContentsValue ==
  ASSUME NEW r, IsRing(r), NEW B, \A i \in Indices : r.buf[i] \in B
  PROVE  /\ \A i \in 0 .. Count(r) - 1 : At(r, i) \in B
         /\ Contents(r) \in Seq(B) /\ Len(Contents(r)) = Count(r)
         /\ \A i \in 1 .. Count(r) : Contents(r)[i] = At(r, i - 1)
<1>1. /\ Size \in Nat \ {0} /\ r.tail \in Indices
      /\ Count(r) \in 0 .. Size - 1 /\ Count(r) \in Nat
  BY SizeAssumption, CountValue DEF IsRing
<1>2. \A i \in 0 .. Count(r) - 1 : At(r, i) \in B
  <2> SUFFICES ASSUME NEW i \in 0 .. Count(r) - 1 PROVE At(r, i) \in B
    OBVIOUS
  <2>1. i \in 0 .. Size
    BY <1>1
  <2> QED BY <1>1, <2>1, WrapIndex DEF At
<1>3. \A i \in 1 .. Count(r) : At(r, i - 1) \in B
  BY <1>1, <1>2
<1> QED BY <1>1, <1>2, <1>3 DEF Contents

(***************************************************************************)
(* get() takes the oldest bytes, as many as asked for or as there are,     *)
(* wherever head and tail are, and leaves the others queued.               *)
(***************************************************************************)
THEOREM GetTakes ==
  ASSUME NEW r, IsRing(r), NEW n \in Nat,
         NEW B, \A i \in Indices : r.buf[i] \in B
  PROVE  LET g    == Get(r, n)
             size == Lesser(n, Count(r))
         IN  /\ IsRing(g.ring) /\ g.ring.buf = r.buf
             /\ Count(g.ring) = Count(r) - size
             /\ \A i \in 0 .. Count(r) - size - 1 : At(g.ring, i) = At(r, size + i)
             /\ g.data \in Seq(B) /\ Len(g.data) = size
             /\ \A i \in 1 .. size : g.data[i] = At(r, i - 1)
<1> DEFINE c    == Count(r)
           size == Lesser(n, c)
           n1   == Lesser(ReadRun(r), size)
           r1   == Consume(r, n1)
           n2   == Lesser(ReadRun(r1), size - n1)
           g    == Get(r, n)
<1>1. Size \in Nat \ {0} /\ r.head \in 0 .. Size - 1 /\ r.tail \in 0 .. Size - 1
  BY SizeAssumption DEF IsRing, Indices
<1>2. c = IF r.head >= r.tail THEN r.head - r.tail ELSE Size + r.head - r.tail
  BY CountValue
<1>3. g.ring = Consume(r1, n2) /\ g.data = Run(r, n1) \o Run(r1, n2)
  BY DEF Get
<1>4. c \in Nat /\ size \in Nat /\ size <= c /\ ReadRun(r) \in 0 .. c
  BY <1>1, <1>2, ReadRunValue DEF Lesser
<1>5. n1 \in 0 .. ReadRun(r) /\ n1 \in Nat /\ n1 <= size
  BY <1>4 DEF Lesser
<1>6. /\ IsRing(r1) /\ Count(r1) = c - n1 /\ r1.buf = r.buf /\ r1.head = r.head
      /\ \A i \in 0 .. c - n1 - 1 : At(r1, i) = At(r, n1 + i)
      /\ \A i \in 1 .. n1 : Run(r, n1)[i] = At(r, i - 1)
  BY <1>5, ReadRunValue, ConsumeValue DEF Consume
<1>7. ReadRun(r1) \in 0 .. c - n1
  BY <1>6, ReadRunValue
<1>8. n2 \in 0 .. ReadRun(r1) /\ n2 \in Nat /\ n2 <= size - n1
  BY <1>4, <1>5, <1>7 DEF Lesser
\* When the first run is not enough, the second starts at the beginning of
\* the buffer and is all that is left.
<1>9. n1 + n2 = size
  <2>1. CASE n1 = size
    BY <1>4, <1>8, <2>1
  <2>2. CASE n1 # size
    <3>1. n1 = ReadRun(r) /\ n1 < c
      BY <1>4, <1>5, <2>2 DEF Lesser
    <3>2. r.head < r.tail /\ n1 = Size - r.tail
      BY <1>1, <1>2, <3>1 DEF ReadRun
    <3>3. r1.tail = 0
      <4>1. r1.tail = (r.tail + n1) % Size
        BY DEF Consume
      <4>2. r.tail \in Indices /\ n1 \in 0 .. Size /\ r.tail + n1 = Size
        BY <1>1, <3>2 DEF Indices
      <4>3. (r.tail + n1) % Size = r.tail + n1 - Size
        BY <1>1, <4>2, WrapIndex
      <4> QED BY <1>1, <4>1, <4>2, <4>3
    <3>4. ReadRun(r1) = c - n1
      BY <1>1, <1>2, <1>6, <3>2, <3>3 DEF ReadRun
    <3> HIDE DEF n1, r1, c, size
    <3> QED BY <1>4, <1>5, <3>4 DEF Lesser
  <2> QED BY <2>1, <2>2
<1>10. /\ IsRing(g.ring) /\ Count(g.ring) = c - n1 - n2 /\ g.ring.buf = r.buf
       /\ \A i \in 0 .. c - n1 - n2 - 1 : At(g.ring, i) = At(r1, n2 + i)
       /\ \A i \in 1 .. n2 : Run(r1, n2)[i] = At(r1, i - 1)
  <2>1. /\ IsRing(Consume(r1, n2)) /\ Count(Consume(r1, n2)) = Count(r1) - n2
        /\ \A i \in 0 .. Count(r1) - n2 - 1 : At(Consume(r1, n2), i) = At(r1, n2 + i)
        /\ \A i \in 1 .. n2 : Run(r1, n2)[i] = At(r1, i - 1)
    BY <1>6, <1>8, ReadRunValue, ConsumeValue
  <2>2. Consume(r1, n2).buf = r1.buf
    BY DEF Consume
  <2> HIDE DEF r1, n2
  <2> QED BY <1>3, <1>6, <2>1, <2>2
<1>11. \A i \in 0 .. c - 1 : At(r, i) \in B
  BY ContentsValue
<1>12. /\ Run(r, n1) \in Seq(B) /\ Len(Run(r, n1)) = n1
       /\ Run(r1, n2) \in Seq(B) /\ Len(Run(r1, n2)) = n2
  <2>1. \A i \in 1 .. n1 : Run(r, n1)[i] \in B
    BY <1>4, <1>5, <1>6, <1>11
  <2>2. \A i \in 1 .. n2 : Run(r1, n2)[i] \in B
    <3> SUFFICES ASSUME NEW i \in 1 .. n2 PROVE Run(r1, n2)[i] \in B
      OBVIOUS
    <3>1. i - 1 \in 0 .. c - n1 - 1 /\ n1 + (i - 1) \in 0 .. c - 1
      BY <1>4, <1>5, <1>7, <1>8
    <3>2. Run(r1, n2)[i] = At(r, n1 + (i - 1))
      BY <1>6, <1>10, <3>1
    <3> QED BY <1>11, <3>1, <3>2
  <2>3. /\ Run(r, n1) = [i \in 1 .. n1 |-> Run(r, n1)[i]]
        /\ Run(r1, n2) = [i \in 1 .. n2 |-> Run(r1, n2)[i]]
    BY DEF Run
  <2> HIDE DEF n1, n2, r1
  <2> QED BY <1>5, <1>8, <2>1, <2>2, <2>3
<1> HIDE DEF n1, n2, r1, g, size, c
<1>13. /\ g.data \in Seq(B) /\ Len(g.data) = size
       /\ \A i \in 1 .. size : g.data[i] = IF i <= n1 THEN Run(r, n1)[i]
                                                   ELSE Run(r1, n2)[i - n1]
  <2> DEFINE a == Run(r, n1)
             b == Run(r1, n2)
  <2>1. a \in Seq(B) /\ b \in Seq(B) /\ Len(a) + Len(b) = size /\ Len(a) = n1
    BY <1>9, <1>12
  <2>2. g.data = a \o b
    BY <1>3
  <2> HIDE DEF a, b
  <2>3. /\ a \o b \in Seq(B) /\ Len(a \o b) = Len(a) + Len(b)
        /\ \A i \in 1 .. Len(a) + Len(b) :
             (a \o b)[i] = IF i <= Len(a) THEN a[i] ELSE b[i - Len(a)]
    BY <2>1, ConcatProperties
  <2> QED BY <2>1, <2>2, <2>3 DEF a, b
<1>14. ASSUME NEW i \in 1 .. size
       PROVE  g.data[i] = At(r, i - 1)
  <2>1. CASE i <= n1
    BY <1>5, <1>6, <1>13, <1>14, <2>1
  <2>2. CASE i > n1
    <3>1. i - n1 \in 1 .. n2 /\ (i - n1) - 1 \in 0 .. c - n1 - 1
          /\ n1 + ((i - n1) - 1) = i - 1
      BY <1>4, <1>5, <1>8, <1>9, <1>14, <2>2
    <3>2. g.data[i] = At(r1, (i - n1) - 1)
      BY <1>5, <1>10, <1>13, <1>14, <2>2, <3>1
    <3> QED BY <1>6, <3>1, <3>2
  <2> QED BY <1>5, <1>14, <2>1, <2>2
<1>15. ASSUME NEW i \in 0 .. c - size - 1
       PROVE  At(g.ring, i) = At(r, size + i)
  <2>1. /\ i \in 0 .. c - n1 - n2 - 1 /\ n2 + i \in 0 .. c - n1 - 1
        /\ n1 + (n2 + i) = size + i
    BY <1>4, <1>5, <1>8, <1>9, <1>15
  <2>2. At(g.ring, i) = At(r1, n2 + i)
    BY <1>10, <2>1
  <2> QED BY <1>6, <2>1, <2>2
<1>16. Count(g.ring) = c - size
  BY <1>4, <1>5, <1>8, <1>9, <1>10
<1> QED BY <1>10, <1>13, <1>14, <1>15, <1>16 DEF g, size, c
-----------------------------------------------------------------------------
\* One run of put() stores bytes of its data.
LEMMA StoreHolds ==
  ASSUME NEW r, NEW B, \A i \in Indices : r.buf[i] \in B, r.head \in Indices,
         NEW k \in Nat, NEW first \in Nat, NEW data,
         \A i \in first .. first + k - 1 : data[i] \in B
  PROVE  \A i \in Indices : Store(r, k, data, first).buf[i] \in B
<1> SUFFICES ASSUME NEW i \in Indices PROVE Store(r, k, data, first).buf[i] \in B
  OBVIOUS
<1>1. Size \in Nat /\ r.head \in Nat /\ i \in Nat
  BY SizeAssumption DEF Indices
<1>2. i \in r.head .. r.head + k - 1 => first + i - r.head \in first .. first + k - 1
  BY <1>1
<1> QED BY <1>1, <1>2 DEF Store

\* put() stores bytes of its data, in both runs.
LEMMA PutHolds ==
  ASSUME NEW r, IsRing(r), NEW B, \A i \in Indices : r.buf[i] \in B,
         NEW n \in Nat, NEW data, \A i \in 1 .. n : data[i] \in B
  PROVE  \A i \in Indices : Put(r, n, data).buf[i] \in B
<1> DEFINE n1 == PutFirst(r, n)
           n2 == PutSecond(r, n, data)
           r1 == Store(r, n1, data, 1)
<1>1. WriteRun(r) \in Nat /\ n1 \in 0 .. WriteRun(r) /\ n1 \in Nat /\ n1 <= n
  <2>1. Free(r) \in Nat
    BY SizeAssumption, CountValue
  <2>2. WriteRun(r) \in Nat
    BY <2>1, WriteRunValue
  <2> QED BY <2>2 DEF PutFirst, Lesser
<1>2. IsRing(r1)
  BY <1>1, StoreValue
<1>3. WriteRun(r1) \in Nat
  <2>1. Free(r1) \in Nat
    BY <1>2, SizeAssumption, CountValue
  <2> QED BY <1>2, <2>1, WriteRunValue
<1>4. n2 \in Nat /\ n1 + n2 <= n
  BY <1>1, <1>3 DEF PutSecond, Lesser
<1>5. Put(r, n, data) = Store(r1, n2, data, n1 + 1)
  BY DEF Put
<1>6. r.head \in Indices /\ r1.head \in Indices
  BY <1>2 DEF IsRing
<1> HIDE DEF n1, n2, r1
<1>7. \A i \in Indices : r1.buf[i] \in B
  <2>1. \A i \in 1 .. 1 + n1 - 1 : data[i] \in B
    BY <1>1
  <2>2. \A i \in Indices : Store(r, n1, data, 1).buf[i] \in B
    BY <1>1, <1>6, <2>1, StoreHolds
  <2> QED BY <2>2 DEF r1
<1>8. n1 + 1 \in Nat /\ \A i \in n1 + 1 .. n1 + 1 + n2 - 1 : data[i] \in B
  BY <1>1, <1>4
<1> QED BY <1>4, <1>5, <1>6, <1>7, <1>8, StoreHolds

LEMMA Typed ==
  RingTypeOK => IsRing(object) /\ (\A i \in Indices : object.buf[i] \in Bytes)
BY DEF RingTypeOK, IsRing

LEMMA InitType == RingInit => RingTypeOK
<1> SUFFICES ASSUME RingInit PROVE RingTypeOK
  OBVIOUS
<1>1. PICK b \in Bytes : object = NewRing(b)
  BY DEF RingInit
<1>2. 0 \in Indices
  BY SizeAssumption DEF Indices
<1> QED BY <1>1, <1>2 DEF RingInit, NewRing, RingTypeOK

\* A put() of the model: its data is a sequence of bytes.
LEMMA PutDataLen ==
  ASSUME NEW data \in Data
  PROVE  /\ data \in Seq(Bytes) /\ Len(data) \in Nat
         /\ Len(data) \in 0 .. MaxPut /\ data \in [1 .. Len(data) -> Bytes]
<1>1. PICK n \in 0 .. MaxPut : data \in [1 .. n -> Bytes]
  BY DEF Data
<1>2. n \in Nat
  BY <1>1
<1>3. data \in Seq(Bytes) /\ Len(data) = n
  BY <1>1, <1>2
<1> QED BY <1>1, <1>2, <1>3

LEMMA StepKeepsType ==
  ASSUME RingTypeOK, [RingNext]_ringVars
  PROVE  RingTypeOK'
<1> DEFINE Rings == [head : Indices, tail : Indices, buf : [Indices -> Bytes]]
<1>1. object \in Rings /\ IsRing(object) /\ (\A i \in Indices : object.buf[i] \in Bytes)
  BY Typed DEF RingTypeOK
<1>2. ASSUME NEW data \in Data, PutData(data) PROVE RingTypeOK'
  <2>1. /\ data \in Seq(Bytes) /\ Len(data) \in Nat
        /\ \A i \in 1 .. Len(data) : data[i] \in Bytes
    BY PutDataLen
  <2>2. object' = Put(object, Len(data), data) /\ last'[2] = data
    BY <1>2 DEF PutData
  <2>3. IsRing(object') /\ (\A i \in Indices : object'.buf[i] \in Bytes)
    BY <1>1, <2>1, <2>2, PutAppends, PutHolds
  <2>4. /\ object' = [head |-> object'.head, tail |-> object'.tail, buf |-> object'.buf]
        /\ object'.buf = [i \in Indices |-> object'.buf[i]]
    BY <2>2 DEF Put, Store
  <2> QED BY <2>1, <2>2, <2>3, <2>4 DEF IsRing, RingTypeOK
<1>3. ASSUME NEW n \in 0 .. MaxPut, GetData(n) PROVE RingTypeOK'
  <2>1. object' = Get(object, n).ring /\ last'[2] = Get(object, n).data
    BY <1>3 DEF GetData
  <2>2. n \in Nat
    BY <1>3
  <2>3. /\ IsRing(object') /\ object'.buf = object.buf /\ last'[2] \in Seq(Bytes)
    BY <1>1, <2>1, <2>2, GetTakes
  <2>4. object' = [head |-> object'.head, tail |-> object'.tail, buf |-> object'.buf]
    BY <2>1 DEF Get, Consume
  <2> QED BY <1>1, <2>3, <2>4 DEF IsRing, RingTypeOK
<1>4. ASSUME NEW n \in 0 .. MaxPut, ConsumeRun(n) PROVE RingTypeOK'
  <2>1. n \in 0 .. ReadRun(object) /\ object' = Consume(object, n) /\ last' = last
    BY <1>1, <1>4, ReadRunValue, CountValue, SizeAssumption DEF ConsumeRun
  <2>2. IsRing(object') /\ object'.buf = object.buf
    BY <1>1, <2>1, ReadRunValue DEF Consume
  <2>3. object' = [head |-> object'.head, tail |-> object'.tail, buf |-> object'.buf]
    BY <2>1 DEF Consume
  <2> QED BY <1>1, <2>1, <2>2, <2>3 DEF IsRing, RingTypeOK
<1>5. CASE Flush
  <2>1. 0 \in Indices
    BY SizeAssumption DEF Indices
  <2> QED BY <1>1, <1>5, <2>1 DEF Flush, RingTypeOK
<1>6. CASE UNCHANGED ringVars
  BY <1>6 DEF ringVars, RingTypeOK
<1> QED BY <1>2, <1>3, <1>4, <1>5, <1>6 DEF RingNext

(***************************************************************************)
(* Head and tail stay within the buffer, and every place of it holds a     *)
(* byte that was put.                                                      *)
(***************************************************************************)
THEOREM RingTypeCorrect == RingSpec => []RingTypeOK
<1>1. RingTypeOK /\ [RingNext]_ringVars => RingTypeOK'
  BY StepKeepsType
<1> QED BY <1>1, InitType, PTL DEF RingSpec

(***************************************************************************)
(* The runs getReadPointer() and getWritePointer() offer are usable        *)
(* whatever was called before.                                             *)
(***************************************************************************)
THEOREM RunsAlwaysFit == RingSpec => []RunsFit
<1>1. ASSUME RingTypeOK PROVE RunsFit
  <2>1. IsRing(object)
    BY <1>1, Typed
  <2>2. /\ Size \in Nat \ {0}
        /\ object.head \in 0 .. Size - 1 /\ object.tail \in 0 .. Size - 1
    BY <2>1, SizeAssumption DEF IsRing, Indices
  <2>3. Count(object) = IF object.head >= object.tail THEN object.head - object.tail
                      ELSE Size + object.head - object.tail
    BY <2>1, CountValue
  <2>4. /\ ReadRun(object) \in 0 .. Count(object) /\ WriteRun(object) \in 0 .. Free(object)
        /\ object.tail + ReadRun(object) <= Size /\ object.head + WriteRun(object) <= Size
    BY <2>1, ReadRunValue, WriteRunValue
  <2>5. /\ (ReadRun(object) = 0) = Empty(object)
        /\ Empty(object) = (Count(object) = 0)
    BY <2>2, <2>3 DEF ReadRun, Empty
  <2>6. (object.tail + Size - 1) % Size = IF object.tail = 0 THEN Size - 1 ELSE object.tail - 1
    <3>1. object.tail + Size - 1 \in 0 .. 2 * Size - 1
      BY <2>2
    <3> QED BY <2>2, <3>1, Wrap
  <2>7. /\ (WriteRun(object) = 0) = Full(object)
        /\ Full(object) = (Free(object) = 0)
    BY <2>2, <2>3, <2>6 DEF WriteRun, Full, Free
  <2>8. Count(object) \in Nat /\ Free(object) \in Nat
    BY <2>1, <2>2, CountValue
  <2> QED BY <2>4, <2>5, <2>7, <2>8 DEF RunsFit
<1> QED BY <1>1, RingTypeCorrect, PTL
-----------------------------------------------------------------------------
LEMMA ContentsOfRing ==
  ASSUME NEW r, r \in [head : Indices, tail : Indices, buf : [Indices -> Bytes]]
  PROVE  /\ IsRing(r) /\ Count(r) \in Nat
         /\ Free(r) = (Size - 1) - Count(r) /\ Free(r) \in Nat
         /\ Contents(r) \in Seq(Bytes) /\ Len(Contents(r)) = Count(r)
         /\ \A i \in 1 .. Count(r) : Contents(r)[i] = At(r, i - 1)
<1>1. IsRing(r) /\ \A i \in Indices : r.buf[i] \in Bytes
  BY DEF IsRing
<1>2. Size \in Nat /\ Count(r) \in Nat /\ Free(r) = (Size - 1) - Count(r) /\ Free(r) \in Nat
  BY <1>1, SizeAssumption, CountValue DEF Free
<1> QED BY <1>1, <1>2, ContentsValue

\* The bytes that stay after n were taken.
LEMMA ContentsDrop ==
  ASSUME NEW r, r \in [head : Indices, tail : Indices, buf : [Indices -> Bytes]],
         NEW q, q \in [head : Indices, tail : Indices, buf : [Indices -> Bytes]],
         NEW n \in 0 .. Count(r), Count(q) = Count(r) - n,
         \A i \in 0 .. Count(r) - n - 1 : At(q, i) = At(r, n + i)
  PROVE  Contents(q) = SubSeq(Contents(r), n + 1, Len(Contents(r)))
<1> DEFINE old == Contents(r)
           new == Contents(q)
<1>1. /\ old \in Seq(Bytes) /\ Len(old) = Count(r) /\ Count(r) \in Nat /\ n \in Nat
      /\ new \in Seq(Bytes) /\ Len(new) = Count(r) - n
      /\ \A i \in 1 .. Count(r) : old[i] = At(r, i - 1)
      /\ \A i \in 1 .. Count(r) - n : new[i] = At(q, i - 1)
  BY ContentsOfRing
<1> HIDE DEF old, new
<1> DEFINE rest == SubSeq(old, n + 1, Len(old))
<1>2. /\ rest \in Seq(Bytes) /\ Len(rest) = Count(r) - n
      /\ \A i \in 1 .. Count(r) - n : rest[i] = old[n + i]
  <2>1. \A i \in n + 1 .. Len(old) : old[i] \in Bytes
    BY <1>1, ElementOfSeq
  <2>2. n + 1 \in Int /\ Len(old) \in Int
    BY <1>1
  <2>3. /\ rest \in Seq(Bytes)
        /\ Len(rest) = IF n + 1 <= Len(old) THEN Len(old) - (n + 1) + 1 ELSE 0
        /\ \A i \in 1 .. Len(old) - (n + 1) + 1 : rest[i] = old[n + 1 + i - 1]
    BY <2>1, <2>2, SubSeqProperties
  <2>4. Len(rest) = Count(r) - n
    BY <1>1, <2>3
  <2>5. \A i \in 1 .. Count(r) - n :
          i \in 1 .. Len(old) - (n + 1) + 1 /\ n + 1 + i - 1 = n + i
    BY <1>1
  <2> HIDE DEF rest
  <2> QED BY <2>3, <2>4, <2>5
<1> HIDE DEF rest
<1>3. ASSUME NEW i \in 1 .. Count(r) - n PROVE new[i] = rest[i]
  <2>1. /\ i - 1 \in 0 .. Count(r) - n - 1 /\ n + i \in 1 .. Count(r)
        /\ n + (i - 1) = n + i - 1
    BY <1>1, <1>3
  <2> QED BY <1>1, <1>2, <2>1
<1>4. new = rest
  BY <1>1, <1>2, <1>3, SeqEqual
<1> QED BY <1>4 DEF new, rest, old

LEMMA PutOffers ==
  ASSUME RingTypeOK, RingTypeOK', NEW data \in Data, PutData(data)
  PROVE  Queue!Offer(data)
<1> DEFINE n    == Len(data)
           done == Lesser(n, Free(object))
           old  == Contents(object)
           new  == Contents(object')
           part == SubSeq(data, 1, done)
<1>1. /\ data \in Seq(Bytes) /\ n \in Nat
      /\ \A i \in 1 .. n : data[i] \in Bytes
  BY PutDataLen
<1>2. /\ IsRing(object) /\ Count(object) \in Nat /\ Free(object) \in Nat
      /\ Free(object) = (Size - 1) - Count(object)
      /\ old \in Seq(Bytes) /\ Len(old) = Count(object)
      /\ \A i \in 1 .. Count(object) : old[i] = At(object, i - 1)
      /\ new \in Seq(Bytes) /\ Len(new) = Count(object')
      /\ \A i \in 1 .. Count(object') : new[i] = At(object', i - 1)
  BY ContentsOfRing DEF RingTypeOK
<1>3. /\ object' = Put(object, n, data) /\ last' = <<"put", data, PutDone(object, n, data)>>
  BY DEF PutData
<1>4. /\ PutDone(object, n, data) = done /\ Count(object') = Count(object) + done
      /\ \A i \in 0 .. Count(object) - 1 : At(object', i) = At(object, i)
      /\ \A i \in 0 .. done - 1 : At(object', Count(object) + i) = data[1 + i]
  <2> HIDE DEF n
  <2> QED BY <1>1, <1>2, <1>3, PutAppends
<1>5. done \in Nat /\ done <= n
  BY <1>1, <1>2 DEF Lesser
<1>6. Queue!Fitting(n) = done
  BY <1>1, <1>2 DEF Queue!Fitting, Lesser
<1> HIDE DEF n, done, old, new
<1>7. /\ part \in Seq(Bytes) /\ Len(part) = done
      /\ \A i \in 1 .. done : part[i] = data[i]
  <2>1. \A i \in 1 .. done : data[i] \in Bytes
    BY <1>1, <1>5
  <2>2. /\ part \in Seq(Bytes)
        /\ Len(part) = IF 1 <= done THEN done - 1 + 1 ELSE 0
        /\ \A i \in 1 .. done - 1 + 1 : part[i] = data[1 + i - 1]
    BY <1>5, <2>1, SubSeqProperties
  <2> HIDE DEF part
  <2> QED BY <1>5, <2>2
<1> HIDE DEF part
<1>8. /\ old \o part \in Seq(Bytes)
      /\ Len(old \o part) = Count(object) + done
      /\ \A i \in 1 .. Count(object) + done :
           (old \o part)[i] = IF i <= Count(object) THEN old[i] ELSE part[i - Count(object)]
  <2>1. /\ old \o part \in Seq(Bytes)
        /\ Len(old \o part) = Len(old) + Len(part)
        /\ \A i \in 1 .. Len(old) + Len(part) :
             (old \o part)[i] = IF i <= Len(old) THEN old[i] ELSE part[i - Len(old)]
    BY <1>2, <1>7, ConcatProperties
  <2> QED BY <1>2, <1>7, <2>1
<1>9. ASSUME NEW i \in 1 .. Count(object) + done
      PROVE  new[i] = (old \o part)[i]
  <2>1. new[i] = At(object', i - 1)
    BY <1>2, <1>4, <1>9
  <2>2. CASE i <= Count(object)
    <3>1. i \in 1 .. Count(object) /\ i - 1 \in 0 .. Count(object) - 1
      BY <1>2, <1>9, <2>2
    <3> QED BY <1>2, <1>4, <1>8, <2>1, <2>2, <3>1
  <2>3. CASE i > Count(object)
    <3> DEFINE j == i - Count(object)
    <3>1. /\ j \in 1 .. done /\ j - 1 \in 0 .. done - 1
          /\ Count(object) + (j - 1) = i - 1 /\ 1 + (j - 1) = j
      BY <1>2, <1>5, <1>9, <2>3
    <3>2. (old \o part)[i] = part[j]
      BY <1>2, <1>8, <1>9, <2>3
    <3> HIDE DEF j
    <3>3. At(object', Count(object) + (j - 1)) = data[1 + (j - 1)]
      BY <1>4, <3>1
    <3> QED BY <1>7, <2>1, <3>1, <3>2, <3>3
  <2>4. i <= Count(object) \/ i > Count(object)
    BY <1>2, <1>5, <1>9
  <2> QED BY <2>2, <2>3, <2>4
<1>10. new = old \o part
  BY <1>2, <1>4, <1>8, <1>9, SeqEqual
<1> QED BY <1>3, <1>4, <1>6, <1>10 DEF Queue!Offer, n, old, new, part

LEMMA GetTakesOldest ==
  ASSUME RingTypeOK, RingTypeOK', NEW n \in 0 .. MaxPut, GetData(n)
  PROVE  Queue!Take(n)
<1> DEFINE size == Lesser(n, Count(object))
           old  == Contents(object)
           data == Get(object, n).data
           part == SubSeq(old, 1, size)
<1>1. /\ object' = Get(object, n).ring /\ last' = <<"get", data>> /\ n \in Nat
  BY DEF GetData
<1>2. /\ IsRing(object) /\ Count(object) \in Nat
      /\ old \in Seq(Bytes) /\ Len(old) = Count(object)
      /\ \A i \in 1 .. Count(object) : old[i] = At(object, i - 1)
  BY ContentsOfRing DEF RingTypeOK
<1>3. /\ Count(object') = Count(object) - size
      /\ \A i \in 0 .. Count(object) - size - 1 : At(object', i) = At(object, size + i)
      /\ data \in Seq(Bytes) /\ Len(data) = size
      /\ \A i \in 1 .. size : data[i] = At(object, i - 1)
  BY <1>1, <1>2, Typed, GetTakes
<1>4. size \in 0 .. Count(object) /\ size \in Nat
  BY <1>1, <1>2 DEF Lesser
<1>5. Queue!Present(n) = size
  BY <1>1, <1>2 DEF Queue!Present, Lesser
<1> HIDE DEF size, old, data
<1>6. /\ part \in Seq(Bytes) /\ Len(part) = size
      /\ \A i \in 1 .. size : part[i] = old[i]
  <2>1. \A i \in 1 .. size : old[i] \in Bytes
    BY <1>2, <1>4, ElementOfSeq
  <2>2. /\ part \in Seq(Bytes)
        /\ Len(part) = IF 1 <= size THEN size - 1 + 1 ELSE 0
        /\ \A i \in 1 .. size - 1 + 1 : part[i] = old[1 + i - 1]
    BY <1>4, <2>1, SubSeqProperties
  <2> HIDE DEF part
  <2> QED BY <1>4, <2>2
<1> HIDE DEF part
<1>7. \A i \in 1 .. size : data[i] = part[i]
  BY <1>2, <1>3, <1>4, <1>6
<1>8. data = part
  BY <1>3, <1>6, <1>7, SeqEqual
<1>9. Contents(object') = SubSeq(old, size + 1, Len(old))
  <2> SUFFICES Contents(object') = SubSeq(Contents(object), size + 1, Len(Contents(object)))
    BY DEF old
  <2> QED BY <1>3, <1>4, ContentsDrop DEF RingTypeOK
<1> QED BY <1>1, <1>5, <1>8, <1>9 DEF Queue!Take, Queue!Drop, old, part

LEMMA ConsumeSkips ==
  ASSUME RingTypeOK, RingTypeOK', NEW n \in 0 .. MaxPut, ConsumeRun(n)
  PROVE  Queue!Skip(n)
<1>1. /\ IsRing(object) /\ Count(object) \in Nat /\ Len(Contents(object)) = Count(object)
  BY ContentsOfRing DEF RingTypeOK
<1>2. /\ ReadRun(object) \in 0 .. Count(object) /\ n \in 0 .. ReadRun(object)
      /\ object' = Consume(object, n) /\ last' = last
  BY <1>1, ReadRunValue DEF ConsumeRun
<1>3. /\ Count(object') = Count(object) - n
      /\ \A i \in 0 .. Count(object) - n - 1 : At(object', i) = At(object, n + i)
  BY <1>1, <1>2, ReadRunValue, ConsumeValue
<1>4. n \in 0 .. Count(object) /\ n <= Len(Contents(object))
  BY <1>1, <1>2
<1>5. Contents(object') = SubSeq(Contents(object), n + 1, Len(Contents(object)))
  BY <1>3, <1>4, ContentsDrop DEF RingTypeOK
<1> QED BY <1>2, <1>4, <1>5 DEF Queue!Skip, Queue!Drop

LEMMA EmptyRing ==
  ASSUME RingTypeOK, object.head = object.tail
  PROVE  Contents(object) = <<>>
<1>1. IsRing(object) /\ Contents(object) \in Seq(Bytes) /\ Len(Contents(object)) = Count(object)
  BY ContentsOfRing DEF RingTypeOK
<1>2. Count(object) = 0
  BY <1>1, ReadRunValue DEF Empty
<1> QED BY <1>1, <1>2, EmptySeq, SeqEqual

(***************************************************************************)
(* Used in any order the ring buffer is a bounded queue of Size - 1 bytes: *)
(* put() accepts the longest prefix that fits, get() and consume() take    *)
(* the oldest, and no byte changes while it waits.                         *)
(***************************************************************************)
THEOREM IsAQueue == RingSpec => QueueSpec
<1>1. RingInit => Queue!Init
  <2> SUFFICES ASSUME RingInit PROVE Queue!Init
    OBVIOUS
  <2>1. RingTypeOK
    BY InitType
  <2>2. object.head = object.tail
    BY DEF RingInit, NewRing
  <2>3. Contents(object) = <<>>
    BY <2>1, <2>2, EmptyRing
  <2> QED BY <2>3 DEF RingInit, Queue!Init
<1>2. ASSUME RingTypeOK, RingTypeOK', [RingNext]_ringVars
      PROVE  [Queue!Next]_(Queue!vars)
  <2>1. ASSUME NEW data \in Data, PutData(data) PROVE Queue!Next
    <3>1. Queue!Offer(data)
      BY <1>2, <2>1, PutOffers
    <3>2. Len(data) \in 0 .. MaxPut /\ data \in [1 .. Len(data) -> Bytes]
      BY PutDataLen
    <3> QED BY <3>1, <3>2 DEF Queue!Next
  <2>2. ASSUME NEW n \in 0 .. MaxPut, GetData(n) PROVE Queue!Next
    BY <1>2, <2>2, GetTakesOldest DEF Queue!Next
  <2>3. ASSUME NEW n \in 0 .. MaxPut, ConsumeRun(n) PROVE Queue!Next
    BY <1>2, <2>3, ConsumeSkips DEF Queue!Next
  <2>4. CASE Flush
    <3>1. object'.head = object'.tail /\ last' = last
      BY <1>2, <2>4 DEF Flush, RingTypeOK
    <3>2. Contents(object)' = <<>>
      <4>1. (RingTypeOK /\ object.head = object.tail => Contents(object) = <<>>)'
        BY EmptyRing, PTL
      <4> QED BY <1>2, <3>1, <4>1
    <3> QED BY <3>1, <3>2 DEF Queue!Next, Queue!Clear
  <2>5. CASE UNCHANGED ringVars
    BY <2>5 DEF ringVars, Queue!vars, Contents, Count, At
  <2> QED BY <1>2, <2>1, <2>2, <2>3, <2>4, <2>5 DEF RingNext
<1> QED BY <1>1, <1>2, RingTypeCorrect, PTL DEF RingSpec, QueueSpec, Queue!Spec
-----------------------------------------------------------------------------
(***************************************************************************)
(* The transmitter.                                                        *)
(***************************************************************************)
LEMMA InitIInv ==
  ASSUME FreshTxing = {FALSE}, Init
  PROVE  IInv
<1>1. Size \in Nat \ {0}
  BY SizeAssumption
<1>2. /\ ring.head = 0 /\ ring.tail = 0 /\ DOMAIN ring.buf = Indices
  BY DEF Init, NewRing
<1>3. IsRing(ring)
  BY <1>1, <1>2 DEF IsRing, Indices
<1>4. Count(ring) = 0
  BY <1>1, <1>2, <1>3, CountValue
<1>5. TypeOK
  <2>1. txing \in BOOLEAN /\ sem \in BOOLEAN
    BY DEF Init
  <2>2. inFlight \in Indices /\ dma \in [from : 0 .. Size, left : Indices, done : BOOLEAN]
    BY <1>1 DEF Init, Off, Indices
  <2>3. task \in [Tasks -> [at : Places, left : Nat, blocks : BOOLEAN]]
    BY DEF Init, Idle, Places
  <2>4. accepted \in Nat /\ asked \in Nat
    BY DEF Init
  <2> QED BY <1>3, <2>1, <2>2, <2>3, <2>4 DEF TypeOK
<1>6. txing = FALSE /\ dma.left = 0 /\ dma.done = FALSE
  BY DEF Init, Off
<1>7. NoStall /\ InFlightReserved
  BY <1>4, <1>6 DEF NoStall, InFlightReserved
<1>8. BytesLeft /\ WakeupComes
  BY DEF Init, Idle, BytesLeft, WakeupComes
<1> QED BY <1>5, <1>7, <1>8 DEF IInv

\* A transfer that is started gets a run, and leaves room for no empty one.
LEMMA RunToSend ==
  ASSUME NEW r, IsRing(r), Count(r) > 0
  PROVE  /\ ReadRun(r) \in Indices /\ ReadRun(r) \in Nat /\ ReadRun(r) > 0
         /\ r.tail \in 0 .. Size /\ r.tail \in Nat
<1>1. Size \in Nat \ {0} /\ Count(r) \in 0 .. Size - 1 /\ r.tail \in 0 .. Size - 1
  BY SizeAssumption, CountValue DEF IsRing, Indices
<1>2. ReadRun(r) \in 0 .. Count(r) /\ ReadRun(r) > 0
  BY ReadRunValue
<1> QED BY <1>1, <1>2 DEF Indices

LEMMA CallKeeps ==
  ASSUME IInv, NEW t \in Tasks, NEW n \in 1 .. MaxCall, NEW b \in BOOLEAN, Call(t, n, b)
  PROVE  IInv'
<1> USE SerialAssumption
<1>1. TypeOK'
  BY DEF IInv, TypeOK, Call, Places
<1>2. NoStall' /\ InFlightReserved'
  BY DEF IInv, Call, NoStall, InFlightReserved
<1>3. BytesLeft'
  BY DEF IInv, TypeOK, Call, BytesLeft
<1>4. WakeupComes'
  BY DEF IInv, TypeOK, Call, WakeupComes
<1> QED BY <1>1, <1>2, <1>3, <1>4 DEF IInv

LEMMA PutSomeKeeps ==
  ASSUME IInv, NEW t \in Tasks, PutSome(t)
  PROVE  IInv'
<1> DEFINE n    == Lesser(Free(ring), task[t].left)
           data == [i \in 1 .. n |-> accepted + i]
           inc  == PutDone(ring, n, data)
<1>1. /\ IsRing(ring) /\ task[t].left \in Nat /\ task[t].left > 0
      /\ Free(ring) \in Nat /\ Free(ring) > 0 /\ Count(ring) \in Nat
      /\ Size \in Nat \ {0}
  BY SizeAssumption, CountValue DEF IInv, TypeOK, BytesLeft, PutSome
<1>2. n \in Nat /\ n > 0 /\ n <= Free(ring) /\ n <= task[t].left
  BY <1>1 DEF Lesser
<1>3. /\ ring' = Put(ring, n, data)
      /\ accepted' = accepted + inc
      /\ task' = [task EXCEPT ![t] = After(@, inc)]
      /\ txing' = TRUE
      /\ UNCHANGED <<sem, asked>>
  BY DEF PutSome
<1> HIDE DEF n, data
<1>4. /\ inc = n /\ IsRing(ring') /\ ring'.tail = ring.tail
      /\ Count(ring') = Count(ring) + n
  BY <1>1, <1>2, <1>3, PutAppends DEF Lesser
<1> HIDE DEF inc
<1>5. Count(ring') > 0
  BY <1>1, <1>2, <1>4
<1>6. /\ dma' \in [from : 0 .. Size, left : Indices, done : BOOLEAN]
      /\ inFlight' \in Indices
      /\ 0 < inFlight' /\ inFlight' <= ReadRun(ring')
      /\ dma'.from + dma'.left = ring'.tail + inFlight'
      /\ dma'.left <= inFlight'
      /\ (dma'.left > 0 \/ dma'.done)
      /\ (dma'.done => dma'.left = 0)
  <2>1. CASE txing
    <3>1. dma' = dma /\ inFlight' = inFlight
      BY <2>1 DEF PutSome
    <3>2. ReadRun(ring) <= ReadRun(ring')
      BY <1>1, <1>2, <1>4, ReadRunGrows
    <3>3. /\ ReadRun(ring) \in Nat /\ ReadRun(ring') \in Nat /\ inFlight \in Nat
      BY <1>1, <1>4, ReadRunValue, CountValue DEF IInv, TypeOK, Indices
    <3> QED BY <1>4, <2>1, <3>1, <3>2, <3>3 DEF IInv, TypeOK, NoStall, InFlightReserved
  <2>2. CASE ~txing
    <3>1. /\ dma' = [from |-> ring'.tail, left |-> ReadRun(ring'), done |-> FALSE]
          /\ inFlight' = ReadRun(ring')
      BY <2>2 DEF PutSome, StartDma
    <3>2. /\ ReadRun(ring') \in Indices /\ ReadRun(ring') \in Nat /\ ReadRun(ring') > 0
          /\ ring'.tail \in 0 .. Size /\ ring'.tail \in Nat
      BY <1>4, <1>5, RunToSend
    <3> QED BY <3>1, <3>2
  <2> QED BY <2>1, <2>2
<1>7. /\ task' \in [Tasks -> [at : Places, left : Nat, blocks : BOOLEAN]]
      /\ BytesLeft'
  <2> DEFINE Calls == [at : Places, left : Nat, blocks : BOOLEAN]
             next  == After(task[t], inc)
  <2>1. task[t] \in Calls /\ task \in [Tasks -> Calls]
    BY DEF IInv, TypeOK
  <2>2. next \in Calls /\ (next.at # "idle" => next.left > 0)
    <3>1. CASE task[t].left = inc
      BY <3>1 DEF After, Idle, Places
    <3>2. CASE task[t].left # inc
      BY <1>1, <1>2, <1>4, <2>1, <3>2 DEF After
    <3> QED BY <3>1, <3>2
  <2>3. task' = [task EXCEPT ![t] = next]
    BY <1>3
  <2> HIDE DEF Calls, next
  <2>4. task' \in [Tasks -> Calls]
    BY <2>1, <2>2, <2>3
  <2>5. BytesLeft'
    BY <2>1, <2>2, <2>3 DEF IInv, BytesLeft
  <2> QED BY <2>4, <2>5 DEF Calls
<1>8. TypeOK'
  BY <1>1, <1>2, <1>3, <1>4, <1>6, <1>7 DEF IInv, TypeOK
<1>9. NoStall' /\ InFlightReserved'
  BY <1>3, <1>5, <1>6 DEF NoStall, InFlightReserved
<1>10. WakeupComes'
  BY <1>3 DEF WakeupComes
<1> QED BY <1>7, <1>8, <1>9, <1>10 DEF IInv

LEMMA OtherTurnsKeep ==
  ASSUME IInv, NEW t \in Tasks, GiveUp(t) \/ AwaitRoom(t) \/ TakeSem(t)
  PROVE  IInv'
<1>1. UNCHANGED <<ring, txing, inFlight, dma, accepted, asked>>
  BY DEF GiveUp, AwaitRoom, TakeSem
<1>2. NoStall' /\ InFlightReserved'
  BY <1>1 DEF IInv, NoStall, InFlightReserved
<1>3. TypeOK' /\ BytesLeft'
  <2>1. CASE GiveUp(t)
    BY <1>1, <2>1 DEF IInv, TypeOK, BytesLeft, GiveUp, Idle, Places
  <2>2. CASE AwaitRoom(t)
    BY <1>1, <2>2 DEF IInv, TypeOK, BytesLeft, AwaitRoom, Places
  <2>3. CASE TakeSem(t)
    <3>1. /\ task' = [task EXCEPT ![t].at = "loop"] /\ sem' = FALSE
          /\ task \in [Tasks -> [at : Places, left : Nat, blocks : BOOLEAN]]
          /\ task[t].at = "take" /\ "loop" \in Places
      BY <2>3 DEF IInv, TypeOK, TakeSem, Places
    <3>2. task' \in [Tasks -> [at : Places, left : Nat, blocks : BOOLEAN]]
      BY <3>1
    <3>3. \A u \in Tasks : /\ task'[u].left = task[u].left
                           /\ task'[u].at # "idle" => task[u].at # "idle"
      BY <3>1
    <3>4. TypeOK'
      BY <1>1, <3>1, <3>2 DEF IInv, TypeOK
    <3>5. BytesLeft'
      BY <3>3 DEF IInv, BytesLeft
    <3> QED BY <3>4, <3>5
  <2> QED BY <2>1, <2>2, <2>3
\* A full ring is not empty, so a transfer is going on.
<1>4. Free(ring) = 0 => txing
  <2>1. Size \in Nat /\ Size > 1 /\ Count(ring) \in Nat /\ Free(ring) = Size - Count(ring) - 1
    BY SizeAssumption, SerialAssumption, CountValue DEF IInv, TypeOK, Free
  <2> QED BY <2>1 DEF IInv, NoStall
<1>5. WakeupComes'
  <2>1. CASE GiveUp(t) \/ AwaitRoom(t)
    BY <1>1, <1>4, <2>1 DEF WakeupComes, GiveUp, AwaitRoom
  <2>2. CASE TakeSem(t)
    BY <2>2 DEF IInv, TypeOK, WakeupComes, TakeSem
  <2> QED BY <2>1, <2>2
<1> QED BY <1>2, <1>3, <1>5 DEF IInv

LEMMA DmaMoveKeeps ==
  ASSUME IInv, DmaMove
  PROVE  IInv'
<1>1. /\ UNCHANGED <<ring, txing, inFlight, sem, task, accepted, asked>>
      /\ dma' = [from |-> dma.from + 1, left |-> dma.left - 1, done |-> dma.left = 1]
      /\ dma.left > 0
  BY DEF DmaMove
<1>2. /\ txing /\ dma.from \in Nat /\ dma.left \in Nat /\ inFlight \in Nat
      /\ dma.from + dma.left = ring.tail + inFlight
      /\ dma.left <= inFlight /\ inFlight <= ReadRun(ring)
      /\ dma.left \in Indices /\ Size \in Nat \ {0}
  BY <1>1, SizeAssumption DEF IInv, TypeOK, NoStall, InFlightReserved, Indices
<1>3. ReadRun(ring) \in Nat /\ ring.tail \in Nat /\ ring.tail + ReadRun(ring) <= Size
  BY <1>2, ReadRunValue, CountValue DEF IInv, TypeOK, IsRing, Indices
<1>4. dma' \in [from : 0 .. Size, left : Indices, done : BOOLEAN]
  BY <1>1, <1>2, <1>3 DEF Indices
<1>5. TypeOK'
  BY <1>1, <1>4 DEF IInv, TypeOK
<1>6. NoStall' /\ InFlightReserved'
  <2>1. dma'.left = dma.left - 1 /\ dma'.from = dma.from + 1 /\ (dma'.done <=> dma.left = 1)
    BY <1>1
  <2>2. InFlightReserved'
    BY <1>1, <1>2, <1>3, <2>1 DEF IInv, InFlightReserved
  <2>3. dma'.left > 0 \/ dma'.done
    BY <1>1, <1>2, <2>1
  <2>4. dma'.done => dma'.left = 0
    BY <1>2, <2>1
  <2> QED BY <1>1, <1>2, <2>2, <2>3, <2>4 DEF IInv, NoStall
<1>7. BytesLeft' /\ WakeupComes'
  BY <1>1 DEF IInv, BytesLeft, WakeupComes
<1> QED BY <1>5, <1>6, <1>7 DEF IInv

LEMMA DmaIrqKeeps ==
  ASSUME IInv, DmaIrq
  PROVE  IInv'
<1>1. /\ dma.done /\ ring' = Consume(ring, inFlight)
      /\ sem' = (sem \/ ~WithCallback)
      /\ UNCHANGED <<task, accepted, asked>>
  BY DEF DmaIrq, GiveToken
<1>2. /\ IsRing(ring) /\ inFlight \in Nat /\ ReadRun(ring) \in Nat
      /\ txing /\ inFlight <= ReadRun(ring) /\ Size \in Nat \ {0}
  BY <1>1, SizeAssumption, ReadRunValue, CountValue
  DEF IInv, TypeOK, NoStall, InFlightReserved, Indices
<1>3. IsRing(ring')
  BY <1>1, <1>2, ReadRunValue
<1>4. /\ NoStall' /\ InFlightReserved'
      /\ inFlight' \in Indices /\ txing' \in BOOLEAN
      /\ dma' \in [from : 0 .. Size, left : Indices, done : BOOLEAN]
  <2>1. CASE Empty(ring')
    <3>1. dma' = Off /\ inFlight' = 0 /\ txing' = FALSE
      BY <2>1 DEF DmaIrq, Continue
    <3>2. Count(ring') = 0
      BY <1>3, <2>1, ReadRunValue
    <3>3. NoStall' /\ InFlightReserved'
      BY <3>1, <3>2 DEF NoStall, InFlightReserved, Off
    <3>4. 0 \in Indices /\ 0 \in 0 .. Size
      BY <1>2 DEF Indices
    <3> QED BY <3>1, <3>3, <3>4 DEF Off
  <2>2. CASE ~Empty(ring')
    <3>1. /\ dma' = [from |-> ring'.tail, left |-> ReadRun(ring'), done |-> FALSE]
          /\ inFlight' = ReadRun(ring') /\ txing' = txing
      BY <2>2 DEF DmaIrq, Continue, StartDma
    <3>2. Count(ring') > 0
      BY <1>2, <1>3, <2>2, ReadRunValue, CountValue
    <3>3. /\ ReadRun(ring') \in Indices /\ ReadRun(ring') \in Nat /\ ReadRun(ring') > 0
          /\ ring'.tail \in 0 .. Size /\ ring'.tail \in Nat
      BY <1>3, <3>2, RunToSend
    <3>4. NoStall' /\ InFlightReserved'
      BY <1>2, <3>1, <3>2, <3>3 DEF NoStall, InFlightReserved
    <3> QED BY <3>1, <3>3, <3>4 DEF IInv, TypeOK
  <2> QED BY <2>1, <2>2
<1>5. TypeOK'
  BY <1>1, <1>3, <1>4, SerialAssumption DEF IInv, TypeOK
<1>6. BytesLeft'
  BY <1>1 DEF IInv, BytesLeft
<1>7. WakeupComes'
  BY <1>1, SerialAssumption DEF IInv, TypeOK, WakeupComes
<1> QED BY <1>4, <1>5, <1>6, <1>7 DEF IInv

LEMMA StepKeepsIInv ==
  ASSUME IInv, [Next]_vars
  PROVE  IInv'
<1>1. CASE UNCHANGED vars
  BY <1>1 DEF vars, IInv, TypeOK, NoStall, InFlightReserved, BytesLeft, WakeupComes
<1>2. CASE Next
  BY <1>2, CallKeeps, PutSomeKeeps, OtherTurnsKeep, DmaMoveKeeps, DmaIrqKeeps
  DEF Next, LoopNext
<1> QED BY <1>1, <1>2

(***************************************************************************)
(* The transmitter never stalls: whenever the ring buffer holds a byte a   *)
(* transfer runs or its interrupt is due.                                  *)
(***************************************************************************)
THEOREM NeverStalls ==
  ASSUME FreshTxing = {FALSE}
  PROVE  Spec => []NoStall
<1>1. Init => IInv
  BY InitIInv
<1>2. IInv /\ [Next]_vars => IInv'
  BY StepKeepsIInv
<1>3. IInv => NoStall
  BY DEF IInv
<1> QED BY <1>1, <1>2, <1>3, PTL DEF Spec

(***************************************************************************)
(* The run a transfer reads stays reserved, whatever is put meanwhile.     *)
(***************************************************************************)
THEOREM RunsStayReserved ==
  ASSUME FreshTxing = {FALSE}
  PROVE  Spec => []InFlightReserved
<1>1. Init => IInv
  BY InitIInv
<1>2. IInv /\ [Next]_vars => IInv'
  BY StepKeepsIInv
<1>3. IInv => InFlightReserved
  BY DEF IInv
<1> QED BY <1>1, <1>2, <1>3, PTL DEF Spec

(***************************************************************************)
(* A blocked transmit() of a transmitter without a callback finds a token  *)
(* or somebody is bound to give it one.                                    *)
(***************************************************************************)
THEOREM WakeupsCome ==
  ASSUME FreshTxing = {FALSE}
  PROVE  Spec => []WakeupComes
<1>1. Init => IInv
  BY InitIInv
<1>2. IInv /\ [Next]_vars => IInv'
  BY StepKeepsIInv
<1>3. IInv => WakeupComes
  BY DEF IInv
<1> QED BY <1>1, <1>2, <1>3, PTL DEF Spec

(***************************************************************************)
(* Every variable stays within its type, the ring a ring.                  *)
(***************************************************************************)
THEOREM TypeCorrect ==
  ASSUME FreshTxing = {FALSE}
  PROVE  Spec => []TypeOK
<1>1. Init => IInv
  BY InitIInv
<1>2. IInv /\ [Next]_vars => IInv'
  BY StepKeepsIInv
<1>3. IInv => TypeOK
  BY DEF IInv
<1> QED BY <1>1, <1>2, <1>3, PTL DEF Spec
-----------------------------------------------------------------------------
\* What a ring holds from its d-th byte on.
LEMMA RestValue ==
  ASSUME NEW r, IsRing(r), NEW B, \A i \in Indices : r.buf[i] \in B,
         NEW d \in 0 .. Count(r)
  PROVE  LET rest == SubSeq(Contents(r), d + 1, Count(r))
         IN  /\ rest \in Seq(B) /\ Len(rest) = Count(r) - d
             /\ \A i \in 1 .. Count(r) - d : rest[i] = At(r, d + i - 1)
<1> DEFINE all  == Contents(r)
           c    == Count(r)
           rest == SubSeq(all, d + 1, c)
<1>1. c \in Nat /\ d \in Nat /\ d <= c
  BY SizeAssumption, CountValue
<1>2. /\ all \in Seq(B) /\ Len(all) = c
      /\ \A i \in 1 .. c : all[i] = At(r, i - 1)
  BY ContentsValue
<1> HIDE DEF all, c
<1>3. /\ rest \in Seq(B)
      /\ Len(rest) = IF d + 1 <= c THEN c - (d + 1) + 1 ELSE 0
      /\ \A i \in 1 .. c - (d + 1) + 1 : rest[i] = all[d + 1 + i - 1]
  <2>1. \A i \in d + 1 .. c : all[i] \in B
    BY <1>1, <1>2, ElementOfSeq
  <2> QED BY <1>1, <2>1, SubSeqProperties
<1> HIDE DEF rest
<1>4. Len(rest) = c - d
  BY <1>1, <1>3
<1>5. ASSUME NEW i \in 1 .. c - d PROVE rest[i] = At(r, d + i - 1)
  <2>1. /\ i \in 1 .. c - (d + 1) + 1 /\ d + 1 + i - 1 \in 1 .. c
        /\ (d + 1 + i - 1) - 1 = d + i - 1
    BY <1>1, <1>5
  <2> QED BY <1>2, <1>3, <2>1
<1> QED BY <1>3, <1>4, <1>5 DEF rest, all, c

\* What the DMA has taken of the ring, and what waits when it is stopped.
LEMMA TakenOfRing ==
  ASSUME IInv
  PROVE  /\ IsRing(ring) /\ Count(ring) \in Nat
         /\ Free(ring) = (Size - 1) - Count(ring) /\ Free(ring) \in Nat
         /\ inFlight \in Nat /\ dma.left \in Nat
         /\ txing => inFlight - dma.left \in 0 .. Count(ring)
         /\ ~txing => Unsent = <<>> /\ Count(ring) = 0
<1>1. /\ IsRing(ring) /\ Count(ring) \in Nat /\ Size \in Nat
      /\ Free(ring) = (Size - 1) - Count(ring) /\ Free(ring) \in Nat
      /\ inFlight \in Nat /\ dma.left \in Nat
  BY SizeAssumption, CountValue DEF IInv, TypeOK, Indices, Free
<1>2. txing => inFlight - dma.left \in 0 .. Count(ring)
  BY <1>1, ReadRunValue DEF IInv, InFlightReserved
<1>3. ASSUME ~txing PROVE Unsent = <<>> /\ Count(ring) = 0
  <2>1. Count(ring) = 0 /\ dma.left = 0
    BY <1>1, <1>3 DEF IInv, NoStall
  <2>2. inFlight - dma.left + 1 \in Int /\ Count(ring) < inFlight - dma.left + 1
    BY <1>1, <2>1
  <2> QED BY <2>1, <2>2, SubSeqEmpty DEF Unsent
<1> QED BY <1>1, <1>2, <1>3

LEMMA PutAccepts ==
  ASSUME IInv, NEW t \in Tasks, PutSome(t)
  PROVE  \E n \in 1 .. Size - 1 : Stream!Accept(n)
<1> DEFINE n    == Lesser(Free(ring), task[t].left)
           data == [i \in 1 .. n |-> accepted + i]
           B    == {ring.buf[i] : i \in Indices} \cup {ring'.buf[i] : i \in Indices} \cup Nat
           d    == inFlight - dma.left
           old  == Unsent
           new  == Unsent'
<1>1. /\ task[t].left \in Nat /\ task[t].left > 0 /\ Size \in Nat /\ accepted \in Nat
      /\ IsRing(ring) /\ Count(ring) \in Nat
      /\ Free(ring) = (Size - 1) - Count(ring) /\ Free(ring) \in Nat /\ Free(ring) > 0
  BY SizeAssumption, TakenOfRing DEF IInv, TypeOK, BytesLeft, PutSome
<1>2. n \in Nat /\ n > 0 /\ n <= Free(ring) /\ n \in 1 .. Size - 1
  BY <1>1 DEF Lesser
<1>3. /\ ring' = Put(ring, n, data)
      /\ accepted' = accepted + PutDone(ring, n, data)
      /\ wire' = wire
  BY DEF PutSome
<1>4. /\ data \in Seq(B) /\ Len(data) = n
      /\ \A i \in 1 .. n : data[i] = accepted + i
  <2>1. \A i \in 1 .. n : accepted + i \in B
    BY <1>1
  <2> HIDE DEF n, B
  <2> QED BY <1>2, <2>1
<1>5. /\ \A i \in Indices : ring.buf[i] \in B
      /\ \A i \in Indices : ring'.buf[i] \in B
  OBVIOUS
<1> HIDE DEF n, data, B, d
<1>6. /\ PutDone(ring, n, data) = n /\ IsRing(ring')
      /\ Count(ring') = Count(ring) + n
      /\ \A i \in 0 .. Count(ring) - 1 : At(ring', i) = At(ring, i)
      /\ \A i \in 0 .. n - 1 : At(ring', Count(ring) + i) = data[1 + i]
  BY <1>1, <1>2, <1>3, PutAppends DEF Lesser
\* What waited and what is put, as one sequence.
<1>7. \E k \in 0 .. Count(ring) :
        /\ new = SubSeq(Contents(ring'), k + 1, Count(ring'))
        /\ old \in Seq(B) /\ Len(old) = Count(ring) - k
        /\ \A i \in 1 .. Count(ring) - k : old[i] = At(ring, k + i - 1)
  <2>1. CASE txing
    <3>1. d \in 0 .. Count(ring)
      BY <2>1, TakenOfRing DEF d
    <3>2. dma' = dma /\ inFlight' = inFlight
      BY <2>1 DEF PutSome
    <3>3. old = SubSeq(Contents(ring), d + 1, Count(ring))
      BY DEF Unsent, d
    <3>4. new = SubSeq(Contents(ring'), d + 1, Count(ring'))
      BY <3>2 DEF Unsent, d
    <3>5. /\ old \in Seq(B) /\ Len(old) = Count(ring) - d
          /\ \A i \in 1 .. Count(ring) - d : old[i] = At(ring, d + i - 1)
      <4> HIDE DEF old
      <4> QED BY <1>1, <1>5, <3>1, <3>3, RestValue
    <3> QED BY <3>1, <3>4, <3>5
  <2>2. CASE ~txing
    <3>1. old = <<>> /\ Count(ring) = 0
      BY <2>2, TakenOfRing
    <3>2. inFlight' = ReadRun(ring') /\ dma'.left = ReadRun(ring')
      BY <2>2 DEF PutSome, StartDma
    <3>3. ReadRun(ring') \in Int
      BY <1>6, ReadRunValue
    <3>4. new = SubSeq(Contents(ring'), 0 + 1, Count(ring'))
      <4>1. inFlight' - dma'.left + 1 = 0 + 1
        BY <3>2, <3>3
      <4> QED BY <4>1 DEF Unsent
    <3>5. /\ old \in Seq(B) /\ Len(old) = 0
          /\ 0 \in 0 .. Count(ring) /\ Count(ring) - 0 = 0
      BY <3>1, EmptySeq
    <3>6. \A i \in 1 .. Count(ring) - 0 : old[i] = At(ring, 0 + i - 1)
      BY <3>5
    <3> HIDE DEF old, new
    <3> QED BY <3>4, <3>5, <3>6
  <2> QED BY <2>1, <2>2
<1>8. PICK k \in 0 .. Count(ring) :
        /\ new = SubSeq(Contents(ring'), k + 1, Count(ring'))
        /\ old \in Seq(B) /\ Len(old) = Count(ring) - k
        /\ \A i \in 1 .. Count(ring) - k : old[i] = At(ring, k + i - 1)
  BY <1>7
<1> HIDE DEF old, new
<1> DEFINE m == Count(ring) - k
<1>9. /\ new \in Seq(B) /\ Len(new) = m + n
      /\ \A i \in 1 .. m + n : new[i] = At(ring', k + i - 1)
  <2>1. k \in 0 .. Count(ring') /\ Count(ring') - k = m + n
    BY <1>1, <1>2, <1>6
  <2>2. /\ new \in Seq(B) /\ Len(new) = Count(ring') - k
        /\ \A i \in 1 .. Count(ring') - k : new[i] = At(ring', k + i - 1)
    BY <1>5, <1>6, <1>8, <2>1, RestValue
  <2> HIDE DEF m
  <2> QED BY <2>1, <2>2
<1>10. /\ old \o data \in Seq(B) /\ Len(old \o data) = m + n
       /\ \A i \in 1 .. m + n :
            (old \o data)[i] = IF i <= m THEN old[i] ELSE data[i - m]
  <2>1. /\ old \o data \in Seq(B) /\ Len(old \o data) = Len(old) + Len(data)
        /\ \A i \in 1 .. Len(old) + Len(data) :
             (old \o data)[i] = IF i <= Len(old) THEN old[i] ELSE data[i - Len(old)]
    BY <1>4, <1>8, ConcatProperties
  <2> HIDE DEF m
  <2> QED BY <1>4, <1>8, <2>1 DEF m
<1>11. ASSUME NEW i \in 1 .. m + n PROVE new[i] = (old \o data)[i]
  <2>1. /\ i \in Int /\ m \in Nat /\ k \in Nat /\ k + m = Count(ring)
    BY <1>1, <1>2, <1>11
  <2>2. CASE i <= m
    <3>1. i \in 1 .. Count(ring) - k /\ k + i - 1 \in 0 .. Count(ring) - 1
      BY <1>11, <2>1, <2>2
    <3> QED BY <1>6, <1>8, <1>9, <1>10, <1>11, <2>2, <3>1
  <2>3. CASE i > m
    <3>1. /\ i - m \in 1 .. n /\ (i - m) - 1 \in 0 .. n - 1
          /\ Count(ring) + ((i - m) - 1) = k + i - 1 /\ 1 + ((i - m) - 1) = i - m
          /\ ~(i <= m)
      BY <1>2, <1>11, <2>1, <2>3
    <3>2. At(ring', k + i - 1) = data[i - m]
      BY <1>6, <3>1
    <3> HIDE DEF m
    <3> QED BY <1>9, <1>10, <1>11, <3>1, <3>2
  <2>4. i <= m \/ i > m
    BY <2>1
  <2> QED BY <2>2, <2>3, <2>4
<1>12. new = old \o data
  <2> HIDE DEF m
  <2> QED BY <1>9, <1>10, <1>11, SeqEqual
<1>13. Len(old) + n <= Size - 1
  BY <1>1, <1>2, <1>8
<1>14. Stream!Accept(n)
  BY <1>3, <1>6, <1>12, <1>13 DEF Stream!Accept, old, new, data
<1> QED BY <1>2, <1>14

LEMMA MoveSends ==
  ASSUME IInv, DmaMove
  PROVE  Stream!Send
<1> DEFINE d   == inFlight - dma.left
           all == Contents(ring)
           c   == Count(ring)
           B   == {ring.buf[i] : i \in Indices}
<1>1. /\ txing /\ dma.left > 0 /\ inFlight <= ReadRun(ring)
      /\ dma.from + dma.left = ring.tail + inFlight
  BY DEF DmaMove, IInv, NoStall, InFlightReserved
<1>2. /\ IsRing(ring) /\ c \in Nat /\ inFlight \in Nat /\ dma.left \in Nat
      /\ d \in 0 .. c /\ Size \in Nat \ {0} /\ ring.tail \in Nat /\ dma.from \in Nat
      /\ ring.tail + ReadRun(ring) <= Size /\ ReadRun(ring) \in 0 .. c
      /\ ring.tail \in Indices
  <2>1. /\ IsRing(ring) /\ inFlight \in Nat /\ dma.left \in Nat /\ dma.from \in Nat
        /\ Size \in Nat \ {0}
    BY SizeAssumption DEF IInv, TypeOK, Indices
  <2>2. ring.tail \in Indices /\ ring.tail \in Nat
    BY <2>1 DEF IsRing, Indices
  <2>3. c \in Nat /\ d \in 0 .. c
    BY <1>1, TakenOfRing
  <2>4. ring.tail + ReadRun(ring) <= Size /\ ReadRun(ring) \in 0 .. c
    BY <2>1, ReadRunValue
  <2> QED BY <2>1, <2>2, <2>3, <2>4
<1>3. /\ all \in Seq(B) /\ Len(all) = c
      /\ \A i \in 1 .. c : all[i] = At(ring, i - 1)
  <2>1. \A i \in Indices : ring.buf[i] \in B
    OBVIOUS
  <2> HIDE DEF B
  <2> QED BY <1>2, <2>1, ContentsValue
<1>4. /\ d + 1 \in 1 .. c /\ c \in d + 1 .. c /\ d \in 0 .. Size
      /\ ring.tail + d = dma.from /\ ring.tail + d < Size /\ (d + 1) - 1 = d
  BY <1>1, <1>2
<1>5. Unsent = SubSeq(all, d + 1, c)
  BY DEF Unsent
<1>6. Unsent' = SubSeq(all, d + 1 + 1, c)
  <2>1. ring' = ring /\ inFlight' = inFlight /\ dma'.left = dma.left - 1
    BY DEF DmaMove
  <2>2. inFlight - (dma.left - 1) + 1 = d + 1 + 1
    BY <1>2
  <2> QED BY <2>1, <2>2 DEF Unsent
<1>7. ring.buf[dma.from] = all[d + 1]
  <2>1. At(ring, d) = ring.buf[dma.from]
    BY <1>2, <1>4, WrapIndex DEF At
  <2> HIDE DEF d, all, c
  <2> QED BY <1>3, <1>4, <2>1
<1> HIDE DEF d, all, c, B
<1>8. Head(Unsent) = all[d + 1] /\ Tail(Unsent) = Unsent'
  BY <1>3, <1>4, <1>5, <1>6, HeadTailOfSubSeq
<1>9. Unsent # <<>>
  <2>1. \A i \in d + 1 .. c : all[i] \in B
    BY <1>2, <1>3, <1>4, ElementOfSeq
  <2>2. Len(Unsent) = c - (d + 1) + 1
    BY <1>2, <1>4, <1>5, <2>1, SubSeqProperties
  <2>3. Len(Unsent) # 0
    BY <1>2, <1>4, <2>2
  <2> QED BY <2>3, EmptySeq
<1> QED BY <1>7, <1>8, <1>9 DEF DmaMove, Stream!Send

LEMMA IrqKeepsUnsent ==
  ASSUME IInv, DmaIrq
  PROVE  Unsent' = Unsent
<1> DEFINE B == {ring.buf[i] : i \in Indices}
           f == inFlight
<1>1. /\ txing /\ dma.left = 0 /\ f <= ReadRun(ring) /\ ring' = Consume(ring, f)
  BY DEF DmaIrq, IInv, NoStall, InFlightReserved
<1>2. /\ IsRing(ring) /\ Count(ring) \in Nat /\ f \in Nat
      /\ ReadRun(ring) \in 0 .. Count(ring) /\ f \in 0 .. ReadRun(ring)
      /\ f \in 0 .. Count(ring)
  BY <1>1, TakenOfRing, ReadRunValue
<1>3. /\ IsRing(ring') /\ Count(ring') = Count(ring) - f /\ ring'.buf = ring.buf
      /\ \A i \in 0 .. Count(ring) - f - 1 : At(ring', i) = At(ring, f + i)
  BY <1>1, <1>2, ReadRunValue, ConsumeValue DEF Consume
<1>4. inFlight' - dma'.left + 1 = 0 + 1
  <2>1. CASE Empty(ring')
    BY <2>1 DEF DmaIrq, Continue, Off
  <2>2. CASE ~Empty(ring')
    <3>1. inFlight' = ReadRun(ring') /\ dma'.left = ReadRun(ring')
      BY <2>2 DEF DmaIrq, Continue, StartDma
    <3>2. ReadRun(ring') \in Int
      BY <1>3, ReadRunValue
    <3> QED BY <3>1, <3>2
  <2> QED BY <2>1, <2>2
<1>5. \A i \in Indices : ring.buf[i] \in B
  OBVIOUS
<1>6. f - dma.left + 1 = f + 1
  BY <1>1, <1>2
<1>7. /\ Unsent = SubSeq(Contents(ring), f + 1, Count(ring))
      /\ Unsent' = SubSeq(Contents(ring'), 0 + 1, Count(ring'))
  BY <1>4, <1>6 DEF Unsent
<1>8. 0 \in 0 .. Count(ring') /\ Count(ring') - 0 = Count(ring) - f
  BY <1>2, <1>3
<1> HIDE DEF B, f
<1>9. /\ Unsent \in Seq(B) /\ Len(Unsent) = Count(ring) - f
      /\ \A i \in 1 .. Count(ring) - f : Unsent[i] = At(ring, f + i - 1)
  BY <1>2, <1>5, <1>7, RestValue
<1>10. /\ Unsent' \in Seq(B) /\ Len(Unsent') = Count(ring') - 0
       /\ \A i \in 1 .. Count(ring') - 0 : Unsent'[i] = At(ring', 0 + i - 1)
  BY <1>3, <1>5, <1>7, <1>8, RestValue
<1>11. ASSUME NEW i \in 1 .. Count(ring) - f PROVE Unsent'[i] = Unsent[i]
  <2>1. /\ 0 + i - 1 \in 0 .. Count(ring) - f - 1
        /\ f + (0 + i - 1) = f + i - 1
    BY <1>2, <1>11
  <2> QED BY <1>3, <1>8, <1>9, <1>10, <1>11, <2>1
<1> QED BY <1>8, <1>9, <1>10, <1>11, SeqEqual

(***************************************************************************)
(* The transmitter is a first-in first-out stream: whatever the buffer's   *)
(* size, the number of tasks and the interleaving of their calls with the  *)
(* transfers, each byte accepted is sent once and in order.                *)
(***************************************************************************)
THEOREM IsAStream ==
  ASSUME FreshTxing = {FALSE}
  PROVE  Spec => StreamSpec
<1>1. Init => IInv
  BY InitIInv
<1>2. IInv /\ [Next]_vars => IInv'
  BY StepKeepsIInv
<1>3. ASSUME Init PROVE Stream!Init
  <2>1. Unsent = <<>>
    <3>1. ~txing
      BY <1>3 DEF Init
    <3> QED BY <1>3, <3>1, InitIInv, TakenOfRing
  <2> QED BY <1>3, <2>1 DEF Init, Stream!Init
<1>4. ASSUME IInv, [Next]_vars PROVE [Stream!Next]_(Stream!vars)
  <2>1. ASSUME NEW t \in Tasks, PutSome(t) PROVE Stream!Next
    BY <1>4, <2>1, PutAccepts DEF Stream!Next
  <2>2. CASE DmaMove
    BY <1>4, <2>2, MoveSends DEF Stream!Next
  <2>3. CASE DmaIrq
    BY <1>4, <2>3, IrqKeepsUnsent DEF DmaIrq, Stream!vars
  <2>4. ASSUME UNCHANGED <<ring, inFlight, dma, accepted, wire>>
        PROVE  UNCHANGED Stream!vars
    BY <2>4 DEF Stream!vars, Unsent
  <2>5. ASSUME NEW t \in Tasks,
               \/ GiveUp(t) \/ AwaitRoom(t) \/ TakeSem(t)
               \/ \E n \in 1 .. MaxCall, b \in BOOLEAN : Call(t, n, b)
        PROVE  UNCHANGED Stream!vars
    BY <2>4, <2>5 DEF GiveUp, AwaitRoom, TakeSem, Call
  <2>6. CASE UNCHANGED vars
    BY <2>4, <2>6 DEF vars
  <2> QED BY <1>4, <2>1, <2>2, <2>3, <2>5, <2>6 DEF Next, LoopNext
<1> QED BY <1>1, <1>2, <1>3, <1>4, PTL DEF Spec, StreamSpec, Stream!Spec
=============================================================================
