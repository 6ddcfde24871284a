-------------------------- MODULE SerialRx_proofs ---------------------------
(***************************************************************************)
(* Every byte is read once and in order, for a buffer of any size and any  *)
(* number of bytes, whichever of the two interrupts and the timer told of  *)
(* it and however late, until there is trouble.                            *)
(***************************************************************************)
EXTENDS SerialRx, SequenceTheorems, TLAPS

\* The bytes since reception was last switched on; those head is behind by.
Arrived == received - base
Behind == Arrived - Consumed - (head - tail)

\* The length of the run in the reader's hands.
Pending == IF reader.at \in {"use", "consume"} THEN reader.n ELSE 0

Cells == [next : 0 .. Size - 1, irq : BOOLEAN, due : SUBSET {"half", "full"},
          held : BOOLEAN]
Readers == [at : {"wait", "look", "use", "consume", "failed"}, from : Nat, n : Nat]

Typed ==
  /\ head \in Nat /\ tail \in Nat /\ enabled \in BOOLEAN
  /\ dma \in Cells
  /\ mem \in [0 .. Size - 1 -> Nat]
  /\ reader \in Readers
  /\ base \in Nat /\ received \in Nat /\ base <= received
  /\ got \in Seq(Nat)

(***************************************************************************)
(* Both indexes stand, modulo the buffer's size, for a number of bytes:    *)
(* tail for those consumed, head for some of those that arrived.  The cell *)
(* never catches up with the tail, and the indexes stay low.               *)
(***************************************************************************)
Places ==
  /\ dma.next = Arrived % Size
  /\ Consumed \in Nat /\ Mask(tail) = Consumed % Size
  /\ tail <= head /\ tail <= Size
  /\ Behind >= 0 /\ Arrived - Consumed < Size

(***************************************************************************)
(* Head and the cell are in the same lap, unless the full interrupt is     *)
(* due, which takes head to the end of its lap.  The half interrupt takes  *)
(* head to the middle, which may be back: never behind the middle the      *)
(* reader has seen, for the timer collects only after the interrupt was    *)
(* held off, and the reader goes on only after it was served.              *)
(***************************************************************************)
ToldHalf ==
  dma.due = {"half"} =>
    /\ dma.next >= Half
    /\ Behind >= dma.next - Half \/ dma.held
    /\ Arrived - Consumed - Pending >= dma.next - Half

Told ==
  /\ dma.due # {} => enabled
  /\ enabled => /\ dma.irq
                /\ "full" \notin dma.due => Behind <= dma.next
                /\ "full" \in dma.due => Behind > dma.next
                /\ ToldHalf

\* The run the reader was given is there, in one piece.
Given ==
  reader.at \in {"use", "consume"} =>
    /\ reader.n \in 1 .. head - tail
    /\ reader.from = Mask(tail) /\ reader.from + reader.n <= Size

\* The last bytes to arrive are in the buffer, and those used were right.
Stored ==
  /\ \A i \in 1 .. Arrived : Arrived - Size < i => mem[(i - 1) % Size] = base + i
  /\ \A i \in 1 .. Len(got) : got[i] = base + i

Safe == Places /\ Told /\ Given /\ Stored
IInv == Typed /\ (trouble = {} => Safe)
-----------------------------------------------------------------------------
\* Arithmetic modulo the size of the buffer.
LEMMA Sizes ==
  /\ Size \in Nat \ {0} /\ Word \in Nat /\ Size < Word /\ 4 * Size < Word
  /\ Half \in 0 .. Size - 1 /\ (Size >= 2 => Half >= 1)
<1>1. PICK k \in 1 .. Size : Size = 2 ^ k
  BY SerialRxAssumption
<1>2. Size \in Nat \ {0} /\ Word \in Nat /\ Word > 4 * Size
  BY <1>1, SerialRxAssumption
<1>3. Half \in 0 .. Size - 1 /\ (Size >= 2 => Half >= 1)
  BY <1>2 DEF Half
<1> QED BY <1>2, <1>3

LEMMA Quotient ==
  ASSUME NEW m \in Nat \ {0}, NEW a \in Nat
  PROVE  a \div m \in Nat /\ a % m \in 0 .. m - 1 /\ a = m * (a \div m) + (a % m)
<1>1. a \div m \in Nat
  BY SMTT(30)
<1>2. a % m \in 0 .. m - 1
  BY SMTT(30)
<1>3. a = m * (a \div m) + (a % m)
  BY SMTT(30)
<1> QED BY <1>1, <1>2, <1>3

LEMMA Remainder ==
  ASSUME NEW m \in Nat \ {0}, NEW a \in Int, NEW q \in Int, NEW r \in 0 .. m - 1,
         a = m * q + r
  PROVE  a % m = r
BY SMTT(30)

LEMMA SumRemainder ==
  ASSUME NEW m \in Nat \ {0}, NEW a \in Nat, NEW d \in 0 .. m
  PROVE  (a + d) % m = IF (a % m) + d < m THEN (a % m) + d ELSE (a % m) + d - m
<1> DEFINE q == a \div m
           r == a % m
<1>1. q \in Nat /\ r \in 0 .. m - 1 /\ a = m * q + r
  BY Quotient
<1> HIDE DEF q, r
<1>2. CASE r + d < m
  <2> DEFINE s == r + d
  <2>1. s \in 0 .. m - 1 /\ a + d = m * q + s /\ a + d \in Int /\ q \in Int
    BY <1>1, <1>2
  <2> HIDE DEF s
  <2>2. (a + d) % m = s
    BY <2>1, Remainder
  <2> QED BY <1>2, <2>2 DEF r, s
<1>3. CASE ~(r + d < m)
  <2> DEFINE s == r + d - m
             p == q + 1
  <2>1. s \in 0 .. m - 1 /\ p \in Int /\ a + d \in Int
    BY <1>1, <1>3
  <2>2. m * p = m * q + m
    BY <1>1
  <2>3. a + d = m * p + s
    <3>1. m * q \in Int
      BY <1>1
    <3> HIDE DEF p
    <3> QED BY <1>1, <2>2, <3>1
  <2> HIDE DEF s, p
  <2>4. (a + d) % m = s
    BY <2>1, <2>3, Remainder
  <2> QED BY <1>3, <2>4 DEF r, s
<1> QED BY <1>2, <1>3

LEMMA SmallRemainder ==
  ASSUME NEW m \in Nat \ {0}, NEW a \in 0 .. m - 1
  PROVE  a % m = a
<1>1. a = m * 0 + a
  OBVIOUS
<1> QED BY <1>1, Remainder
-----------------------------------------------------------------------------
(***************************************************************************)
(* The same for this buffer, in terms of the places in it.                 *)
(***************************************************************************)
LEMMA MaskValue ==
  /\ \A a \in Nat : Mask(a) \in 0 .. Size - 1 /\ Unmask(a) = a - Mask(a)
  /\ \A a \in Nat, d \in 0 .. Size :
       Mask(a + d) = IF Mask(a) + d < Size THEN Mask(a) + d ELSE Mask(a) + d - Size
  /\ \A a \in 0 .. Size - 1 : Mask(a) = a
  /\ Mask(Size) = 0
<1>1. Size \in Nat \ {0}
  BY Sizes
<1>2. \A a \in Nat : Mask(a) \in 0 .. Size - 1
  BY <1>1, Quotient DEF Mask
<1>3. \A a \in Nat, d \in 0 .. Size :
        Mask(a + d) = IF Mask(a) + d < Size THEN Mask(a) + d ELSE Mask(a) + d - Size
  BY <1>1, SumRemainder DEF Mask
<1>4. \A a \in 0 .. Size - 1 : Mask(a) = a
  BY <1>1, SmallRemainder DEF Mask
<1>5. Mask(Size) = 0
  <2>1. Mask(0) = 0
    BY <1>1, <1>4
  <2>2. Mask(0 + Size) = IF Mask(0) + Size < Size THEN Mask(0) + Size
                         ELSE Mask(0) + Size - Size
    BY <1>1, <1>3
  <2> QED BY <1>1, <2>1, <2>2
<1> QED BY <1>2, <1>3, <1>4, <1>5 DEF Unmask

LEMMA DistanceValue ==
  ASSUME NEW h \in Nat, NEW t \in Nat, t <= h, h - t <= Size
  PROVE  Distance(h, t) = h - t /\ Checked(h, t) = t
<1>1. h - t \in 0 .. Word - 1 /\ Word \in Nat \ {0}
  BY Sizes
<1>2. Distance(h, t) = h - t
  BY <1>1, SmallRemainder DEF Distance
<1> QED BY <1>2, Sizes DEF Checked

(***************************************************************************)
(* Where the cell is, seen from head; and what lies between the indexes.   *)
(***************************************************************************)
LEMMA HeadPlace ==
  ASSUME Typed, Places
  PROVE  /\ Behind \in 0 .. Size - 1 /\ Arrived \in Nat
         /\ dma.next = IF Mask(head) + Behind < Size THEN Mask(head) + Behind
                       ELSE Mask(head) + Behind - Size
         /\ head - tail \in 0 .. Size - 1
<1>1. /\ Size \in Nat \ {0} /\ head \in Nat /\ tail \in Nat /\ Consumed \in Nat
      /\ Arrived \in Nat /\ tail <= head
      /\ Behind = Arrived - Consumed - (head - tail) /\ Behind >= 0
      /\ Arrived - Consumed < Size
  BY Sizes DEF Typed, Places, Arrived, Behind
<1> DEFINE d == Arrived - Consumed
<1>2. /\ d \in 0 .. Size /\ Arrived = Consumed + d
      /\ Behind \in 0 .. Size - 1 /\ tail + d = head + Behind
      /\ head - tail \in 0 .. Size - 1
  BY <1>1
<1> HIDE DEF d
<1>3. Mask(Consumed + d) = Mask(tail + d)
  <2>1. Mask(Consumed) = Mask(tail)
    BY DEF Places, Mask
  <2>2. /\ Mask(Consumed + d) = IF Mask(Consumed) + d < Size THEN Mask(Consumed) + d
                                ELSE Mask(Consumed) + d - Size
        /\ Mask(tail + d) = IF Mask(tail) + d < Size THEN Mask(tail) + d
                            ELSE Mask(tail) + d - Size
    BY <1>1, <1>2, MaskValue
  <2> QED BY <2>1, <2>2
<1>4. dma.next = Mask(head + Behind)
  BY <1>2, <1>3 DEF Places, Mask
<1>5. Mask(head + Behind) = IF Mask(head) + Behind < Size THEN Mask(head) + Behind
                            ELSE Mask(head) + Behind - Size
  BY <1>1, <1>2, MaskValue
<1> QED BY <1>1, <1>2, <1>4, <1>5

LEMMA RunValue ==
  ASSUME Typed, Places
  PROVE  /\ Run(head, tail) \in 0 .. head - tail
         /\ Mask(tail) \in Nat /\ Mask(tail) + Run(head, tail) <= Size
         /\ Checked(head, tail) = tail
<1>1. head \in Nat /\ tail \in Nat /\ head - tail \in 0 .. Size - 1 /\ Size \in Nat \ {0}
  BY HeadPlace, Sizes DEF Typed
<1>2. /\ Distance(head, tail) = head - tail /\ Checked(head, tail) = tail
      /\ Signed(head - tail) = head - tail
  <2>1. Distance(head, tail) = head - tail /\ Checked(head, tail) = tail
    BY <1>1, DistanceValue
  <2>2. 2 * (head - tail) < Word
    BY <1>1, Sizes
  <2> QED BY <2>1, <2>2 DEF Signed
<1>3. head = tail + (head - tail) /\ head - tail \in 0 .. Size
  BY <1>1
<1>4. Mask(tail + (head - tail)) =
        IF Mask(tail) + (head - tail) < Size THEN Mask(tail) + (head - tail)
        ELSE Mask(tail) + (head - tail) - Size
  BY <1>1, <1>3, MaskValue
<1>5. Mask(tail) \in 0 .. Size - 1
  BY <1>1, MaskValue
<1> QED BY <1>1, <1>2, <1>3, <1>4, <1>5 DEF Run
-----------------------------------------------------------------------------
LEMMA InitHolds == Init => IInv
<1> SUFFICES ASSUME Init PROVE IInv
  OBVIOUS
<1> USE DEF Init
<1>1. Size \in Nat \ {0} /\ 0 \in 0 .. Size - 1
  BY Sizes
<1>2. Arrived = 0 /\ Consumed = 0 /\ Behind = 0
  BY DEF Arrived, Consumed, Behind
<1>3. 0 % Size = 0
  BY <1>1, SmallRemainder
<1>4. Typed
  <2>1. dma \in Cells
    BY <1>1 DEF Cells, Started
  <2>2. reader \in Readers /\ mem \in [0 .. Size - 1 -> Nat]
    BY DEF Readers
  <2>3. got \in Seq(Nat)
    OBVIOUS
  <2>4. head \in Nat /\ tail \in Nat /\ base \in Nat /\ received \in Nat /\ base <= received
    OBVIOUS
  <2>5. enabled \in BOOLEAN
    OBVIOUS
  <2> QED BY ONLY <2>1, <2>2, <2>3, <2>4, <2>5 DEF Typed
<1>5. Places
  <2>1. dma.next = 0
    BY DEF Started
  <2> QED BY <1>1, <1>2, <1>3, <2>1 DEF Places, Mask
<1>6. Told /\ Given /\ Stored
  BY <1>2 DEF Told, Given, Stored, Started
<1> QED BY <1>4, <1>5, <1>6 DEF IInv, Safe

(***************************************************************************)
(* The types hold whatever happens.                                        *)
(***************************************************************************)
LEMMA CriticalType ==
  ASSUME Typed, Critical
  PROVE  /\ dma' \in Cells /\ dma'.next = dma.next /\ dma'.irq = dma.irq
         /\ dma'.due = dma.due /\ dma'.held = (dma.due # {})
BY DEF Critical, Typed, Cells

LEMMA IndexTypes ==
  ASSUME NEW h \in Nat, NEW t \in Nat
  PROVE  /\ Mask(h) \in 0 .. Size - 1 /\ Unmask(h) \in Nat
         /\ \A n \in Nat : Moved(h, n) \in Nat
         /\ Checked(h, t) \in Nat /\ Run(h, t) \in Int
<1>1. /\ Size \in Nat \ {0} /\ Word \in Nat \ {0}
      /\ Mask(h) \in 0 .. Size - 1 /\ Unmask(h) = h - Mask(h)
      /\ Mask(t) \in 0 .. Size - 1
  <2>1. Size \in Nat \ {0} /\ Word \in Nat \ {0}
    BY Sizes
  <2>2. /\ Mask(h) \in 0 .. Size - 1 /\ Unmask(h) = h - Mask(h)
        /\ Mask(t) \in 0 .. Size - 1
    BY MaskValue
  <2> QED BY <2>1, <2>2
<1>2. Unmask(h) \in Nat
  <2>1. h = Size * (h \div Size) + Mask(h) /\ h \div Size \in Nat
    BY <1>1, Quotient DEF Mask
  <2>2. Size * (h \div Size) \in Nat
    BY <1>1, <2>1
  <2> QED BY <1>1, <2>1, <2>2
<1>3. Distance(h, t) \in Int
  <2>1. h - t \in Int
    OBVIOUS
  <2> QED BY <1>1, <2>1, SMTT(30) DEF Distance
<1>4. Signed(Distance(h, t)) \in Int
  BY <1>1, <1>3 DEF Signed
<1> QED BY <1>1, <1>2, <1>4 DEF Moved, Checked, Run

LEMMA TypeKept ==
  ASSUME Typed, [Next]_vars
  PROVE  Typed'
<1>1. /\ head \in Nat /\ tail \in Nat /\ Size \in Nat \ {0} /\ Half \in Nat
      /\ dma \in Cells /\ dma.next \in 0 .. Size - 1
      /\ mem \in [0 .. Size - 1 -> Nat] /\ reader \in Readers /\ reader.n \in Nat
      /\ base \in Nat /\ received \in Nat /\ base <= received /\ got \in Seq(Nat)
  BY Sizes DEF Typed, Cells, Readers
<1>2. CASE Receive
  <2>1. (dma.next + 1) % Size \in 0 .. Size - 1
    <3>1. dma.next + 1 \in Nat
      BY <1>1
    <3> QED BY <1>1, <3>1, Quotient
  <2>2. Raised((dma.next + 1) % Size) \in SUBSET {"half", "full"}
    BY DEF Raised
  <2>3. dma' \in Cells
    BY <1>1, <1>2, <2>1, <2>2 DEF Receive, Cells
  <2>4. mem' \in [0 .. Size - 1 -> Nat]
    BY <1>1, <1>2 DEF Receive
  <2> QED BY <1>1, <1>2, <2>3, <2>4 DEF Typed, Receive, queue
<1>3. CASE HalfInterrupt \/ FullInterrupt
  <2>1. PICK n \in Nat : Interrupt(n)
    <3>1. Interrupt(Half) \/ Interrupt(Size)
      BY <1>3 DEF HalfInterrupt, FullInterrupt
    <3> QED BY <1>1, <3>1
  <2>2. head' \in Nat
    <3>1. Moved(head, n) \in Nat
      BY <1>1, IndexTypes
    <3> QED BY <1>1, <2>1, <3>1 DEF Interrupt, queue
  <2>3. tail' \in Nat
    <3>1. Checked(head', tail) \in Nat
      BY <1>1, <2>2, IndexTypes
    <3> QED BY <1>1, <2>1, <3>1 DEF Interrupt, queue
  <2>4. dma' \in Cells
    BY <1>1, <2>1 DEF Interrupt, Cells
  <2> QED BY <1>1, <2>1, <2>2, <2>3, <2>4 DEF Typed, Interrupt
<1>4. CASE Collect
  <2> DEFINE h1 == Moved(head, dma.next)
             t1 == Checked(h1, tail)
  <2>1. h1 \in Nat
    <3>1. dma.next \in Nat
      BY <1>1
    <3> QED BY <1>1, <3>1, IndexTypes
  <2>2. t1 \in Nat
    BY <1>1, <2>1, IndexTypes
  <2>3. /\ head' = h1 \/ head' = h1 + Size
        /\ tail' = t1 \/ tail' = Checked(head', t1)
    BY <1>4 DEF Collect
  <2> HIDE DEF h1, t1
  <2>4. head' \in Nat
    BY <1>1, <2>1, <2>3
  <2>5. tail' \in Nat
    BY <2>2, <2>3, <2>4, IndexTypes
  <2>6. dma' \in Cells
    BY <1>4, CriticalType DEF Collect
  <2> QED BY <1>1, <1>4, <2>4, <2>5, <2>6 DEF Typed, Collect
<1>5. CASE Wake
  BY <1>1, <1>5 DEF Typed, Wake, queue, Readers
<1>6. CASE GetReadPointer
  <2>1. /\ Run(head, tail) \in Int /\ Mask(tail) \in Nat /\ Checked(head, tail) \in Nat
    <3>1. Mask(tail) \in 0 .. Size - 1
      BY <1>1, MaskValue
    <3>2. Mask(tail) \in Nat
      BY <1>1, <3>1
    <3>3. Run(head, tail) \in Int /\ Checked(head, tail) \in Nat
      BY <1>1, IndexTypes
    <3> QED BY <3>2, <3>3
  <2>2. tail' \in Nat
    BY <1>1, <1>6, <2>1 DEF GetReadPointer
  <2>3. reader' \in Readers
    <3>1. \/ Run(head, tail) = 0 /\ reader' = [reader EXCEPT !.at = "wait"]
          \/ /\ Run(head, tail) > 0
             /\ reader' = [at |-> "use", from |-> Mask(tail), n |-> Run(head, tail)]
          \/ Run(head, tail) < 0 /\ reader' = [reader EXCEPT !.at = "failed"]
      BY <1>6, <2>1 DEF GetReadPointer
    <3>2. Run(head, tail) > 0 => Run(head, tail) \in Nat
      BY <2>1
    <3>3. CASE Run(head, tail) > 0
      BY <2>1, <3>1, <3>2, <3>3 DEF Readers
    <3>4. CASE ~(Run(head, tail) > 0)
      BY <1>1, <3>1, <3>4 DEF Readers
    <3> QED BY <3>3, <3>4
  <2>4. dma' \in Cells
    BY <1>6, CriticalType DEF GetReadPointer
  <2> QED BY <1>1, <1>6, <2>2, <2>3, <2>4 DEF Typed, GetReadPointer
<1>7. CASE Use
  <2> DEFINE n    == reader.n
             used == [i \in 1 .. n |-> Cell(reader.from + i - 1)]
  <2>1. \A i \in 1 .. n : Cell(reader.from + i - 1) \in Nat
    <3>1. reader.from \in Nat
      BY <1>1 DEF Readers
    <3>2. ASSUME NEW i \in 1 .. n
          PROVE  Cell(reader.from + i - 1) \in Nat
      <4>1. reader.from + i - 1 \in Nat
        BY <1>1, <3>1
      <4>2. \A j \in Nat : Cell(j) \in Nat
        BY <1>1 DEF Cell
      <4> QED BY <4>1, <4>2
    <3> QED BY <3>2
  <2>2. used \in Seq(Nat)
    <3>1. n \in Nat
      BY <1>1
    <3> HIDE DEF n
    <3> QED BY <2>1, <3>1
  <2>3. got' \in Seq(Nat)
    <3>1. got' = got \o used
      BY <1>7 DEF Use
    <3> HIDE DEF used
    <3> QED BY <1>1, <2>2, <3>1, ConcatProperties
  <2>4. reader' \in Readers
    BY <1>1, <1>7 DEF Use, Readers
  <2> QED BY <1>1, <1>7, <2>3, <2>4 DEF Typed, Use, queue
<1>8. CASE Consume
  <2> DEFINE t    == tail + reader.n
             down == t > Size /\ head > Size
  <2>1. /\ tail' = IF down THEN t - Size ELSE t
        /\ head' = IF down THEN head - Size ELSE head
    BY <1>8 DEF Consume
  <2>0. t \in Nat
    BY <1>1
  <2> HIDE DEF t
  <2>4. head' \in Nat /\ tail' \in Nat
    BY <1>1, <2>0, <2>1
  <2>2. reader' \in Readers
    BY <1>1, <1>8 DEF Consume, Readers
  <2>3. dma' \in Cells
    BY <1>8, CriticalType DEF Consume
  <2> QED BY <1>1, <1>8, <2>2, <2>3, <2>4 DEF Typed, Consume
<1>9. CASE Enable
  <2>1. dma' \in Cells /\ 0 \in Nat
    BY <1>1, <1>9 DEF Enable, Started, Cells
  <2> QED BY <1>1, <1>9, <2>1 DEF Typed, Enable
<1>10. CASE Disable
  <2>1. dma' \in Cells
    BY <1>1, <1>10 DEF Disable, Cells
  <2> QED BY <1>1, <1>10, <2>1 DEF Typed, Disable, queue
<1>11. CASE PurgeRx
  <2>1. dma' \in Cells
    BY <1>1, <1>11 DEF PurgeRx, Cells
  <2> QED BY <1>1, <1>11, <2>1, EmptySeq DEF Typed, PurgeRx
<1>12. CASE UNCHANGED vars
  BY <1>1, <1>12 DEF Typed, vars
<1> QED BY <1>2, <1>3, <1>4, <1>5, <1>6, <1>7, <1>8, <1>9, <1>10, <1>11, <1>12
        DEF Next, DmaNext, ReaderNext
-----------------------------------------------------------------------------
LEMMA ReceiveKeeps ==
  ASSUME Typed, Safe, Receive, trouble' = {}
  PROVE  Safe'
<1> DEFINE next == dma.next
<1>1. /\ Places /\ Told /\ Given /\ Stored /\ Typed
      /\ enabled /\ dma.irq
  BY DEF Safe, Receive, Told
<1>2. /\ Behind \in 0 .. Size - 1 /\ Arrived \in Nat /\ Consumed \in Nat
      /\ Size \in Nat \ {0} /\ head - tail \in 0 .. Size - 1
      /\ head \in Nat /\ tail \in Nat /\ next \in 0 .. Size - 1
      /\ Behind = Arrived - Consumed - (head - tail)
  BY <1>1, HeadPlace, Sizes DEF Places, Typed, Behind, Cells
<1>3. /\ Consumed' = Consumed /\ Arrived' = Arrived + 1 /\ Behind' = Behind + 1
      /\ Arrived - Consumed < Size - 1 /\ received + 1 = base + (Arrived + 1)
  <2>1. /\ UNCHANGED <<got, reader, base, head, tail>> /\ received' = received + 1
        /\ received - base - Consumed < Size - 1
    BY DEF Receive, queue, Unread
  <2>2. Consumed' = Consumed
    BY <2>1 DEF Consumed
  <2>3. received \in Nat /\ base \in Nat
    BY <1>1 DEF Typed
  <2>4. Arrived' = Arrived + 1 /\ Arrived = received - base
    BY <2>1, <2>3 DEF Arrived
  <2>5. Behind' = Arrived' - Consumed' - (head - tail)
    BY <2>1 DEF Behind
  <2> QED BY <1>2, <2>1, <2>2, <2>3, <2>4, <2>5
<1>4. Size >= 2 /\ Half \in 1 .. Size - 1
  BY <1>2, <1>3, Sizes
<1>5. /\ Mask(next) = next /\ Mask(Arrived) = next
      /\ Mask(next + 1) = IF next + 1 < Size THEN next + 1 ELSE 0
      /\ Mask(Arrived + 1) = Mask(next + 1)
  <2>1. Mask(next) = next
    BY <1>2, MaskValue
  <2>2. Mask(Arrived) = next
    <3>1. next = Arrived % Size
      BY <1>1 DEF Places
    <3> QED BY <3>1 DEF Mask
  <2> HIDE DEF next
  <2>3. /\ 1 \in 0 .. Size /\ next \in Nat /\ Arrived \in Nat
    BY <1>2, <1>4
  <2>4. \A a \in Nat : Mask(a + 1) = IF Mask(a) + 1 < Size THEN Mask(a) + 1
                                     ELSE Mask(a) + 1 - Size
    BY <2>3, MaskValue
  <2>5. /\ Mask(next + 1) = IF Mask(next) + 1 < Size THEN Mask(next) + 1
                            ELSE Mask(next) + 1 - Size
        /\ Mask(Arrived + 1) = IF Mask(Arrived) + 1 < Size THEN Mask(Arrived) + 1
                               ELSE Mask(Arrived) + 1 - Size
    BY <2>3, <2>4
  <2> QED BY <1>2, <2>1, <2>2, <2>3, <2>5
<1>6. /\ dma'.next = IF next + 1 < Size THEN next + 1 ELSE 0
      /\ dma'.irq /\ dma'.held = dma.held
      /\ dma'.due = dma.due \cup (IF dma'.next = Half THEN {"half"}
                                  ELSE IF dma'.next = 0 THEN {"full"} ELSE {})
  <2>1. dma \in Cells
    BY <1>1 DEF Typed
  <2>2. (next + 1) % Size = IF next + 1 < Size THEN next + 1 ELSE 0
    BY <1>5 DEF Mask
  <2>3. dma' = [dma EXCEPT !.next = (next + 1) % Size,
                           !.due = @ \cup Raised((next + 1) % Size)]
    BY DEF Receive
  <2>4. Raised((next + 1) % Size) = IF (next + 1) % Size = Half THEN {"half"}
                                    ELSE IF (next + 1) % Size = 0 THEN {"full"} ELSE {}
    BY <1>1, <1>4 DEF Raised
  <2> QED BY <1>1, <2>1, <2>2, <2>3, <2>4 DEF Cells
<1>7. mem' \in [0 .. Size - 1 -> Nat] /\ mem' = [mem EXCEPT ![next] = base + (Arrived + 1)]
  <2>1. mem' = [mem EXCEPT ![next] = received + 1] /\ mem \in [0 .. Size - 1 -> Nat]
    BY <1>1 DEF Receive, Typed
  <2>2. received + 1 \in Nat
    BY <1>1 DEF Typed
  <2> QED BY <1>2, <1>3, <2>1, <2>2
<1>9. Places'
  <2>1. dma'.next = Arrived' % Size
    BY <1>3, <1>5, <1>6 DEF Mask
  <2>2. UNCHANGED <<head, tail>> /\ Mask(tail)' = Mask(tail)
    BY DEF Receive, queue, Mask
  <2> QED BY <1>1, <1>2, <1>3, <2>1, <2>2 DEF Places
<1>10. Told'
  <2>1. enabled' /\ dma'.irq /\ UNCHANGED <<head, tail, reader>>
    BY <1>1, <1>6 DEF Receive, queue
  <2>2. /\ "full" \notin dma.due => Behind <= next
        /\ "full" \in dma.due => Behind > next
        /\ dma.due = {"half"} => /\ next >= Half
                                 /\ Behind >= next - Half \/ dma.held
                                 /\ Arrived - Consumed - Pending >= next - Half
    BY <1>1 DEF Told, ToldHalf
  <2>3. /\ Pending \in Nat /\ Pending <= head - tail /\ Pending' = Pending
        /\ dma.due \in SUBSET {"half", "full"}
    <3>1. /\ reader.at \in {"use", "consume"} => reader.n \in 1 .. head - tail
          /\ dma.due \in SUBSET {"half", "full"}
      BY <1>1 DEF Given, Typed, Cells
    <3>2. Pending' = Pending
      BY <2>1 DEF Pending
    <3> QED BY <1>2, <3>1, <3>2 DEF Pending
  <2>4. Arrived - Consumed - Pending >= 0 /\ Behind + 1 \in 0 .. Size - 1
    BY <1>2, <1>3, <2>3
  <2> HIDE DEF next
  <2>5. "full" \notin dma'.due => Behind + 1 <= dma'.next
    BY <1>2, <1>4, <1>6, <2>2
  <2>6. "full" \in dma'.due => Behind + 1 > dma'.next
    <3>1. CASE next + 1 < Size
      <4>1. "full" \in dma'.due => "full" \in dma.due
        BY <1>2, <1>4, <1>6, <3>1
      <4> QED BY <1>2, <1>6, <2>2, <3>1, <4>1
    <3>2. CASE ~(next + 1 < Size)
      BY <1>2, <1>6, <3>2
    <3> QED BY <3>1, <3>2
  <2>7. dma'.due = {"half"} =>
          /\ dma'.next >= Half
          /\ Behind + 1 >= dma'.next - Half \/ dma'.held
          /\ Arrived + 1 - Consumed - Pending >= dma'.next - Half
    <3>1. CASE dma.due = {"half"}
      <4>1. dma'.due = {"half"} => dma'.next = next + 1
        BY <1>2, <1>4, <1>6
      <4> QED BY <1>2, <1>4, <1>6, <2>2, <2>3, <3>1, <4>1
    <3>2. CASE dma.due = {}
      <4>1. dma'.due = {"half"} => dma'.next = Half
        BY <1>6, <3>2
      <4> QED BY <1>2, <1>4, <2>3, <2>4, <4>1
    <3>3. CASE "full" \in dma.due
      BY <1>6, <3>3
    <3> QED BY <2>3, <3>1, <3>2, <3>3
  <2>9. /\ Behind' = Behind + 1 /\ Arrived' = Arrived + 1
        /\ Consumed' = Consumed /\ Pending' = Pending
    BY <1>3, <2>3
  <2>8. ToldHalf'
    <3> SUFFICES ASSUME dma'.due = {"half"}
                 PROVE  /\ dma'.next >= Half
                        /\ Behind' >= dma'.next - Half \/ dma'.held
                        /\ Arrived' - Consumed' - Pending' >= dma'.next - Half
      BY DEF ToldHalf
    <3>1. dma'.next >= Half
      BY <2>7
    <3>2. Behind' >= dma'.next - Half \/ dma'.held
      BY <2>7, <2>9
    <3>3. Arrived' - Consumed' - Pending' >= dma'.next - Half
      BY <1>2, <2>3, <2>7, <2>9
    <3> QED BY <3>1, <3>2, <3>3
  <2> QED BY <2>1, <2>5, <2>6, <2>8, <2>9 DEF Told
<1>11. Given'
  BY <1>1 DEF Given, Receive, queue, Mask
<1>12. Stored'
  <2>1. ASSUME NEW i \in 1 .. Arrived + 1, Arrived + 1 - Size < i
        PROVE  mem'[(i - 1) % Size] = base + i
    <3>1. CASE i = Arrived + 1
      <4>1. (i - 1) % Size = next
        BY <1>2, <1>5, <3>1 DEF Mask
      <4> QED BY <1>1, <1>2, <1>7, <3>1, <4>1 DEF Typed
    <3>2. CASE i # Arrived + 1
      <4> DEFINE j == i - 1
                 d == Arrived - j
      <4>1. j \in Nat /\ d \in 1 .. Size - 1 /\ d \in 0 .. Size /\ j + d = Arrived
            /\ i \in 1 .. Arrived /\ Arrived - Size < i
        BY <1>2, <2>1, <3>2
      <4> HIDE DEF j, d
      <4>2. Mask(j) \in 0 .. Size - 1
            /\ Mask(j + d) = IF Mask(j) + d < Size THEN Mask(j) + d ELSE Mask(j) + d - Size
        BY <4>1, MaskValue
      <4>3. Mask(j) # next /\ Mask(j) \in 0 .. Size - 1
        BY <1>2, <1>5, <4>1, <4>2
      <4>4. mem'[Mask(j)] = mem[Mask(j)]
        BY <1>1, <1>7, <4>3 DEF Typed
      <4>5. mem[Mask(j)] = base + i
        BY <1>1, <4>1 DEF Stored, Mask, j
      <4> QED BY <4>4, <4>5 DEF Mask, j
    <3> QED BY <3>1, <3>2
  <2>2. UNCHANGED <<base, got>>
    BY DEF Receive
  <2>3. \A i \in 1 .. Arrived' : Arrived' - Size < i => mem'[(i - 1) % Size] = base' + i
    <3> SUFFICES ASSUME NEW i \in 1 .. Arrived', Arrived' - Size < i
                 PROVE  mem'[(i - 1) % Size] = base' + i
      OBVIOUS
    <3>1. i \in 1 .. Arrived + 1 /\ Arrived + 1 - Size < i
      BY <1>2, <1>3
    <3>2. mem'[(i - 1) % Size] = base + i
      BY <2>1, <3>1
    <3> QED BY <2>2, <3>2
  <2>4. \A i \in 1 .. Len(got') : got'[i] = base' + i
    BY <1>1, <2>2 DEF Stored
  <2> QED BY <2>3, <2>4 DEF Stored
<1> QED BY <1>9, <1>10, <1>11, <1>12 DEF Safe
-----------------------------------------------------------------------------
(***************************************************************************)
(* The head is moved, not before the run in the reader's hands and not     *)
(* past the cell.                                                          *)
(***************************************************************************)
LEMMA HeadMoves ==
  ASSUME Typed, Safe, Typed', tail' = tail, NEW b \in 0 .. dma.next,
         head' = head + Behind - b, Arrived - Consumed - Pending >= b,
         dma'.next = dma.next, dma'.irq = dma.irq,
         \/ dma'.due = {}
         \/ dma'.due = dma.due /\ "full" \notin dma.due /\ dma'.held /\ b = 0,
         UNCHANGED <<enabled, mem, reader, base, received, got>>
  PROVE  Safe'
<1>1. Places /\ Told /\ Given /\ Stored
  BY DEF Safe
<1>2. /\ Behind \in 0 .. Size - 1 /\ Arrived \in Nat /\ Consumed \in Nat
      /\ Size \in Nat \ {0} /\ Half \in 0 .. Size - 1
      /\ head \in Nat /\ tail \in Nat /\ tail <= head /\ dma.next \in 0 .. Size - 1
      /\ Behind = Arrived - Consumed - (head - tail)
      /\ Pending \in Nat /\ Pending <= head - tail
  <2>1. /\ head \in Nat /\ tail \in Nat /\ dma.next \in 0 .. Size - 1 /\ reader.n \in Nat
    BY DEF Typed, Cells, Readers
  <2>2. Pending \in Nat /\ Pending <= head - tail
    BY <1>1, <2>1, HeadPlace DEF Given, Pending, Places
  <2> QED BY <1>1, <2>1, <2>2, HeadPlace, Sizes DEF Places, Behind
<1>3. Arrived' = Arrived /\ Consumed' = Consumed /\ Pending' = Pending
  BY DEF Arrived, Consumed, Pending
<1>4. Behind' = b /\ head' - tail' = Arrived - Consumed - b /\ head' \in Nat
  <2>1. Behind' = Arrived - Consumed - (head' - tail')
    BY <1>3 DEF Behind
  <2>2. head' \in Nat
    BY DEF Typed
  <2> QED BY <1>2, <2>1, <2>2
<1>5. Places'
  BY <1>1, <1>2, <1>3, <1>4 DEF Places, Mask
<1>6. Told'
  <2>1. enabled => dma.irq /\ ToldHalf
    BY <1>1 DEF Told
  <2>2. dma'.due # {} => enabled
    BY <1>1 DEF Told
  <2>3. enabled => ToldHalf'
    BY <1>2, <1>3, <1>4, <2>1 DEF ToldHalf
  <2>4. "full" \notin dma'.due
    OBVIOUS
  <2> QED BY <1>2, <1>4, <2>1, <2>2, <2>3, <2>4 DEF Told
<1>7. Given'
  <2>1. ASSUME reader.at \in {"use", "consume"}
        PROVE  reader.n \in 1 .. head' - tail'
    <3>1. reader.n \in 1 .. head - tail /\ Pending = reader.n
      BY <1>1, <2>1 DEF Given, Pending
    <3> QED BY <1>2, <1>4, <3>1
  <2> QED BY <1>1, <2>1 DEF Given, Mask
<1>8. Stored'
  BY <1>1, <1>3 DEF Stored
<1> QED BY <1>5, <1>6, <1>7, <1>8 DEF Safe

\* How far the head moves, when it is moved to place n of its lap.
LEMMA MovedValue ==
  ASSUME Typed, Places, NEW n \in 0 .. Size, NEW b \in Nat,
         Mask(head) + Behind - b = n, b <= Arrived - Consumed
  PROVE  /\ Moved(head, n) = head + Behind - b
         /\ Checked(head + Behind - b, tail) = tail
<1>1. /\ Behind \in 0 .. Size - 1 /\ Arrived \in Nat /\ Consumed \in Nat
      /\ Size \in Nat \ {0} /\ head \in Nat /\ tail \in Nat /\ tail <= head
      /\ Behind = Arrived - Consumed - (head - tail) /\ Arrived - Consumed < Size
  BY HeadPlace, Sizes DEF Places, Typed, Behind
<1>2. Mask(head) \in 0 .. Size - 1 /\ Unmask(head) = head - Mask(head)
  BY <1>1, MaskValue
<1>3. Moved(head, n) = head + Behind - b
  BY <1>1, <1>2 DEF Moved
<1>4. /\ head + Behind - b \in Nat /\ tail <= head + Behind - b
      /\ head + Behind - b - tail <= Size
  BY <1>1
<1>5. Checked(head + Behind - b, tail) = tail
  BY <1>1, <1>4, DistanceValue
<1> QED BY <1>3, <1>5

LEMMA InterruptKeeps ==
  ASSUME Typed, Safe, Typed', HalfInterrupt \/ FullInterrupt
  PROVE  Safe'
<1>1. Places /\ Told /\ Given
  BY DEF Safe
<1>2. /\ Behind \in 0 .. Size - 1 /\ Size \in Nat \ {0} /\ Half \in 0 .. Size - 1
      /\ dma.next = IF Mask(head) + Behind < Size THEN Mask(head) + Behind
                    ELSE Mask(head) + Behind - Size
      /\ head \in Nat /\ Mask(head) \in 0 .. Size - 1 /\ dma.next \in 0 .. Size - 1
      /\ Mask(Half) = Half /\ Mask(Size) = 0 /\ Half \in 0 .. Size /\ Size \in 0 .. Size
  <2>1. head \in Nat /\ dma.next \in 0 .. Size - 1 /\ Size \in Nat \ {0}
        /\ Half \in 0 .. Size - 1
    BY Sizes DEF Typed, Cells
  <2>2. Mask(head) \in 0 .. Size - 1 /\ Mask(Half) = Half /\ Mask(Size) = 0
    BY <2>1, MaskValue
  <2>3. Half \in 0 .. Size /\ Size \in 0 .. Size
    BY <2>1
  <2> QED BY <1>1, <2>1, <2>2, <2>3, HeadPlace
<1>3. /\ Arrived - Consumed - Pending >= Behind
      /\ Arrived \in Nat /\ Consumed \in Nat /\ Pending \in Nat
  <2>1. /\ Arrived \in Nat /\ Consumed \in Nat /\ tail \in Nat /\ tail <= head
        /\ Behind = Arrived - Consumed - (head - tail) /\ reader.n \in Nat
    BY <1>1, HeadPlace DEF Typed, Places, Behind, Readers
  <2>2. Pending \in Nat /\ Pending <= head - tail
    BY <1>1, <1>2, <2>1 DEF Given, Pending
  <2> QED BY <1>2, <2>1, <2>2
<1>4. PICK n \in 0 .. Size, b \in 0 .. dma.next :
        /\ Interrupt(n)
        /\ Arrived - Consumed - Pending >= b
        /\ Mask(head) = Mask(n) => b = Behind
        /\ Mask(head) # Mask(n) => Mask(head) + Behind - b = n
  <2>1. CASE HalfInterrupt
    <3>1. /\ Interrupt(Half) /\ dma.next >= Half /\ Behind <= dma.next
          /\ Arrived - Consumed - Pending >= dma.next - Half
      BY <1>1, <2>1 DEF HalfInterrupt, Told, ToldHalf
    <3>2. Mask(head) + Behind = dma.next
      BY <1>2, <3>1
    <3>3. CASE Mask(head) = Mask(Half)
      <4>1. Behind \in 0 .. dma.next
        BY <1>2, <3>1
      <4> QED BY <1>2, <1>3, <3>1, <3>3, <4>1
    <3>4. CASE Mask(head) # Mask(Half)
      <4>1. dma.next - Half \in 0 .. dma.next /\ Mask(head) + Behind - (dma.next - Half) = Half
        BY <1>2, <3>1, <3>2
      <4> QED BY <1>2, <3>1, <3>4, <4>1
    <3> QED BY <3>3, <3>4
  <2>2. CASE FullInterrupt
    <3>1. Interrupt(Size) /\ Behind > dma.next
      BY <1>1, <2>2 DEF FullInterrupt, Told
    <3>2. Mask(head) + Behind - dma.next = Size /\ Mask(head) # Mask(Size)
      BY <1>2, <3>1
    <3>3. dma.next \in 0 .. dma.next /\ Arrived - Consumed - Pending >= dma.next
      BY <1>2, <1>3, <3>1
    <3> QED BY <1>2, <3>1, <3>2, <3>3
  <2> QED BY <2>1, <2>2
<1>5. head' = head + Behind - b /\ tail' = tail
  <2>1. CASE Mask(head) = Mask(n)
    BY <1>2, <1>4, <2>1 DEF Interrupt, queue
  <2>2. CASE Mask(head) # Mask(n)
    <3>1. /\ Moved(head, n) = head + Behind - b
          /\ Checked(head + Behind - b, tail) = tail
      <4>1. b \in Nat /\ b <= Arrived - Consumed
        BY <1>2, <1>3, <1>4
      <4> QED BY <1>1, <1>4, <2>2, <4>1, MovedValue
    <3> QED BY <1>4, <2>2, <3>1 DEF Interrupt
  <2> QED BY <2>1, <2>2
<1>6. /\ dma'.next = dma.next /\ dma'.irq = dma.irq /\ dma'.due = {}
      /\ UNCHANGED <<enabled, mem, reader, base, received, got>>
  BY <1>4 DEF Interrupt, Typed, Cells
<1> QED BY <1>4, <1>5, <1>6, HeadMoves

LEMMA CollectKeeps ==
  ASSUME Typed, Safe, Typed', Collect, trouble' = {}
  PROVE  Safe'
<1>1. Places /\ Told /\ Given
  BY DEF Safe
<1>2. /\ Behind \in 0 .. Size - 1 /\ Size \in Nat \ {0}
      /\ dma.next = IF Mask(head) + Behind < Size THEN Mask(head) + Behind
                    ELSE Mask(head) + Behind - Size
      /\ head \in Nat /\ Mask(head) \in 0 .. Size - 1 /\ dma.next \in 0 .. Size - 1
      /\ dma.next \in 0 .. Size
  <2>1. head \in Nat /\ dma.next \in 0 .. Size - 1 /\ Size \in Nat \ {0}
    BY Sizes DEF Typed, Cells
  <2>2. Mask(head) \in 0 .. Size - 1
    BY <2>1, MaskValue
  <2>3. dma.next \in 0 .. Size
    BY <2>1
  <2> QED BY <1>1, <2>1, <2>2, <2>3, HeadPlace
<1>3. enabled /\ Mask(head) # dma.next /\ ~(Mask(head) >= dma.next)
  BY DEF Collect
<1>4. Mask(head) + Behind = dma.next /\ "full" \notin dma.due
  <2>1. Mask(head) + Behind = dma.next
    BY <1>2, <1>3
  <2>2. Behind <= dma.next
    BY <1>2, <2>1
  <2> QED BY <1>1, <1>2, <1>3, <2>1, <2>2 DEF Told
<1>5. /\ Arrived - Consumed - Pending >= 0 /\ 0 <= Arrived - Consumed
  <2>1. /\ Arrived \in Nat /\ Consumed \in Nat /\ tail \in Nat /\ tail <= head
        /\ Behind = Arrived - Consumed - (head - tail) /\ reader.n \in Nat
    BY <1>1, HeadPlace DEF Typed, Places, Behind, Readers
  <2>2. Pending \in Nat /\ Pending <= head - tail
    BY <1>1, <1>2, <2>1 DEF Given, Pending
  <2> QED BY <1>2, <2>1, <2>2
<1>6. /\ Moved(head, dma.next) = head + Behind - 0
      /\ Checked(head + Behind - 0, tail) = tail
  <2>1. 0 \in Nat /\ Mask(head) + Behind - 0 = dma.next
    BY <1>2, <1>4
  <2> QED BY <1>1, <1>2, <1>5, <2>1, MovedValue
<1>7. head' = head + Behind - 0 /\ tail' = tail
  BY <1>3, <1>6 DEF Collect
<1>8. UNCHANGED <<enabled, mem, reader, base, received, got>>
  BY DEF Collect
<1>9. /\ dma'.next = dma.next /\ dma'.irq = dma.irq /\ dma'.due = dma.due
      /\ dma'.held = (dma.due # {}) /\ 0 \in 0 .. dma.next
  BY <1>2, CriticalType DEF Collect
<1>10. CASE dma.due = {}
  BY <1>5, <1>7, <1>8, <1>9, <1>10, HeadMoves
<1>11. CASE dma.due # {}
  BY <1>4, <1>5, <1>7, <1>8, <1>9, <1>11, HeadMoves
<1> QED BY <1>10, <1>11
-----------------------------------------------------------------------------
\* The reader.
LEMMA LookKeeps ==
  ASSUME Typed, Safe, Typed', Wake \/ GetReadPointer
  PROVE  Safe'
<1>1. Typed /\ Places /\ Told /\ Given /\ Stored
  BY DEF Safe
<1>2. /\ UNCHANGED <<head, enabled, mem, base, received, got>>
      /\ reader.at \in {"wait", "look"}
      /\ dma'.next = dma.next /\ dma'.irq = dma.irq /\ dma'.due = dma.due /\ ~dma.held
  <2>1. CASE Wake
    BY <2>1 DEF Wake, queue
  <2>2. CASE GetReadPointer
    BY <2>2, CriticalType DEF GetReadPointer, Critical
  <2> QED BY <2>1, <2>2
<1>3. /\ Run(head, tail) \in 0 .. head - tail /\ Run(head, tail) \in Nat
      /\ Mask(tail) \in Nat /\ Mask(tail) + Run(head, tail) <= Size
      /\ Checked(head, tail) = tail
  BY <1>1, RunValue, HeadPlace DEF Typed
<1>4. tail' = tail
  BY <1>3 DEF Wake, GetReadPointer, queue
<1>5. \/ reader'.at \in {"wait", "look"}
      \/ /\ reader'.at = "use" /\ reader'.n = Run(head, tail) /\ reader'.n # 0
         /\ reader'.from = Mask(tail)
  <2>1. CASE Wake
    BY <1>1, <2>1 DEF Wake, Typed, Readers
  <2>2. CASE GetReadPointer
    BY <1>1, <1>3, <2>2 DEF GetReadPointer, Typed, Readers
  <2> QED BY <2>1, <2>2
<1>6. Consumed' = Consumed /\ Arrived' = Arrived
  BY <1>2, <1>5 DEF Consumed, Arrived
<1>7. Behind' = Behind
  BY <1>2, <1>4, <1>6 DEF Behind
<1>8. Places' /\ Stored'
  BY <1>1, <1>2, <1>4, <1>6, <1>7 DEF Places, Stored, Mask
<1>9. Given'
  BY <1>2, <1>3, <1>4, <1>5 DEF Given, Mask
<1>10. ToldHalf \/ ~enabled
  BY <1>1 DEF Told
<1>11. enabled => ToldHalf'
  <2> SUFFICES ASSUME enabled, dma.due = {"half"}
               PROVE  /\ dma.next >= Half
                      /\ Behind >= dma.next - Half
                      /\ Arrived - Consumed - Pending' >= dma.next - Half
    BY <1>2, <1>6, <1>7 DEF ToldHalf
  <2>1. /\ dma.next >= Half /\ Behind >= dma.next - Half
        /\ dma.next \in Nat /\ Half \in Nat
    BY <1>1, <1>2, <1>10, Sizes DEF ToldHalf, Typed, Cells
  <2>2. Pending' \in 0 .. head - tail
    <3>1. head - tail \in Nat
      BY <1>1, HeadPlace
    <3> QED BY <1>3, <1>5, <3>1 DEF Pending
  <2>3. /\ Behind = Arrived - Consumed - (head - tail)
        /\ Arrived \in Nat /\ Consumed \in Nat /\ head \in Nat /\ tail \in Nat
    BY <1>1, HeadPlace DEF Behind, Places, Typed
  <2> QED BY <2>1, <2>2, <2>3
<1>12. Told'
  BY <1>1, <1>2, <1>7, <1>11 DEF Told
<1> QED BY <1>8, <1>9, <1>12 DEF Safe

LEMMA UseKeeps ==
  ASSUME Typed, Safe, Typed', Use
  PROVE  Safe'
<1> DEFINE n    == reader.n
           used == [i \in 1 .. n |-> Cell(reader.from + i - 1)]
           k    == Len(got)
<1>1. Typed /\ Places /\ Told /\ Given /\ Stored
  BY DEF Safe
<1>2. /\ UNCHANGED <<head, tail, enabled, dma, mem, base, received>>
      /\ reader.at = "use" /\ got' = got \o used
      /\ reader' = [reader EXCEPT !.at = "consume"]
  BY DEF Use, queue
<1>3. /\ Size \in Nat \ {0} /\ head \in Nat /\ tail \in Nat /\ base \in Nat
      /\ k \in Nat /\ Consumed = k /\ got \in Seq(Nat)
      /\ Arrived \in Nat /\ Behind \in 0 .. Size - 1
      /\ Behind = Arrived - Consumed - (head - tail)
      /\ Arrived - Consumed < Size
  <2>1. got \in Seq(Nat) /\ head \in Nat /\ tail \in Nat /\ base \in Nat
    BY <1>1 DEF Typed
  <2>2. k \in Nat
    BY <2>1
  <2>3. Consumed = k
    BY <1>2, <2>2 DEF Consumed
  <2>4. Arrived \in Nat /\ Behind \in 0 .. Size - 1 /\ Size \in Nat \ {0}
    BY <1>1, HeadPlace, Sizes
  <2>5. Behind = Arrived - Consumed - (head - tail) /\ Arrived - Consumed < Size
    BY <1>1 DEF Places, Behind
  <2> QED BY <2>1, <2>2, <2>3, <2>4, <2>5
<1>4. /\ n \in 1 .. head - tail /\ n \in Nat
      /\ reader.from = Mask(tail) /\ reader.from + n <= Size
  BY <1>1, <1>2 DEF Given, Typed, Readers
<1>5. Mask(tail) = Mask(k) /\ Mask(tail) \in 0 .. Size - 1
  <2>1. Mask(tail) = Mask(Consumed)
    BY <1>1 DEF Places, Mask
  <2> QED BY <1>3, <2>1, MaskValue
<1> HIDE DEF n, k
<1>6. ASSUME NEW i \in 1 .. n
      PROVE  Cell(reader.from + i - 1) = base + (k + i)
  <2> DEFINE d == i - 1
             p == Mask(tail) + d
  <2>1. d \in 0 .. Size /\ p < Size /\ p \in 0 .. Size - 1 /\ reader.from + i - 1 = p
        /\ k + i - 1 = k + d
    BY <1>3, <1>4, <1>5
  <2> HIDE DEF d
  <2>2. Mask(k + d) = p
    <3>1. Mask(k + d) = IF Mask(k) + d < Size THEN Mask(k) + d ELSE Mask(k) + d - Size
      BY <1>3, <2>1, MaskValue
    <3> QED BY <1>5, <2>1, <3>1
  <2>3. k + i \in 1 .. Arrived /\ Arrived - Size < k + i
    <3>1. Arrived - k >= head - tail /\ Arrived - k < Size /\ head - tail \in Int
      BY <1>3
    <3>2. i >= 1 /\ i <= head - tail /\ i \in Int
      BY <1>3, <1>4
    <3> QED BY <1>3, <3>1, <3>2
  <2>4. mem[p] = base + (k + i)
    <3>1. PICK e \in 1 .. Arrived : e = k + i
      BY <2>3
    <3>2. e - 1 = k + d /\ Arrived - Size < e
      <4>1. k \in Nat /\ e \in Nat /\ i \in Nat /\ e - 1 = k + i - 1
        BY <1>3, <1>4, <3>1
      <4> QED BY <2>1, <2>3, <3>1, <4>1
    <3>3. mem[Mask(e - 1)] = base + e
      BY <1>1, <3>2 DEF Stored, Mask
    <3>4. Mask(e - 1) = p
      BY <2>2, <3>2
    <3> QED BY <3>1, <3>3, <3>4
  <2> QED BY <2>1, <2>4 DEF Cell
<1>7. used \in Seq(Nat) /\ Len(used) = n /\ \A i \in 1 .. n : used[i] = base + (k + i)
  <2>1. \A i \in 1 .. n : Cell(reader.from + i - 1) \in Nat
    BY <1>3, <1>4, <1>6
  <2> QED BY <1>4, <1>6, <2>1
<1> HIDE DEF used
<1>8. /\ got' \in Seq(Nat) /\ Len(got') = k + n
      /\ \A i \in 1 .. k + n : got'[i] = IF i <= k THEN got[i] ELSE used[i - k]
  <2>1. used \in Seq(Nat) /\ got \in Seq(Nat)
    BY <1>3, <1>7
  <2>2. /\ got \o used \in Seq(Nat) /\ Len(got \o used) = Len(got) + Len(used)
        /\ \A i \in 1 .. Len(got) + Len(used) :
             (got \o used)[i] = IF i <= Len(got) THEN got[i] ELSE used[i - Len(got)]
    BY <2>1, ConcatProperties
  <2> QED BY <1>2, <1>7, <2>2 DEF k
<1>9. \A i \in 1 .. Len(got') : got'[i] = base + i
  <2>1. ASSUME NEW i \in 1 .. k + n
        PROVE  got'[i] = base + i
    <3>1. CASE i <= k
      <4>1. i \in 1 .. Len(got)
        BY <1>3, <1>4, <3>1 DEF k
      <4> QED BY <1>1, <1>8, <3>1, <4>1 DEF Stored
    <3>2. CASE ~(i <= k)
      <4>1. i - k \in 1 .. n /\ k + (i - k) = i
        BY <1>3, <1>4, <3>2
      <4>2. used[i - k] = base + (k + (i - k))
        BY <1>7, <4>1
      <4> QED BY <1>8, <3>2, <4>1, <4>2
    <3> QED BY <3>1, <3>2
  <2> QED BY <1>8, <2>1
<1>10. reader'.at = "consume" /\ reader'.n = n /\ reader'.from = reader.from
  BY <1>1, <1>2 DEF Typed, Readers, n
<1>11. Consumed' = Consumed /\ Arrived' = Arrived
  <2>1. Consumed' = Len(got') - n
    BY <1>10 DEF Consumed
  <2> QED BY <1>2, <1>3, <1>4, <1>8, <2>1 DEF Arrived
<1>12. Behind' = Behind
  BY <1>2, <1>11 DEF Behind
<1>13. Places'
  BY <1>1, <1>2, <1>11, <1>12 DEF Places, Mask
<1>16. Told'
  <2>1. Pending' = Pending
    BY <1>2, <1>10 DEF Pending, n
  <2> QED BY <1>1, <1>2, <1>11, <1>12, <2>1 DEF Told, ToldHalf
<1>14. Given'
  BY <1>2, <1>4, <1>10 DEF Given, Mask
<1>15. Stored'
  BY <1>1, <1>2, <1>9, <1>11 DEF Stored
<1> QED BY <1>13, <1>14, <1>15, <1>16 DEF Safe

LEMMA ConsumeKeeps ==
  ASSUME Typed, Safe, Typed', Consume
  PROVE  Safe'
<1> DEFINE n == reader.n
<1>1. Typed /\ Places /\ Told /\ Given /\ Stored
  BY DEF Safe
<1>2. /\ UNCHANGED <<enabled, mem, base, received, got>>
      /\ reader.at = "consume" /\ reader' = [reader EXCEPT !.at = "look"]
      /\ dma'.next = dma.next /\ dma'.irq = dma.irq /\ dma'.due = dma.due
      /\ dma'.held = (dma.due # {})
  BY CriticalType DEF Consume
<1>3. /\ Size \in Nat \ {0} /\ head \in Nat /\ tail \in Nat /\ tail <= Size
      /\ Consumed = Len(got) - n /\ Consumed \in Nat /\ Len(got) \in Nat
      /\ Arrived \in Nat /\ Behind = Arrived - Consumed - (head - tail) /\ Behind >= 0
      /\ Arrived - Consumed < Size /\ head - tail \in 0 .. Size - 1
  <2>1. got \in Seq(Nat) /\ head \in Nat /\ tail \in Nat /\ n \in Nat
    BY <1>1 DEF Typed, Readers
  <2>2. Len(got) \in Nat /\ Consumed = Len(got) - n
    BY <1>2, <2>1 DEF Consumed
  <2>3. /\ Arrived \in Nat /\ Size \in Nat \ {0} /\ head - tail \in 0 .. Size - 1
    BY <1>1, HeadPlace, Sizes
  <2>4. /\ Behind = Arrived - Consumed - (head - tail) /\ Behind >= 0 /\ tail <= Size
        /\ Arrived - Consumed < Size /\ Consumed \in Nat
    BY <1>1 DEF Places, Behind
  <2> QED BY <2>1, <2>2, <2>3, <2>4
<1>4. /\ n \in 1 .. head - tail /\ n \in Nat /\ n \in 0 .. Size
  <2>1. n \in 1 .. head - tail
    BY <1>1, <1>2 DEF Given
  <2> HIDE DEF n
  <2> QED BY <1>3, <2>1
<1>5. Consumed' = Len(got) /\ Arrived' = Arrived /\ reader'.at = "look"
  <2>1. reader \in Readers
    BY <1>1 DEF Typed
  <2>2. reader'.at = "look"
    BY <1>2, <2>1 DEF Readers
  <2>3. Arrived' = Arrived
    BY <1>2 DEF Arrived
  <2>4. Consumed' = Len(got)
    BY <1>1, <1>2, <2>2 DEF Consumed, Typed
  <2> QED BY <2>2, <2>3, <2>4
<1>15. Pending = n /\ Pending' = 0
  BY <1>2, <1>5 DEF Pending
<1> HIDE DEF n
<1>6. Consumed' = Consumed + n /\ Consumed' \in Nat
  BY <1>3, <1>4, <1>5
<1>7. /\ tail' \in Nat /\ head' \in Nat /\ tail' <= Size /\ tail' <= head'
      /\ head' - tail' = head - tail - n
      /\ tail' = tail + n \/ (tail' = tail + n - Size /\ tail + n > Size)
  <2> DEFINE t    == tail + n
             down == t > Size /\ head > Size
  <2>1. /\ tail' = IF down THEN t - Size ELSE t
        /\ head' = IF down THEN head - Size ELSE head
    BY DEF Consume, n
  <2>2. t > Size => head > Size
    BY <1>3, <1>4
  <2> QED BY <1>3, <1>4, <2>1, <2>2
<1>8. Mask(tail') = Mask(tail + n)
  <2>1. CASE tail' = tail + n
    BY <2>1
  <2>2. CASE tail' = tail + n - Size /\ tail + n > Size
    <3>1. /\ Size \in 0 .. Size /\ tail' + Size = tail + n
          /\ Mask(tail') \in 0 .. Size - 1
      <4>1. Size \in 0 .. Size /\ tail' + Size = tail + n
        BY <1>3, <1>4, <1>7, <2>2
      <4> QED BY <1>7, <4>1, MaskValue
    <3>2. Mask(tail' + Size) = IF Mask(tail') + Size < Size THEN Mask(tail') + Size
                               ELSE Mask(tail') + Size - Size
      BY <1>7, <3>1, MaskValue
    <3> QED BY <1>3, <3>1, <3>2
  <2> QED BY <1>7, <2>1, <2>2
<1>9. Mask(Consumed + n) = Mask(tail + n)
  <2>1. Mask(Consumed) = Mask(tail)
    BY <1>1 DEF Places, Mask
  <2>2. /\ Mask(Consumed + n) = IF Mask(Consumed) + n < Size THEN Mask(Consumed) + n
                                ELSE Mask(Consumed) + n - Size
        /\ Mask(tail + n) = IF Mask(tail) + n < Size THEN Mask(tail) + n
                            ELSE Mask(tail) + n - Size
    BY <1>3, <1>4, MaskValue
  <2> QED BY <2>1, <2>2
<1>10. Behind' = Behind /\ Arrived' - Consumed' < Size
  <2>1. Behind' = Arrived' - Consumed' - (head' - tail')
    BY DEF Behind
  <2>2. /\ Arrived' - Consumed' = Arrived - Consumed - n
        /\ Arrived - Consumed \in Int /\ n \in Nat /\ head - tail \in Int
    BY <1>3, <1>4, <1>5, <1>6
  <2>3. Behind' = Arrived - Consumed - n - (head - tail - n)
    BY <1>7, <2>1, <2>2
  <2> QED BY <1>3, <2>2, <2>3
<1>12. Places'
  <2>1. Mask(tail)' = Consumed' % Size
    BY <1>6, <1>8, <1>9 DEF Mask
  <2> QED BY <1>1, <1>2, <1>3, <1>5, <1>6, <1>7, <1>10, <2>1 DEF Places
<1>13. Told'
  <2>1. Arrived' - Consumed' - Pending' = Arrived - Consumed - Pending
    BY <1>3, <1>4, <1>5, <1>6, <1>15
  <2>2. enabled => ToldHalf
    BY <1>1 DEF Told
  <2>3. enabled => ToldHalf'
    BY <1>2, <1>10, <2>1, <2>2 DEF ToldHalf
  <2> QED BY <1>1, <1>2, <1>10, <2>3 DEF Told
<1>14. Given' /\ Stored'
  BY <1>1, <1>2, <1>5 DEF Given, Stored
<1> QED BY <1>12, <1>13, <1>14 DEF Safe
-----------------------------------------------------------------------------
\* Switching on and off.
LEMMA EnableKeeps ==
  ASSUME Typed, Typed', Enable
  PROVE  Safe'
<1>2. Size \in Nat \ {0} /\ 0 \in 0 .. Size - 1 /\ 0 % Size = 0 /\ Half \in Nat
  BY Sizes, SmallRemainder
<1>3. /\ head' = 0 /\ tail' = 0 /\ enabled' = TRUE /\ base' = received /\ got' = <<>>
      /\ dma'.next = 0 /\ dma'.irq /\ dma'.due = {}
      /\ UNCHANGED <<mem, reader, received>> /\ reader.at = "wait"
  BY DEF Enable, Started
<1>4. Arrived' = 0 /\ Consumed' = 0
  BY <1>3 DEF Arrived, Consumed, Typed
<1>5. Behind' = 0
  BY <1>3, <1>4 DEF Behind
<1>6. Places'
  BY <1>2, <1>3, <1>4, <1>5 DEF Places, Mask
<1>7. Told'
  BY <1>2, <1>3, <1>5 DEF Told, ToldHalf
<1>8. Given' /\ Stored'
  BY <1>3, <1>4 DEF Given, Stored
<1> QED BY <1>6, <1>7, <1>8 DEF Safe

LEMMA DisableKeeps ==
  ASSUME Typed, Safe, Typed', Disable
  PROVE  Safe'
<1>1. Places /\ Told /\ Given /\ Stored
  BY DEF Safe
<1>2. /\ UNCHANGED <<head, tail, mem, reader, base, received, got>>
      /\ enabled' = FALSE /\ dma' = [dma EXCEPT !.irq = FALSE, !.due = {}]
  BY DEF Disable, queue
<1>3. dma'.next = dma.next /\ dma'.due = {}
  BY <1>2 DEF Typed, Cells
<1>4. Arrived' = Arrived /\ Consumed' = Consumed
  BY <1>2 DEF Arrived, Consumed
<1>5. Behind' = Behind
  BY <1>2, <1>4 DEF Behind
<1> QED BY <1>1, <1>2, <1>3, <1>4, <1>5
     DEF Safe, Places, Told, Given, Stored, Mask

LEMMA StepKeeps ==
  ASSUME IInv, [Next]_vars
  PROVE  IInv'
<1>1. Typed /\ Typed'
  BY TypeKept DEF IInv
<1> SUFFICES ASSUME trouble' = {}
             PROVE  Safe'
  BY <1>1 DEF IInv
<1>2. CASE Enable
  BY <1>1, <1>2, EnableKeeps
<1>3. ~PurgeRx
  BY DEF PurgeRx
<1>4. CASE ~Enable
  <2>1. trouble \subseteq trouble'
    <3>1. CASE DmaNext \/ Collect
      BY <3>1 DEF DmaNext, Receive, HalfInterrupt, FullInterrupt, Interrupt, Collect
    <3>2. CASE ReaderNext \/ Disable \/ UNCHANGED vars
      BY <3>2 DEF ReaderNext, Wake, GetReadPointer, Use, Consume, Disable, vars
    <3> QED BY <1>3, <1>4, <3>1, <3>2 DEF Next
  <2>2. Safe
    BY <2>1 DEF IInv
  <2>3. CASE UNCHANGED vars
    <3>1. UNCHANGED <<head, tail, enabled, dma, mem, reader, base, received, got>>
      BY <2>3 DEF vars
    <3>2. UNCHANGED <<Arrived, Consumed, Pending>>
      BY <3>1 DEF Arrived, Consumed, Pending
    <3>3. UNCHANGED Behind
      BY <3>1, <3>2 DEF Behind
    <3> QED BY <2>2, <3>1, <3>2, <3>3
         DEF Safe, Places, Told, ToldHalf, Given, Stored, Mask
  <2> QED BY <1>1, <1>3, <1>4, <2>2, <2>3, ReceiveKeeps, InterruptKeeps, CollectKeeps,
             LookKeeps, UseKeeps, ConsumeKeeps, DisableKeeps DEF Next, DmaNext, ReaderNext
<1> QED BY <1>2, <1>4
-----------------------------------------------------------------------------
(***************************************************************************)
(* The reader gets every byte once and in order, for any size of the       *)
(* buffer, any number of bytes and any interleaving of the timer, the two  *)
(* interrupts and the reader: until the timer sees the cell step over the  *)
(* end of the buffer before the full interrupt is served, a whole buffer   *)
(* is left unread, or purgeRx() is called.                                 *)
(***************************************************************************)
THEOREM EveryByteInOrder == Spec => []ReadInOrder
<1>1. Init => IInv
  BY InitHolds
<1>2. IInv /\ [Next]_vars => IInv'
  BY StepKeeps
<1>3. IInv => ReadInOrder
  BY DEF IInv, Safe, Stored, ReadInOrder
<1> QED BY <1>1, <1>2, <1>3, PTL DEF Spec

(***************************************************************************)
(* Until one of the same three neither index leaves the first two laps and *)
(* the head is never behind the tail: what consume() takes off keeps the   *)
(* 32-bit indexes from wrapping, and CHECK_OVERFLOW finds nothing.  The    *)
(* first of the three is where checkForNewData() finds an overflow that is *)
(* none (lnSerialRxTxDma.cpp:264).                                         *)
(***************************************************************************)
IndexesStayLow ==
  trouble = {} => tail \in 0 .. Size /\ head - tail \in 0 .. Size - 1

THEOREM IndexesNeverWrap == Spec => []IndexesStayLow
<1>1. Init => IInv
  BY InitHolds
<1>2. IInv /\ [Next]_vars => IInv'
  BY StepKeeps
<1>3. ASSUME IInv PROVE IndexesStayLow
  BY <1>3, HeadPlace DEF IInv, Safe, Typed, Places, IndexesStayLow
<1> QED BY <1>1, <1>2, <1>3, PTL DEF Spec
=============================================================================
