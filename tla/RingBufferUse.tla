--------------------------- MODULE RingBufferUse ---------------------------
(***************************************************************************)
(* One lnRingBuffer, its operations called in every order, against the     *)
(* bounded queue it stands for.                                            *)
(***************************************************************************)
EXTENDS RingBuffer

CONSTANTS
  Bytes,   \* the bytes that are queued
  MaxPut   \* bound: bytes of one put() or get()

VARIABLES
  object, \* the ring buffer
  last    \* the last put() or get(): its bytes, and what put() returned

ringVars == <<object, last>>

RingInit == last = <<"none", <<>>>> /\ \E b \in Bytes : object = NewRing(b)

Data == UNION {[1 .. n -> Bytes] : n \in 0 .. MaxPut}

PutData(data) ==
  /\ object' = Put(object, Len(data), data)
  /\ last' = <<"put", data, PutDone(object, Len(data), data)>>
GetData(n) ==
  LET g == Get(object, n) IN object' = g.ring /\ last' = <<"get", g.data>>

\* A reader that took its bytes through getReadPointer.
ConsumeRun(n) ==
  /\ n <= ReadRun(object) /\ object' = Consume(object, n)
  /\ UNCHANGED last

Flush == object' = [object EXCEPT !.head = 0, !.tail = 0] /\ UNCHANGED last

RingNext ==
  \/ \E data \in Data : PutData(data)
  \/ \E n \in 0 .. MaxPut : GetData(n) \/ ConsumeRun(n)
  \/ Flush

RingSpec == RingInit /\ [][RingNext]_ringVars
-----------------------------------------------------------------------------
RingTypeOK ==
  /\ object \in [head : Indices, tail : Indices, buf : [Indices -> Bytes]]
  /\ last[2] \in Seq(Bytes)

(***************************************************************************)
(* The runs the pointers offer are usable: a reader or writer that asks    *)
(* for a run gets one whenever there is a byte to read or a free place,    *)
(* it lies within the buffer, and it holds no more than there is.  (The    *)
(* DMA is given the read run, put() copies into the write run.)            *)
(***************************************************************************)
RunsFit ==
  /\ ReadRun(object) <= Count(object) /\ WriteRun(object) <= Free(object)
  /\ object.tail + ReadRun(object) <= Size /\ object.head + WriteRun(object) <= Size
  /\ (ReadRun(object) = 0) = Empty(object) /\ (WriteRun(object) = 0) = Full(object)
  /\ Empty(object) = (Count(object) = 0) /\ Full(object) = (Free(object) = 0)

(***************************************************************************)
(* Used in any order, the ring buffer is a bounded queue: put() accepts    *)
(* the longest prefix that fits, wherever head and tail are, get() returns *)
(* the oldest bytes, and no byte is changed in between.                    *)
(***************************************************************************)
Queue == INSTANCE ByteQueue WITH Capacity <- Size - 1,
                                queue <- Contents(object)
QueueSpec == Queue!Spec
=============================================================================
