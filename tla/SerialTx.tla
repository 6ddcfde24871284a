------------------------------ MODULE SerialTx ------------------------------
(***************************************************************************)
(* The buffered serial transmitter over DMA                                *)
(* (mcus/common_bluepill/lnSerialTxOnlyDmaBuffer.cpp; rp_serial.cpp has    *)
(* the same design).  Tasks put bytes in a ring buffer; the DMA reads the  *)
(* ring's own memory, one contiguous run at a time; the transfer-complete  *)
(* interrupt frees the run, wakes a task that waits for room and starts    *)
(* the next run.                                                           *)
(*                                                                         *)
(* A turn of transmit()'s loop is one critical section, igniteTx included, *)
(* and one action.  The DMA is the hardware: it moves a byte at any time.  *)
(* The interrupt handler runs to its end between two actions of the tasks. *)
(* Bytes are numbered in the order the ring buffer accepts them.           *)
(***************************************************************************)
EXTENDS RingBuffer

CONSTANTS
  Tasks,          \* tasks that transmit
  WithCallback,   \* setCallback() was called: _cb is not NULL
  FreshTxing,     \* what new may leave in _txing, which no code initialises
  MaxCall,        \* bound: bytes of one call
  MaxBytes        \* bound: bytes of all calls together

ASSUME SerialAssumption ==
  /\ Size > 1     \* a ring of one byte would have no room at all
  /\ WithCallback \in BOOLEAN /\ FreshTxing \subseteq BOOLEAN
  /\ MaxCall \in Nat /\ MaxBytes \in Nat

VARIABLES
  ring,      \* _txRingBuffer
  txing,     \* _txing
  inFlight,  \* _inFlight
  sem,       \* _txRingSem has a token
  dma,       \* the channel: next index, bytes left, transfer complete
  task,      \* each task: where it is, bytes left of its call, which call
  accepted,  \* bytes put in the ring so far
  asked,     \* bytes of all calls so far
  wire       \* the bytes the UART was given

vars == <<ring, txing, inFlight, sem, dma, task, accepted, asked, wire>>

Idle == [at |-> "idle", left |-> 0, blocks |-> FALSE]
Off  == [from |-> 0, left |-> 0, done |-> FALSE]

\* _inFlight is not initialised either, but is written before it is read.
Init ==
  /\ ring = NewRing(0)
  /\ txing \in FreshTxing /\ inFlight = 0
  /\ sem = FALSE
  /\ dma = Off
  /\ task = [t \in Tasks |-> Idle]
  /\ accepted = 0 /\ asked = 0
  /\ wire = <<>>

\* doMemoryToPeripheralTransferNoLock: one shot, the run that starts at tail.
\* Mutation: all that is queued, past the end of the buffer.
StartDmaAll(r) == /\ dma' = [from |-> r.tail, left |-> Count(r), done |-> FALSE]
                  /\ inFlight' = Count(r)
StartDma(r) == /\ dma' = [from |-> r.tail, left |-> ReadRun(r), done |-> FALSE]
               /\ inFlight' = ReadRun(r)
-----------------------------------------------------------------------------
\* A task calls transmit() or, with blocks = FALSE, transmitNoBlock().
Call(t, n, blocks) ==
  /\ task[t] = Idle /\ asked + n <= MaxBytes
  /\ task' = [task EXCEPT ![t] = [at |-> "loop", left |-> n, blocks |-> blocks]]
  /\ asked' = asked + n
  /\ UNCHANGED <<ring, txing, inFlight, sem, dma, accepted, wire>>

\* A call after a turn that put inc bytes; with none left it returns.
After(call, inc) ==
  IF call.left = inc THEN Idle ELSE [call EXCEPT !.left = @ - inc]

\* A turn of the loop that finds room; it starts the DMA if that is stopped.
PutSome(t) ==
  /\ task[t].at = "loop" /\ Free(ring) > 0
  /\ LET n    == Lesser(Free(ring), task[t].left)
         data == [i \in 1 .. n |-> accepted + i]
         inc  == PutDone(ring, n, data)
     IN  /\ ring' = Put(ring, n, data)
         /\ accepted' = accepted + inc
         /\ task' = [task EXCEPT ![t] = After(@, inc)]
  /\ IF txing THEN UNCHANGED <<dma, inFlight>> ELSE StartDma(ring')
  /\ txing' = TRUE
  /\ UNCHANGED <<sem, asked, wire>>

\* No room: transmitNoBlock() returns what it did so far.
GiveUp(t) ==
  /\ task[t].at = "loop" /\ Free(ring) = 0 /\ ~task[t].blocks
  /\ task' = [task EXCEPT ![t] = Idle]
  /\ UNCHANGED <<ring, txing, inFlight, sem, dma, accepted, asked, wire>>

\* No room: transmit() drops an old token, then waits for a fresh one.
AwaitRoom(t) ==
  /\ task[t].at = "loop" /\ Free(ring) = 0 /\ task[t].blocks
  /\ sem' = FALSE
  /\ task' = [task EXCEPT ![t].at = "take"]
  /\ UNCHANGED <<ring, txing, inFlight, dma, accepted, asked, wire>>

TakeSem(t) ==
  /\ task[t].at = "take" /\ sem
  /\ sem' = FALSE
  /\ task' = [task EXCEPT ![t].at = "loop"]
  /\ UNCHANGED <<ring, txing, inFlight, dma, accepted, asked, wire>>
-----------------------------------------------------------------------------
\* The DMA hands a byte of the ring's memory to the UART.
DmaMove ==
  /\ dma.left > 0
  /\ wire' = Append(wire, ring.buf[dma.from])
  /\ dma' = [from |-> dma.from + 1, left |-> dma.left - 1, done |-> dma.left = 1]
  /\ UNCHANGED <<ring, txing, inFlight, sem, task, accepted, asked>>

\* Mutation: the token is given only when more is to be sent.
GiveTokenLate(r) == sem' = (sem \/ (~WithCallback /\ ~Empty(r)))
GiveToken(r) == sem' = (sem \/ ~WithCallback)

\* Mutation: the transfer is over whatever the ring holds.
ContinueNever(r) == dma' = Off /\ inFlight' = 0 /\ txing' = FALSE
Continue(r) ==
  IF Empty(r) THEN dma' = Off /\ inFlight' = 0 /\ txing' = FALSE
  ELSE StartDma(r) /\ UNCHANGED txing

\* dmaIrqHandler stops the channel, then calls txDmaCb2.
DmaIrq ==
  /\ dma.done
  /\ ring' = Consume(ring, inFlight)
  /\ GiveToken(ring') /\ Continue(ring')
  /\ UNCHANGED <<task, accepted, asked, wire>>
-----------------------------------------------------------------------------
LoopNext(t) == PutSome(t) \/ GiveUp(t) \/ AwaitRoom(t) \/ TakeSem(t)

Next ==
  \/ \E t \in Tasks : \/ \E n \in 1 .. MaxCall, b \in BOOLEAN : Call(t, n, b)
                      \/ LoopNext(t)
  \/ DmaMove \/ DmaIrq

Spec == Init /\ [][Next]_vars

(***************************************************************************)
(* The UART drains, interrupts are served, ready tasks get to run.  Calls  *)
(* are finite in number, so nobody starves a waiting task for ever.        *)
(***************************************************************************)
FairSpec ==
  /\ Spec
  /\ WF_vars(DmaMove) /\ WF_vars(DmaIrq)
  /\ \A t \in Tasks : WF_vars(LoopNext(t))
-----------------------------------------------------------------------------
Places == {"idle", "loop", "take"}

TypeOK ==
  /\ IsRing(ring)
  /\ txing \in BOOLEAN /\ sem \in BOOLEAN
  /\ inFlight \in Indices
  /\ dma \in [from : 0 .. Size, left : Indices, done : BOOLEAN]
  /\ task \in [Tasks -> [at : Places, left : Nat, blocks : BOOLEAN]]
  /\ accepted \in Nat /\ asked \in Nat

(***************************************************************************)
(* The run the DMA works on stays reserved: it is the first part of what   *)
(* the ring holds, within the buffer's end, so no put() can write over a   *)
(* byte that is yet to be sent and consume() frees exactly what was sent.  *)
(***************************************************************************)
InFlightReserved ==
  txing => /\ 0 < inFlight /\ inFlight <= ReadRun(ring)
           /\ dma.from + dma.left = ring.tail + inFlight
           /\ dma.left <= inFlight

(***************************************************************************)
(* The transmitter never stalls: between two critical sections the ring    *)
(* holds a byte exactly while a transfer runs or its interrupt is due.     *)
(***************************************************************************)
NoStall == /\ txing <=> Count(ring) > 0
           /\ txing <=> dma.left > 0 \/ dma.done
           /\ dma.done => dma.left = 0

(***************************************************************************)
(* No wake-up is lost: a task that waits for room finds a token, or a      *)
(* transfer is going on whose interrupt will give one, or the task that    *)
(* got the token is about to start one.                                    *)
(***************************************************************************)
WakeupComes ==
  ~WithCallback /\ (\E t \in Tasks : task[t].at = "take") =>
    sem \/ txing \/ \E t \in Tasks : task[t].at = "loop"

\* With the fact that a call in progress has bytes left to put, inductive.
BytesLeft == \A t \in Tasks : task[t].at # "idle" => task[t].left > 0
IInv == TypeOK /\ NoStall /\ InFlightReserved /\ BytesLeft /\ WakeupComes

(***************************************************************************)
(* The transmitter is a first-in first-out stream: each byte accepted is   *)
(* sent once and in order, whatever the interleaving of calls, transfers   *)
(* and wrap-arounds.  What waits to be sent is what the ring holds less    *)
(* what the DMA has taken of it.                                           *)
(***************************************************************************)
Unsent == SubSeq(Contents(ring), inFlight - dma.left + 1, Count(ring))
Stream == INSTANCE SerialStream WITH waiting <- Unsent, Room <- Size - 1
StreamSpec == Stream!Spec

(***************************************************************************)
(* transmit() returns once its bytes are accepted: it is woken up as room  *)
(* is made (lnSerialTxOnlyDmaBuffer.cpp:86, "space freed, wake up          *)
(* thread").                                                               *)
(***************************************************************************)
TransmitReturns == \A t \in Tasks : task[t].at # "idle" ~> task[t].at = "idle"

(***************************************************************************)
(* What was accepted is sent (demoProject/common/serial/hello.cpp:50 greets*)
(* with "Go"), with no further call to push it out.                        *)
(***************************************************************************)
EverythingSent == accepted > Len(wire) ~> accepted = Len(wire)
=============================================================================
