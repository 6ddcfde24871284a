----------------------------- MODULE I2CMaster -----------------------------
(***************************************************************************)
(* The I2C master of GD32/CH32 (mcus/common_bluepill/lnI2C_impl.cpp) with  *)
(* the DMA channel it sends long blocks through (lnDma.cpp).  A task       *)
(* prepares the transfer, then waits on a semaphore with a timeout; the    *)
(* event interrupt, the error interrupt and the DMA interrupt move the     *)
(* state _state on.  A section of a task that runs with no other access to *)
(* what it touches is one action, and so is an interrupt.                  *)
(*                                                                         *)
(* External: the I2C cell (data register, shift register, flags), the DMA  *)
(* cell, and the slave, which answers, refuses or falls silent.            *)
(***************************************************************************)
EXTENDS Integers, SequencesExt

CONSTANTS
  Tasks,      \* the tasks that use the bus
  Writes,     \* the block sizes of the writes and of the reads
  Reads,      \*   they make
  DmaFrom,    \* blocks of this size and longer go by DMA: 8
  MaxCalls    \* bound: calls made in all

ASSUME I2CAssumption ==
  /\ Writes \subseteq Seq(Nat) /\ Reads \subseteq Seq(Nat)
  /\ DmaFrom \in Nat \ {0} /\ MaxCalls \in Nat

VARIABLES
  task,     \* where each task is in multiWrite() or multiRead(), its call
  lock,     \* owner of the mutex of each DMA channel; 0 is nobody
  drv,      \* lnTwoWire: _state, _session, _result; irqHandler set; the
            \*   cell's interrupts enabled, its event/DMA mode
  sem,      \* _sem
  dma,      \* the transmit channel: _lnDmas slot, _cb, bytes to feed, done
  bus,      \* the cell and the wire: see below
  memory,   \* where the bytes read were stored: <<block, index, byte>>
  calls,    \* calls made
  fault,    \* an assertion failed
  overran   \* ghost: a call's timeout expired while its transfer went on

ghosts == <<calls, overran>>
vars == <<task, lock, drv, sem, dma, bus, memory, fault, ghosts>>

Ops == {"write", "read"}
NoCall == [at |-> "idle", op |-> "write", sizes |-> <<>>, ok |-> FALSE]
NoSession == [op |-> "write", sizes |-> <<>>, block |-> 0, index |-> 0, offset |-> 0]
NoDma == [slot |-> FALSE, cb |-> FALSE, left |-> <<>>, done |-> FALSE]

\* flag: what the event interrupt finds; data, shift: bytes to send; wire:
\* bytes the slave got; more: bytes it sends before it stops; stuck: the STOP
\* bit did not clear.
Quiet(slave) == [slave |-> slave, flag |-> "none", data |-> <<>>, shift |-> <<>>,
                 wire |-> <<>>, sent |-> 0, more |-> 0, stopped |-> FALSE,
                 stuck |-> FALSE]

Init ==
  /\ task = [t \in Tasks |-> NoCall]
  /\ lock = [op \in Ops |-> 0]
  /\ drv = [state |-> "IDLE", session |-> NoSession, live |-> FALSE, result |-> FALSE,
            handler |-> FALSE, irq |-> FALSE, mode |-> "event"]
  /\ sem = FALSE
  /\ dma = NoDma
  /\ bus = Quiet("answers")
  /\ memory = {}
  /\ calls = 0
  /\ fault = FALSE
  /\ overran = FALSE

Blocks(s) == 1 .. Len(s.sizes)
Total(sizes) == FoldLeft(LAMBDA a, b : a + b, 0, sizes)

Move(t, from, to) == task[t].at = from /\ task' = [task EXCEPT ![t].at = to]
-----------------------------------------------------------------------------
(***************************************************************************)
(* The task.  A write holds the transmit channel's mutex, a read the       *)
(* receive channel's, which it does not use otherwise.                     *)
(***************************************************************************)
Call(t) ==
  /\ task[t].at = "idle" /\ calls < MaxCalls
  /\ \E op \in Ops : \E sizes \in IF op = "write" THEN Writes ELSE Reads :
       task' = [task EXCEPT ![t] = [at |-> "lock", op |-> op, sizes |-> sizes, ok |-> FALSE]]
  /\ calls' = calls + 1
  /\ UNCHANGED <<lock, drv, sem, dma, bus, memory, fault, overran>>

\* beginTransfer(): the mutex, then the slot.
Begin(t) ==
  /\ Move(t, "lock", "prepare")
  /\ LET op == task[t].op
     IN  /\ lock[op] = 0
         /\ lock' = [lock EXCEPT ![op] = t]
         /\ IF op = "write"
            THEN dma' = [dma EXCEPT !.slot = TRUE, !.left = <<>>, !.done = FALSE]
                 /\ fault' = dma.slot
            ELSE UNCHANGED <<dma, fault>>
  /\ UNCHANGED <<drv, sem, bus, memory, ghosts>>

\* clearup_state(), the session, the first state; a write sets START here.
Prepare(t) ==
  /\ Move(t, "prepare", "arm")
  /\ LET op == task[t].op
     IN  /\ drv' = [drv EXCEPT !.state = IF op = "write" THEN "TX_START" ELSE "RX_START",
                               !.session = [NoSession EXCEPT !.op = op, !.sizes = task[t].sizes,
                                                             !.block = 1],
                               !.live = TRUE]
         /\ \E slave \in {"answers", "refuses", "silent"} :
              bus' = [Quiet(slave) EXCEPT !.flag = IF op = "write" THEN "start" ELSE "none"]
  /\ memory' = {}
  /\ UNCHANGED <<lock, sem, dma, fault, ghosts>>

\* startTxIrq(), or startRxIrq() and then START.
Arm(t) ==
  /\ Move(t, "arm", "wait")
  /\ fault' = drv.handler
  /\ drv' = [drv EXCEPT !.handler = TRUE, !.irq = TRUE, !.mode = "event"]
  /\ IF task[t].op = "write" THEN dma' = [dma EXCEPT !.cb = TRUE] /\ UNCHANGED bus
     ELSE bus' = [bus EXCEPT !.flag = "start"] /\ UNCHANGED dma
  /\ UNCHANGED <<lock, sem, memory, ghosts>>

Take(t) ==
  /\ task[t].at = "wait" /\ sem
  /\ task' = [task EXCEPT ![t].at = "end", ![t].ok = TRUE]
  /\ sem' = FALSE
  /\ UNCHANGED <<lock, drv, dma, bus, memory, fault, ghosts>>

\* Mutation: the wait has no timeout.
TimesOutNever(t) == FALSE /\ UNCHANGED vars
\* take(100) returns false: a fixed time, whether the slave does not answer
\* or the transfer takes longer.
TimesOut(t) ==
  /\ Move(t, "wait", "end") /\ ~sem
  /\ overran' = (overran \/ bus.slave = "answers")
  /\ UNCHANGED <<lock, drv, sem, dma, bus, memory, calls, fault>>

\* endTransfer(): the channel is stopped, the slot and the callback cleared
\* with interrupts off; the mutex is released.
End(t) ==
  /\ Move(t, "end", "stop")
  /\ lock' = [lock EXCEPT ![task[t].op] = 0]
  /\ dma' = IF task[t].op = "write" THEN NoDma ELSE dma
  /\ UNCHANGED <<drv, sem, bus, memory, fault, ghosts>>

\* stopIrq().  Mutation: the handler is left in place.
StoppedArmed == [drv EXCEPT !.irq = FALSE]
Stopped == [drv EXCEPT !.irq = FALSE, !.handler = FALSE]

Stop(t) ==
  /\ Move(t, "stop", "leave")
  /\ drv' = Stopped
  /\ dma' = [dma EXCEPT !.cb = FALSE]
  /\ UNCHANGED <<lock, sem, bus, memory, fault, ghosts>>

(***************************************************************************)
(* _session and _state are reset; the call returns false after a timeout,  *)
(* else _result.  A write first waits for STOP to have gone out, and fails *)
(* when it does not.                                                       *)
(***************************************************************************)
AwaitsStop(t) == /\ task[t].op = "write" /\ task[t].ok /\ drv.result
                 /\ bus.stopped

Leave(t) ==
  /\ task[t].at = "leave"
  /\ \E stuck \in IF AwaitsStop(t) THEN BOOLEAN ELSE {FALSE} :
       LET result == drv.result /\ ~stuck
       IN  /\ task' = [task EXCEPT ![t].at = "done", ![t].ok = @ /\ result]
           /\ drv' = [drv EXCEPT !.session = NoSession, !.live = FALSE, !.state = "IDLE",
                                 !.result = result]
           /\ bus' = [bus EXCEPT !.stuck = stuck]
  /\ UNCHANGED <<lock, sem, dma, memory, fault, ghosts>>

Return(t) ==
  /\ Move(t, "done", "idle")
  /\ UNCHANGED <<lock, drv, sem, dma, bus, memory, fault, ghosts>>
-----------------------------------------------------------------------------
(***************************************************************************)
(* Sending.  A byte put in the data register goes on to an empty shift     *)
(* register; it overwrites one that still waits there.                     *)
(***************************************************************************)
Byte(b, i) == <<b, i>>
\* A flag is cleared by what its interrupt reads; an error is not.
Acked == IF bus.flag = "error" THEN bus ELSE [bus EXCEPT !.flag = "none"]
Put(b) == IF bus.shift = <<>> THEN [Acked EXCEPT !.shift = <<b>>]
          ELSE [Acked EXCEPT !.data = <<b>>]

\* The first block from b on that is not empty; 0 when there is none.
NextBlock(s, b) ==
  IF \A c \in Blocks(s) : c < b \/ s.sizes[c] = 0 THEN 0
  ELSE CHOOSE c \in Blocks(s) :
         c >= b /\ s.sizes[c] > 0 /\ \A d \in b .. c - 1 : s.sizes[d] = 0

\* SET_DONE(): the result, no more interrupts, the semaphore.
Done(d, result) == [d EXCEPT !.result = result, !.irq = FALSE]

At(d, b, i) == [d EXCEPT !.session.block = b, !.session.index = i]

(***************************************************************************)
(* initiateTx() from block b on: a short block byte by byte, a long one by *)
(* DMA.  With no block left the caller decides.                            *)
(***************************************************************************)
Bytes(n) ==
  /\ drv' = [At(drv, n, 1) EXCEPT !.state = "TX_DATA", !.mode = "event"]
  /\ bus' = Put(Byte(n, 1))
  /\ dma' = [dma EXCEPT !.done = FALSE]
  /\ UNCHANGED sem

ByDma(n) ==
  /\ drv' = [At(drv, n, 0) EXCEPT !.state = "TX_DATA_DMA", !.mode = "dma"]
  /\ bus' = Acked
  /\ dma' = [dma EXCEPT !.left = [i \in 1 .. drv.session.sizes[n] |-> Byte(n, i)],
                        !.done = FALSE]
  /\ UNCHANGED sem

NoBlock(b) == NextBlock(drv.session, b) = 0

Initiate(b) ==
  LET n == NextBlock(drv.session, b)
  IN  n # 0 /\ IF drv.session.sizes[n] < DmaFrom THEN Bytes(n) ELSE ByDma(n)

\* Mutation: the last byte of a block is left out.
BlockSentEarly(s) == s.index >= s.sizes[s.block] - 1
\* sendNext(): is the current block sent?
BlockSent(s) == s.index >= s.sizes[s.block]

\* i2cIrqHandler() and irq(0): the handler and the session must be there.
Event(flag) ==
  /\ drv.irq /\ drv.mode = "event" /\ bus.flag = flag
  /\ UNCHANGED <<task, lock, memory, ghosts>>

Present == drv.handler /\ drv.live
Expect(p) == fault' = ~p

TxStart ==
  /\ Event("start") /\ drv.session.op = "write"
  /\ Expect(Present /\ drv.state = "TX_START")
  /\ drv' = [drv EXCEPT !.state = "TX_ADDR_SENT"]
  /\ bus' = [bus EXCEPT !.flag = "address"]
  /\ UNCHANGED <<sem, dma>>

\* A write of no byte at all is how a scanner finds slaves; it sets no STOP.
TxAddressed ==
  /\ Event("addressed") /\ drv.session.op = "write"
  /\ Expect(Present /\ drv.state = "TX_ADDR_SENT")
  /\ \/ Initiate(1)
     \/ /\ NoBlock(1)
        /\ drv' = Done([drv EXCEPT !.state = "TX_DATA", !.mode = "event"],
                       Total(drv.session.sizes) = 0)
        /\ sem' = TRUE /\ bus' = Acked /\ UNCHANGED dma

TxData ==
  /\ Event("sent") /\ drv.state = "TX_DATA"
  /\ Expect(Present)
  /\ LET s == drv.session
     IN  \/ BlockSent(s) /\ Initiate(s.block + 1)
         \/ /\ BlockSent(s) /\ NoBlock(s.block + 1)
            /\ drv' = [At(drv, Len(s.sizes) + 1, 0) EXCEPT !.state = "TX_STOP"]
            /\ UNCHANGED <<bus, dma, sem>>
         \/ /\ ~BlockSent(s)
            /\ drv' = At(drv, s.block, s.index + 1)
            /\ bus' = Put(Byte(s.block, s.index + 1))
            /\ UNCHANGED <<dma, sem>>

TxStop ==
  /\ Event("sent") /\ drv.state # "TX_DATA"
  /\ Expect(Present /\ drv.state = "TX_STOP")
  /\ drv' = [Done(drv, TRUE) EXCEPT !.state = "TX_END"]
  /\ sem' = TRUE
  /\ bus' = [Acked EXCEPT !.stopped = TRUE]
  /\ UNCHANGED dma

\* dmaIrqHandler(), invokeCallback() and dmaTxDone().
DmaDone ==
  /\ dma.done
  /\ Expect(dma.slot /\ dma.cb /\ drv.live)
  /\ LET b == drv.session.block + 1
     IN  \/ Initiate(b)
         \/ /\ NoBlock(b)
            /\ drv' = [At(drv, b, 0) EXCEPT !.state = "TX_STOP", !.mode = "event"]
            /\ dma' = [dma EXCEPT !.done = FALSE]
            /\ UNCHANGED <<bus, sem>>
  /\ UNCHANGED <<task, lock, memory, ghosts>>
-----------------------------------------------------------------------------
(***************************************************************************)
(* Receiving.                                                              *)
(***************************************************************************)
RxStart ==
  /\ Event("start") /\ drv.session.op = "read"
  /\ Expect(Present /\ drv.state = "RX_START")
  /\ drv' = [drv EXCEPT !.state = "RX_ADDR_SENT"]
  /\ bus' = [bus EXCEPT !.flag = "address"]
  /\ UNCHANGED <<sem, dma>>

\* ACKEN is cleared for one and for two bytes; with POAP set the second is
\* then the one not acknowledged.
RxAddressed ==
  /\ Event("addressed") /\ drv.session.op = "read"
  /\ Expect(Present /\ drv.state = "RX_ADDR_SENT")
  /\ LET n == Total(drv.session.sizes)
     IN  /\ drv' = [drv EXCEPT !.state = IF n = 1 THEN "RX_DATA_1_BYTE" ELSE "RX_DATA"]
         /\ bus' = [Acked EXCEPT !.more = IF n < 3 THEN n ELSE -1]
  /\ UNCHANGED <<sem, dma>>

\* receiveNext(): the byte goes to the current place of the current block, if
\* there is one; the place must exist.
Stored(s) == {<<s.block, s.index + 1, bus.sent>>}
Advanced(s) ==
  IF s.index + 1 < s.sizes[s.block]
  THEN [s EXCEPT !.index = @ + 1, !.offset = @ + 1]
  ELSE [s EXCEPT !.block = @ + 1, !.index = 0, !.offset = @ + 1]

Beyond(s) == s.block \notin Blocks(s)

Received(d, next) ==
  LET s == drv.session
  IN  /\ memory' = IF Beyond(s) THEN memory ELSE memory \cup Stored(s)
      /\ drv' = [d EXCEPT !.session = IF Beyond(s) THEN s ELSE Advanced(s),
                          !.state = next]

RxEvent ==
  LET s == drv.session
  IN  /\ drv.irq /\ drv.mode = "event" /\ bus.flag = "received"
      /\ Expect(/\ Present
                /\ drv.state \in {"RX_DATA", "RX_DATA_1_BYTE", "RX_DATA_2_BYTES"}
                /\ Beyond(s) \/ s.index < s.sizes[s.block])
      /\ UNCHANGED <<task, lock, dma, ghosts>>

\* One byte: STOP after it.  The last of several: STOP is set already.
RxLast ==
  /\ RxEvent /\ drv.state \in {"RX_DATA_1_BYTE", "RX_DATA_2_BYTES"}
  /\ Received(Done(drv, TRUE), "RX_END")
  /\ sem' = TRUE
  /\ bus' = [Acked EXCEPT !.stopped = TRUE]

(***************************************************************************)
(* current_offset += 2 == total_bytes adds one for a read of two bytes; it *)
(* is then true, as it is when a byte was stored before: STOP goes out     *)
(* before the second byte but one.                                         *)
(***************************************************************************)
Offset(s) == s.offset + IF Total(s.sizes) = 2 THEN 1 ELSE 0

RxData ==
  /\ RxEvent /\ drv.state \notin {"RX_DATA_1_BYTE", "RX_DATA_2_BYTES"}
  /\ IF Offset(drv.session) # 0
     THEN /\ Received(drv, "RX_DATA_2_BYTES")
          /\ bus' = [Acked EXCEPT !.stopped = TRUE,
                                  !.more = IF @ = -1 THEN 1 ELSE @]
     ELSE Received(drv, "RX_DATA") /\ bus' = Acked
  /\ UNCHANGED sem

(***************************************************************************)
(* The error interrupt switches both interrupts off, clears the error and  *)
(* tells nobody: the task's wait runs into its timeout.                    *)
(***************************************************************************)
Error ==
  /\ drv.irq /\ bus.flag = "error"
  /\ Expect(Present)
  /\ IF drv.state \in {"RX_END", "TX_END", "IDLE"} THEN UNCHANGED <<drv, bus>>
     ELSE drv' = [drv EXCEPT !.irq = FALSE] /\ bus' = [bus EXCEPT !.flag = "none"]
  /\ UNCHANGED <<task, lock, sem, dma, memory, ghosts>>
-----------------------------------------------------------------------------
(***************************************************************************)
(* The cells and the slave.                                                *)
(***************************************************************************)
Hardware(b) == bus' = b /\ UNCHANGED <<task, lock, drv, sem, memory, fault, ghosts>>

Addressed ==
  /\ bus.flag = "address"
  /\ \/ bus.slave = "answers" /\ Hardware([bus EXCEPT !.flag = "addressed"])
     \/ bus.slave = "refuses" /\ Hardware([bus EXCEPT !.flag = "error"])
  /\ UNCHANGED dma

Shifts ==
  /\ bus.shift # <<>>
  /\ \/ bus.slave = "answers"
        /\ Hardware([bus EXCEPT !.wire = @ \o bus.shift, !.shift = bus.data, !.data = <<>>,
                                !.flag = IF bus.data = <<>> THEN "sent" ELSE @])
     \/ bus.slave = "refuses" /\ bus.flag = "none"
        /\ Hardware([bus EXCEPT !.flag = "error", !.shift = <<>>])
  /\ UNCHANGED dma

\* A slave gives up while a byte is on its way.
GivesUp ==
  /\ bus.slave = "answers"
  /\ \/ bus.shift # <<>> /\ Hardware([bus EXCEPT !.slave = "refuses"])
     \/ /\ bus.shift # <<>> \/ (bus.flag = "none" /\ bus.more # 0)
        /\ Hardware([bus EXCEPT !.slave = "silent"])
  /\ UNCHANGED dma

\* The DMA cell fills the data register as soon as it is empty.
Feeds ==
  /\ dma.left # <<>> /\ bus.data = <<>> /\ drv.mode = "dma" /\ bus.slave = "answers"
  /\ Hardware(Put(Head(dma.left)))
  /\ dma' = [dma EXCEPT !.left = Tail(@), !.done = Len(dma.left) = 1]

\* STOP, once set, lets the byte on its way come.
Arrives ==
  /\ bus.flag = "none" /\ bus.more # 0 /\ bus.slave = "answers"
  /\ Hardware([bus EXCEPT !.flag = "received", !.sent = @ + 1,
                          !.more = IF @ = -1 THEN @ ELSE @ - 1])
  /\ UNCHANGED dma
-----------------------------------------------------------------------------
TaskNext == \E t \in Tasks :
  \/ Call(t) \/ Begin(t) \/ Prepare(t) \/ Arm(t) \/ Take(t) \/ TimesOut(t)
  \/ End(t) \/ Stop(t) \/ Leave(t) \/ Return(t)
Interrupt == \/ TxStart \/ TxAddressed \/ TxData \/ TxStop \/ DmaDone
             \/ RxStart \/ RxAddressed \/ RxLast \/ RxData \/ Error
Cells == Addressed \/ Shifts \/ Feeds \/ Arrives

Next == ~fault /\ (TaskNext \/ Interrupt \/ Cells \/ GivesUp)

Spec == Init /\ [][Next]_vars

\* Tasks, interrupts and the bus go on; nobody has to call.
FairSpec ==
  /\ Spec
  /\ \A t \in Tasks : WF_vars(/\ ~fault
                              /\ \/ Begin(t) \/ Prepare(t) \/ Arm(t) \/ Take(t) \/ TimesOut(t)
                                 \/ End(t) \/ Stop(t) \/ Leave(t) \/ Return(t))
  /\ WF_vars(~fault /\ Interrupt)
  /\ WF_vars(~fault /\ Cells)
-----------------------------------------------------------------------------
AllSent(sizes) ==
  LET before(b) == Total(SubSeq(sizes, 1, b - 1))
  IN  [k \in 1 .. Total(sizes) |->
         CHOOSE p \in (1 .. Len(sizes)) \X (1 .. Total(sizes)) :
           p[2] <= sizes[p[1]] /\ before(p[1]) + p[2] = k]

AllStored(sizes) ==
  LET sent == AllSent(sizes) IN {<<sent[k][1], sent[k][2], k>> : k \in DOMAIN sent}

\* The last byte of a block sent by DMA still waits in the data register when
\* the first one of a short block is put there.
Overwritten(sizes) ==
  {<<b, sizes[b]>> : b \in {c \in 1 .. Len(sizes) :
     LET n == NextBlock([sizes |-> sizes], c + 1)
     IN  sizes[c] >= DmaFrom /\ n # 0 /\ sizes[n] < DmaFrom}}

(***************************************************************************)
(* What a call returns tells what happened, until the timeout of a call    *)
(* expires while its transfer goes on (overran).  True: the slave got the  *)
(* bytes of every block in order, but perhaps not the last one of a block  *)
(* sent by DMA with a short one after it (514); or the caller's blocks     *)
(* hold the first three bytes it sent, all there are to read unless the    *)
(* blocks are longer (662); and there was a STOP (a scan has none).        *)
(* False: the slave did not answer, or the STOP never went out; so nothing *)
(* a failed call leaves behind fails the next one.                         *)
(***************************************************************************)
ResultTells == ~overran => \A t \in Tasks : task[t].at = "done" =>
  LET sizes  == task[t].sizes
      all    == AllSent(sizes)
      got(b) == b \in Range(bus.wire)
  IN  IF ~task[t].ok THEN bus.slave # "answers" \/ bus.stuck
      ELSE /\ bus.slave = "answers"
           /\ task[t].op = "write" => /\ bus.wire = SelectSeq(all, got)
                                      /\ Range(all) \ Range(bus.wire) \subseteq Overwritten(sizes)
           /\ task[t].op = "read" => memory = {p \in AllStored(sizes) : p[3] <= 3}
           /\ bus.stopped \/ Total(sizes) = 0

(***************************************************************************)
(* No interrupt comes without a handler, a session and a slot, or in a     *)
(* state that does not expect it, and no transfer begins over another: the *)
(* assertions of lnI2C_impl.cpp and lnDma.cpp.  "lock down i2c also, deals *)
(* with re-entrency" (312).  It is so until a timeout expires while the    *)
(* transfer goes on.                                                       *)
(***************************************************************************)
NoAssertionFails == fault => overran

(***************************************************************************)
(* xAssert(la) (lnDma.cpp:538), and the other assertions, without that     *)
(* condition: the code does not keep them (README, section 5).             *)
(***************************************************************************)
AssertionsHold == ~fault

(***************************************************************************)
(* A call returns, whatever the slave does and whenever the timeout        *)
(* expires, unless an assertion fails, which stops the program.            *)
(***************************************************************************)
CallReturns == \A t \in Tasks :
  task[t].at # "idle" ~> task[t].at = "idle" \/ fault
-----------------------------------------------------------------------------
(***************************************************************************)
(* Why no assertion fails, as long as the calls do not overlap: what the   *)
(* driver, its DMA channel and the bus are doing in each part of a call.   *)
(***************************************************************************)
OneCall == \A t, u \in Tasks :
  task[t].at # "idle" /\ task[u].at # "idle" => t = u

Places == {"idle", "lock", "prepare", "arm", "wait", "end", "stop", "leave", "done"}
Held == {"wait", "end", "stop"}      \* the handler is installed
Sending == {"TX_DATA", "TX_DATA_DMA", "TX_STOP"}
Receiving == {"RX_DATA", "RX_DATA_1_BYTE", "RX_DATA_2_BYTES"}
Start(op) == IF op = "write" THEN "TX_START" ELSE "RX_START"
AddrSent(op) == IF op = "write" THEN "TX_ADDR_SENT" ELSE "RX_ADDR_SENT"
Writing(t, at) == task[t].op = "write" /\ task[t].at \in at

States == Sending \cup Receiving \cup
          {"IDLE", "TX_START", "TX_ADDR_SENT", "TX_END", "RX_START", "RX_ADDR_SENT", "RX_END"}
Calls == [at : Places, op : Ops, sizes : Seq(Nat), ok : BOOLEAN]
Sessions == [op : Ops, sizes : Seq(Nat), block : Nat, index : Nat, offset : Nat]
Drivers == [state : States, session : Sessions, live : BOOLEAN, result : BOOLEAN,
            handler : BOOLEAN, irq : BOOLEAN, mode : {"event", "dma"}]
Channels == [slot : BOOLEAN, cb : BOOLEAN, left : Seq(Nat \X Nat), done : BOOLEAN]

Shape ==
  /\ task \in [Tasks -> Calls] /\ drv \in Drivers /\ dma \in Channels
  /\ DOMAIN bus = DOMAIN Quiet("answers")

\* What the task has set up, and what is left of it.
Calling == \A t \in Tasks :
  /\ task[t].op = "read" => task[t].sizes \in Reads
  /\ task[t].at \in Held => drv.handler
  /\ task[t].at \in Held \cup {"arm", "leave"} =>
       drv.live /\ drv.session.op = task[t].op
  /\ Writing(t, {"prepare", "arm", "wait", "end"}) => dma.slot
  /\ Writing(t, {"wait", "end"}) => dma.cb
  /\ task[t].at = "arm" =>
       /\ drv.state = Start(task[t].op) /\ bus.shift = <<>> /\ bus.more = 0
       /\ bus.flag = IF task[t].op = "write" THEN "start" ELSE "none"
  /\ task[t].at \in {"end", "stop"} /\ drv.irq => bus.slave # "answers"

Owned ==
  /\ drv.irq => drv.handler
  /\ drv.handler => \E t \in Tasks : task[t].at \in Held
  /\ sem => ~drv.irq /\ \E t \in Tasks : task[t].at = "wait"
  /\ dma.slot => \E t \in Tasks : Writing(t, {"prepare", "arm", "wait", "end"})
  /\ dma.done \/ dma.left # <<>> =>
       drv.state = "TX_DATA_DMA" /\ \E t \in Tasks : Writing(t, {"wait", "end"})
  /\ dma.done => dma.left = <<>>

\* What the bus may report in each state.
Expected ==
  /\ drv.irq =>
       /\ bus.flag = "start" => drv.state = Start(drv.session.op)
       /\ bus.flag \in {"address", "addressed"} => drv.state = AddrSent(drv.session.op)
       /\ bus.flag = "sent" \/ bus.shift # <<>> => drv.state \in Sending
       /\ bus.flag = "received" \/ bus.more # 0 => drv.state \in Receiving
       /\ drv.state = "TX_DATA_DMA" => drv.mode = "dma"
  /\ bus.flag \in {"address", "addressed", "sent", "received"} => bus.shift = <<>>
  /\ bus.flag \in {"addressed", "sent", "received"} => bus.slave = "answers"
  /\ bus.more # 0 => bus.shift = <<>> /\ drv.state # "TX_DATA_DMA"
  /\ drv.state \in Sending => drv.session.op = "write"
  /\ drv.state \in Receiving => drv.session.op = "read"

\* Where the next byte read goes.
Placed ==
  LET s == drv.session
  IN  s.op = "read" => /\ s.sizes \in Reads /\ s.block > 0
                       /\ s.block \in Blocks(s) => s.index < s.sizes[s.block]

\* A block to read into has room for a byte.
Readable == Reads \subseteq Seq(Nat \ {0})

\* All of it until a timeout expires while the transfer goes on.
Quietly == Shape /\ Calling /\ Owned /\ Expected /\ Placed /\ ~fault
IInv == overran \/ Quietly
=============================================================================
