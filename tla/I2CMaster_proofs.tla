-------------------------- MODULE I2CMaster_proofs --------------------------
(***************************************************************************)
(* No assertion of the I2C master fails, whatever the slave does, for any  *)
(* number of tasks whose calls do not overlap, blocks of any size and      *)
(* number, and any threshold of the DMA, until a timeout expires while the *)
(* slave still answers.                                                    *)
(***************************************************************************)
EXTENDS I2CMaster, SequenceTheorems, WellFoundedInduction, TLAPS

\* A task in a call is the only one.
LEMMA Alone ==
  ASSUME OneCall, NEW t \in Tasks, task[t].at # "idle"
  PROVE  \A u \in Tasks : u # t => task[u].at = "idle"
BY DEF OneCall

LEMMA Moved ==
  ASSUME Shape, NEW t \in Tasks, NEW from, NEW to \in Places, Move(t, from, to)
  PROVE  /\ task' \in [Tasks -> Calls]
         /\ task[t].at = from /\ task'[t].at = to
         /\ task'[t].op = task[t].op /\ task'[t].sizes = task[t].sizes
         /\ \A u \in Tasks : u # t => task'[u] = task[u]
BY DEF Move, Shape, Calls

LEMMA InitHolds == Init => IInv
<1> SUFFICES ASSUME Init PROVE Quietly
  BY DEF IInv
<1> USE DEF Init
<1>1. task \in [Tasks -> Calls]
  BY DEF NoCall, Calls, Places, Ops
<1>2. drv \in Drivers /\ dma \in Channels
  BY DEF Drivers, Channels, States, NoSession, Sessions, NoDma, Ops
<1>3. Shape
  BY <1>1, <1>2 DEF Shape
<1>4. Calling
  BY DEF Calling, NoCall, Writing, Held
<1>5. Owned /\ Placed
  BY DEF Owned, NoDma, Placed, NoSession
<1>6. Expected
  BY DEF Expected, Quiet, Sending, Receiving
<1> QED BY <1>3, <1>4, <1>5, <1>6 DEF Quietly

LEMMA KeepCall ==
  ASSUME Quietly, OneCall, NEW t \in Tasks, Call(t)
  PROVE  Quietly'
<1> USE DEF Quietly, Call
<1>1. PICK op \in Ops, sizes \in Seq(Nat) :
        /\ task' = [task EXCEPT ![t] = [at |-> "lock", op |-> op, sizes |-> sizes, ok |-> FALSE]]
        /\ op = "read" => sizes \in Reads
  BY I2CAssumption DEF Ops
<1>2. /\ task' \in [Tasks -> Calls]
      /\ task[t].at = "idle" /\ task'[t].at = "lock"
      /\ task'[t].op = "read" => task'[t].sizes \in Reads
      /\ \A u \in Tasks : u # t => task'[u] = task[u]
  BY <1>1 DEF Shape, Places, Calls
<1>3. Shape'
  BY <1>2 DEF Shape
<1>4. Calling'
  BY <1>2 DEF Calling, Writing, Held
<1>5. Owned'
  BY <1>2 DEF Owned, Writing, Held
<1>6. Expected' /\ Placed'
  BY DEF Expected, Placed
<1> QED BY <1>3, <1>4, <1>5, <1>6

LEMMA KeepBegin ==
  ASSUME Quietly, OneCall, NEW t \in Tasks, Begin(t)
  PROVE  Quietly'
<1> USE DEF Quietly, Begin
<1>1. /\ task' \in [Tasks -> Calls]
      /\ task[t].at = "lock" /\ task'[t].at = "prepare"
      /\ task'[t].op = task[t].op /\ task'[t].sizes = task[t].sizes
      /\ \A u \in Tasks : u # t => task'[u] = task[u]
  BY Moved DEF Places
<1>2. \A u \in Tasks : u # t => task[u].at = "idle"
  BY <1>1, Alone
<1>3. ~dma.slot /\ ~dma.done /\ dma.left = <<>>
  BY <1>1, <1>2 DEF Owned, Writing
<1>4. dma' \in Channels /\ ~dma'.done /\ dma'.left = <<>> /\ ~fault'
      /\ dma'.slot <=> task[t].op = "write"
  BY <1>1, <1>3 DEF Shape, Ops, Channels
<1>5. Shape'
  BY <1>1, <1>4 DEF Shape
<1>6. Calling'
  BY <1>1, <1>2, <1>4 DEF Calling, Writing, Held
<1>7. Owned'
  BY <1>1, <1>2, <1>4 DEF Owned, Writing, Held
<1>8. Expected' /\ Placed'
  BY DEF Expected, Placed
<1> QED BY <1>4, <1>5, <1>6, <1>7, <1>8

LEMMA KeepPrepare ==
  ASSUME Readable, Quietly, OneCall, NEW t \in Tasks, Prepare(t)
  PROVE  Quietly'
<1> USE DEF Quietly, Prepare
<1> DEFINE op == task[t].op
           s  == [NoSession EXCEPT !.op = op, !.sizes = task[t].sizes, !.block = 1]
<1>1. /\ task' \in [Tasks -> Calls]
      /\ task[t].at = "prepare" /\ task'[t].at = "arm"
      /\ task'[t].op = op /\ task'[t].sizes = task[t].sizes
      /\ \A u \in Tasks : u # t => task'[u] = task[u]
  BY Moved DEF Places
<1>2. \A u \in Tasks : u # t => task[u].at = "idle"
  BY <1>1, Alone
<1>3. ~drv.handler /\ ~drv.irq /\ ~sem /\ ~dma.done /\ dma.left = <<>>
  BY <1>1, <1>2 DEF Owned, Writing, Held
<1>4. /\ s \in Sessions /\ s.op = op /\ s.sizes = task[t].sizes /\ s.block = 1 /\ s.index = 0
      /\ Start(op) \in States
  BY DEF NoSession, Sessions, Shape, Calls, Start, States
<1>5. drv' = [drv EXCEPT !.state = Start(op), !.session = s, !.live = TRUE]
  BY DEF Start
<1> HIDE DEF s
<1>6. /\ drv' \in Drivers /\ drv'.state = Start(op) /\ drv'.live /\ drv'.session = s
      /\ ~drv'.handler /\ ~drv'.irq
  BY <1>3, <1>4, <1>5 DEF Shape, Drivers
<1>7. /\ DOMAIN bus' = DOMAIN Quiet("answers") /\ bus'.shift = <<>> /\ bus'.more = 0
      /\ bus'.flag = IF op = "write" THEN "start" ELSE "none"
  BY DEF Quiet
<1>8. Shape'
  BY <1>1, <1>6, <1>7 DEF Shape, Quiet
<1>9. Calling'
  <2> SUFFICES ASSUME NEW u \in Tasks
               PROVE  Calling!(u)'
    BY DEF Calling
  <2>1. CASE u = t
    BY <1>1, <1>4, <1>6, <1>7, <2>1 DEF Calling, Writing, Held
  <2>2. CASE u # t
    BY <1>1, <1>2, <2>2 DEF Calling, Writing, Held
  <2> QED BY <2>1, <2>2
<1>10. Owned'
  BY <1>1, <1>2, <1>3, <1>6 DEF Owned, Writing, Held
<1>11. Expected'
  BY <1>6, <1>7 DEF Expected, Start, Sending, Receiving
<1>12. Placed'
  <2> SUFFICES ASSUME op = "read" PROVE Placed'
    BY <1>4, <1>6 DEF Placed
  <2>1. s.sizes \in Reads /\ s.sizes \in Seq(Nat \ {0})
    BY <1>4 DEF Calling, Readable
  <2> QED BY <1>4, <1>6, <2>1 DEF Placed, Blocks
<1> QED BY <1>8, <1>9, <1>10, <1>11, <1>12

LEMMA KeepArm ==
  ASSUME Quietly, OneCall, NEW t \in Tasks, Arm(t)
  PROVE  Quietly'
<1> USE DEF Quietly, Arm
<1> DEFINE op == task[t].op
<1>1. /\ task' \in [Tasks -> Calls]
      /\ task[t].at = "arm" /\ task'[t].at = "wait"
      /\ task'[t].op = op /\ task'[t].sizes = task[t].sizes
      /\ \A u \in Tasks : u # t => task'[u] = task[u]
  BY Moved DEF Places
<1>2. \A u \in Tasks : u # t => task[u].at = "idle"
  BY <1>1, Alone
<1>3. ~drv.handler /\ ~sem /\ ~dma.done /\ dma.left = <<>>
  BY <1>1, <1>2 DEF Owned, Writing, Held
<1>4. /\ drv.live /\ drv.session.op = op /\ drv.state = Start(op)
      /\ bus.shift = <<>> /\ bus.more = 0 /\ (op = "write" => dma.slot)
      /\ bus.flag = IF op = "write" THEN "start" ELSE "none"
  BY <1>1 DEF Calling, Writing, Held
<1>5. /\ drv' \in Drivers /\ drv'.handler /\ drv'.irq /\ drv'.mode = "event"
      /\ drv'.live = drv.live /\ drv'.state = drv.state /\ drv'.session = drv.session
  BY DEF Shape, Drivers
<1>6. /\ dma' \in Channels /\ dma'.slot = dma.slot /\ dma'.left = dma.left
      /\ dma'.done = dma.done /\ (op = "write" => dma'.cb)
  BY DEF Shape, Channels
<1>7. /\ DOMAIN bus' = DOMAIN bus /\ bus'.flag = "start" /\ bus'.shift = <<>> /\ bus'.more = 0
  BY <1>4 DEF Shape, Quiet
<1>8. Shape'
  BY <1>1, <1>5, <1>6, <1>7 DEF Shape, Quiet
<1>9. Calling'
  <2> SUFFICES ASSUME NEW u \in Tasks
               PROVE  Calling!(u)'
    BY DEF Calling
  <2>1. CASE u = t
    BY <1>1, <1>4, <1>5, <1>6, <2>1 DEF Calling, Writing, Held
  <2>2. CASE u # t
    BY <1>1, <1>2, <2>2 DEF Calling, Writing, Held
  <2> QED BY <2>1, <2>2
<1>10. Owned'
  BY <1>1, <1>2, <1>3, <1>5, <1>6 DEF Owned, Writing, Held
<1>11. Expected'
  BY <1>4, <1>5, <1>7 DEF Expected, Start
<1>12. Placed' /\ ~fault'
  BY <1>3, <1>5 DEF Placed
<1> QED BY <1>8, <1>9, <1>10, <1>11, <1>12

LEMMA KeepTake ==
  ASSUME Quietly, OneCall, NEW t \in Tasks, Take(t) \/ TimesOut(t), ~overran'
  PROVE  Quietly'
<1> USE DEF Quietly
<1>1. /\ task' \in [Tasks -> Calls]
      /\ task[t].at = "wait" /\ task'[t].at = "end"
      /\ task'[t].op = task[t].op /\ task'[t].sizes = task[t].sizes
      /\ \A u \in Tasks : u # t => task'[u] = task[u]
  <2>1. CASE Take(t)
    BY <2>1 DEF Take, Shape, Calls, Places
  <2>2. CASE TimesOut(t)
    BY <2>2, Moved DEF TimesOut, Places
  <2> QED BY <2>1, <2>2
<1>2. \A u \in Tasks : u # t => task[u].at = "idle"
  BY <1>1, Alone
<1>3. ~sem' /\ (drv.irq => bus.slave # "answers") /\ UNCHANGED <<drv, dma, bus, fault>>
  <2>1. CASE Take(t)
    BY <2>1 DEF Take, Owned
  <2>2. CASE TimesOut(t)
    BY <2>2 DEF TimesOut
  <2> QED BY <2>1, <2>2
<1>4. Shape'
  BY <1>1, <1>3 DEF Shape
<1>5. Calling'
  <2> SUFFICES ASSUME NEW u \in Tasks
               PROVE  Calling!(u)'
    BY DEF Calling
  <2>1. CASE u = t
    BY <1>1, <1>3, <2>1 DEF Calling, Writing, Held
  <2>2. CASE u # t
    BY <1>1, <1>2, <1>3, <2>2 DEF Calling, Writing, Held
  <2> QED BY <2>1, <2>2
<1>6. Owned'
  BY <1>1, <1>2, <1>3 DEF Owned, Writing, Held
<1>7. Expected' /\ Placed'
  BY <1>3 DEF Expected, Placed
<1> QED BY <1>3, <1>4, <1>5, <1>6, <1>7

LEMMA KeepEnd ==
  ASSUME Quietly, OneCall, NEW t \in Tasks, End(t)
  PROVE  Quietly'
<1> USE DEF Quietly, End
<1>1. /\ task' \in [Tasks -> Calls]
      /\ task[t].at = "end" /\ task'[t].at = "stop"
      /\ task'[t].op = task[t].op /\ task'[t].sizes = task[t].sizes
      /\ \A u \in Tasks : u # t => task'[u] = task[u]
  BY Moved DEF Places
<1>2. \A u \in Tasks : u # t => task[u].at = "idle"
  BY <1>1, Alone
<1>3. NoDma \in Channels /\ ~NoDma.slot /\ ~NoDma.done /\ NoDma.left = <<>>
  BY DEF NoDma, Channels
<1>4. dma' \in Channels /\ ~dma'.slot /\ ~dma'.done /\ dma'.left = <<>>
  <2>1. CASE task[t].op = "write"
    BY <1>3, <2>1
  <2>2. CASE task[t].op # "write"
    BY <1>1, <1>2, <2>2 DEF Owned, Writing, Shape
  <2> QED BY <2>1, <2>2
<1>5. Shape'
  BY <1>1, <1>4 DEF Shape
<1>6. Calling'
  <2> SUFFICES ASSUME NEW u \in Tasks
               PROVE  Calling!(u)'
    BY DEF Calling
  <2>1. CASE u = t
    BY <1>1, <2>1 DEF Calling, Writing, Held
  <2>2. CASE u # t
    BY <1>1, <1>2, <2>2 DEF Calling, Writing, Held
  <2> QED BY <2>1, <2>2
<1>7. Owned'
  BY <1>1, <1>2, <1>4 DEF Owned, Writing, Held
<1>8. Expected' /\ Placed'
  BY DEF Expected, Placed
<1> QED BY <1>5, <1>6, <1>7, <1>8

LEMMA KeepStop ==
  ASSUME Quietly, OneCall, NEW t \in Tasks, Stop(t)
  PROVE  Quietly'
<1> USE DEF Quietly, Stop, Stopped
<1>1. /\ task' \in [Tasks -> Calls]
      /\ task[t].at = "stop" /\ task'[t].at = "leave"
      /\ task'[t].op = task[t].op /\ task'[t].sizes = task[t].sizes
      /\ \A u \in Tasks : u # t => task'[u] = task[u]
  BY Moved DEF Places
<1>2. \A u \in Tasks : u # t => task[u].at = "idle"
  BY <1>1, Alone
<1>3. ~sem /\ ~dma.slot /\ ~dma.done /\ dma.left = <<>>
  BY <1>1, <1>2 DEF Owned, Writing
<1>4. /\ drv' \in Drivers /\ ~drv'.handler /\ ~drv'.irq
      /\ drv'.live = drv.live /\ drv'.state = drv.state /\ drv'.session = drv.session
  BY DEF Shape, Drivers
<1>5. dma' \in Channels /\ ~dma'.slot /\ ~dma'.done /\ dma'.left = <<>>
  BY <1>3 DEF Shape, Channels
<1>6. Shape'
  BY <1>1, <1>4, <1>5 DEF Shape
<1>7. Calling'
  <2> SUFFICES ASSUME NEW u \in Tasks
               PROVE  Calling!(u)'
    BY DEF Calling
  <2>1. CASE u = t
    BY <1>1, <1>4, <2>1 DEF Calling, Writing, Held
  <2>2. CASE u # t
    BY <1>1, <1>2, <2>2 DEF Calling, Writing, Held
  <2> QED BY <2>1, <2>2
<1>8. Owned'
  BY <1>3, <1>4, <1>5 DEF Owned
<1>9. Expected' /\ Placed'
  BY <1>4 DEF Expected, Placed
<1> QED BY <1>6, <1>7, <1>8, <1>9

LEMMA KeepLeave ==
  ASSUME Quietly, OneCall, NEW t \in Tasks, Leave(t)
  PROVE  Quietly'
<1> USE DEF Quietly, Leave
<1>0. PICK stuck \in BOOLEAN :
        /\ task' = [task EXCEPT ![t].at = "done", ![t].ok = @ /\ drv.result /\ ~stuck]
        /\ drv' = [drv EXCEPT !.session = NoSession, !.live = FALSE, !.state = "IDLE",
                              !.result = drv.result /\ ~stuck]
        /\ bus' = [bus EXCEPT !.stuck = stuck]
  OBVIOUS
<1>1. drv' \in Drivers /\ drv'.session = NoSession /\ drv'.state = "IDLE"
      /\ drv'.handler = drv.handler /\ drv'.irq = drv.irq
  <2>1. NoSession \in Sessions /\ "IDLE" \in States
    BY DEF NoSession, Sessions, Ops, States
  <2> QED BY <1>0, <2>1 DEF Shape, Drivers
<1>2. /\ task' \in [Tasks -> Calls]
      /\ task[t].at = "leave" /\ task'[t].at = "done"
      /\ task'[t].op = task[t].op /\ task'[t].sizes = task[t].sizes
      /\ \A u \in Tasks : u # t => task'[u] = task[u]
  <2>1. drv.result \in BOOLEAN
    BY DEF Shape, Drivers
  <2>2. task \in [Tasks -> Calls]
    BY DEF Shape
  <2>3. task[t] \in Calls /\ [task[t] EXCEPT !.at = "done", !.ok = @ /\ drv.result /\ ~stuck] \in Calls
    <3> DEFINE ok == task[t].ok /\ drv.result /\ ~stuck
    <3>1. task[t] \in Calls /\ ok \in BOOLEAN
      BY <1>0, <2>1, <2>2 DEF Calls
    <3>2. [task[t] EXCEPT !.at = "done", !.ok = ok] \in Calls
      <4> HIDE DEF ok
      <4> QED BY <3>1 DEF Calls, Places
    <3> QED BY <3>1, <3>2
  <2>4. task' = [task EXCEPT ![t] = [task[t] EXCEPT !.at = "done", !.ok = @ /\ drv.result /\ ~stuck]]
    BY <1>0, <2>2
  <2>5. task' \in [Tasks -> Calls] /\ \A u \in Tasks : u # t => task'[u] = task[u]
    BY <2>2, <2>3, <2>4
  <2>6. /\ task'[t].at = "done" /\ task'[t].op = task[t].op
        /\ task'[t].sizes = task[t].sizes
    BY <2>2, <2>3, <2>4 DEF Calls
  <2> QED BY <2>5, <2>6
<1>3. \A u \in Tasks : u # t => task[u].at = "idle"
  BY <1>2, Alone
<1>4. ~drv.handler /\ ~drv.irq /\ ~sem /\ ~dma.slot /\ ~dma.done /\ dma.left = <<>>
  BY <1>2, <1>3 DEF Owned, Writing, Held
<1>9. /\ DOMAIN bus' = DOMAIN bus /\ bus'.slave = bus.slave /\ bus'.flag = bus.flag
      /\ bus'.shift = bus.shift /\ bus'.more = bus.more
  BY <1>0 DEF Shape, Quiet
<1>5. Shape'
  BY <1>1, <1>2, <1>9 DEF Shape, Quiet
<1>6. Calling'
  <2> SUFFICES ASSUME NEW u \in Tasks
               PROVE  Calling!(u)'
    BY DEF Calling
  <2>1. CASE u = t
    BY <1>2, <2>1 DEF Calling, Writing, Held
  <2>2. CASE u # t
    BY <1>2, <1>3, <2>2 DEF Calling, Writing, Held
  <2> QED BY <2>1, <2>2
<1>7. Owned'
  BY <1>1, <1>4 DEF Owned
<1>8. Expected' /\ Placed'
  BY <1>1, <1>4, <1>9 DEF Expected, Placed, NoSession, Sending, Receiving
<1> QED BY <1>5, <1>6, <1>7, <1>8

LEMMA KeepReturn ==
  ASSUME Quietly, OneCall, NEW t \in Tasks, Return(t)
  PROVE  Quietly'
<1> USE DEF Quietly, Return
<1>1. /\ task' \in [Tasks -> Calls]
      /\ task[t].at = "done" /\ task'[t].at = "idle"
      /\ task'[t].op = task[t].op /\ task'[t].sizes = task[t].sizes
      /\ \A u \in Tasks : u # t => task'[u] = task[u]
  BY Moved DEF Places
<1>2. Shape' /\ Expected' /\ Placed'
  BY <1>1 DEF Shape, Expected, Placed
<1>3. Calling'
  BY <1>1 DEF Calling, Writing, Held
<1>4. Owned'
  BY <1>1 DEF Owned, Writing, Held
<1> QED BY <1>2, <1>3, <1>4
-----------------------------------------------------------------------------
\* An interrupt comes in a call, and what a slave answers while it waits.
LEMMA InCall ==
  ASSUME Quietly, OneCall, drv.irq
  PROVE  /\ Present /\ ~sem
         /\ \E t \in Tasks : task[t].at \in Held
         /\ bus.flag \in {"addressed", "sent", "received"} =>
              \E t \in Tasks : task[t].at = "wait" /\ task[t].op = drv.session.op
<1>1. PICK t \in Tasks : task[t].at \in Held
  BY DEF Quietly, Owned
<1>2. Present /\ ~sem /\ task[t].op = drv.session.op
  BY <1>1 DEF Quietly, Calling, Owned, Present
<1>3. bus.flag \in {"addressed", "sent", "received"} => task[t].at = "wait"
  BY <1>1 DEF Quietly, Calling, Expected, Held
<1> QED BY <1>1, <1>2, <1>3

\* What no interrupt changes.
LEMMA EventKeeps ==
  ASSUME Quietly, OneCall, \E t \in Tasks : task[t].at \in Held, UNCHANGED task,
         drv' \in Drivers, drv'.handler = drv.handler, drv'.live = drv.live,
         drv'.session.op = drv.session.op, drv'.irq => drv.irq,
         dma' \in Channels, dma'.slot = dma.slot, dma'.cb = dma.cb,
         DOMAIN bus' = DOMAIN bus, bus'.slave = bus.slave
  PROVE  Shape' /\ Calling'
<1>1. Shape'
  BY DEF Quietly, Shape, Quiet
<1>2. \A u \in Tasks : task[u].at # "arm"
  BY DEF OneCall, Held
<1>3. Calling'
  <2> SUFFICES ASSUME NEW u \in Tasks
               PROVE  Calling!(u)'
    BY DEF Calling
  <2> QED BY <1>2 DEF Quietly, Calling, Writing, Held
<1> QED BY <1>1, <1>3

LEMMA StillOwned ==
  ASSUME Quietly, UNCHANGED task, drv'.handler = drv.handler, drv'.irq => drv.irq,
         sem' => ~drv'.irq /\ \E t \in Tasks : task[t].at = "wait",
         dma'.slot = dma.slot, dma'.done => dma'.left = <<>>,
         dma'.done \/ dma'.left # <<>> =>
           drv'.state = "TX_DATA_DMA" /\ \E t \in Tasks : Writing(t, {"wait", "end"})
  PROVE  Owned'
<1>1. drv'.handler => \E t \in Tasks : task'[t].at \in Held
  BY DEF Quietly, Owned
<1>2. dma'.slot => \E t \in Tasks : Writing(t, {"prepare", "arm", "wait", "end"})'
  BY DEF Quietly, Owned, Writing
<1>3. dma'.done \/ dma'.left # <<>> =>
        drv'.state = "TX_DATA_DMA" /\ \E t \in Tasks : Writing(t, {"wait", "end"})'
  BY DEF Writing
<1>4. (drv'.irq => drv'.handler)
      /\ (sem' => ~drv'.irq /\ \E t \in Tasks : task'[t].at = "wait")
  BY DEF Quietly, Owned
<1> QED BY <1>1, <1>2, <1>3, <1>4 DEF Owned

\* Outside a long block the DMA channel rests.
LEMMA Resting ==
  ASSUME Quietly, drv.state # "TX_DATA_DMA"
  PROVE  ~dma.done /\ dma.left = <<>>
BY DEF Quietly, Owned

LEMMA KeepTxStart ==
  ASSUME Quietly, OneCall, TxStart
  PROVE  Quietly'
<1> USE DEF TxStart, Event
<1>1. drv.state = "TX_START" /\ bus.shift = <<>> /\ bus.more = 0 /\ Present /\ ~sem
  BY InCall DEF Quietly, Expected, Start, Sending, Receiving
<1>2. /\ drv' \in Drivers /\ drv'.handler = drv.handler /\ drv'.live = drv.live
      /\ drv'.session = drv.session /\ drv'.irq = drv.irq /\ drv'.state = "TX_ADDR_SENT"
  BY DEF Quietly, Shape, Drivers, States
<1>3. /\ DOMAIN bus' = DOMAIN bus /\ bus'.slave = bus.slave /\ bus'.flag = "address"
      /\ bus'.shift = <<>> /\ bus'.more = 0
  BY <1>1 DEF Quietly, Shape, Quiet
<1>4. Shape' /\ Calling'
  BY <1>2, <1>3, InCall, EventKeeps DEF Quietly, Shape
<1>5. Owned'
  BY <1>1, <1>2, Resting, StillOwned
<1>6. Expected'
  BY <1>2, <1>3 DEF Expected, AddrSent, Sending, Receiving
<1>7. Placed' /\ ~fault'
  BY <1>1, <1>2 DEF Quietly, Placed, Expect
<1> QED BY <1>4, <1>5, <1>6, <1>7 DEF Quietly

LEMMA KeepRxStart ==
  ASSUME Quietly, OneCall, RxStart
  PROVE  Quietly'
<1> USE DEF RxStart, Event
<1>1. drv.state = "RX_START" /\ bus.shift = <<>> /\ bus.more = 0 /\ Present /\ ~sem
  BY InCall DEF Quietly, Expected, Start, Sending, Receiving
<1>2. /\ drv' \in Drivers /\ drv'.handler = drv.handler /\ drv'.live = drv.live
      /\ drv'.session = drv.session /\ drv'.irq = drv.irq /\ drv'.state = "RX_ADDR_SENT"
  BY DEF Quietly, Shape, Drivers, States
<1>3. /\ DOMAIN bus' = DOMAIN bus /\ bus'.slave = bus.slave /\ bus'.flag = "address"
      /\ bus'.shift = <<>> /\ bus'.more = 0
  BY <1>1 DEF Quietly, Shape, Quiet
<1>4. Shape' /\ Calling'
  BY <1>2, <1>3, InCall, EventKeeps DEF Quietly, Shape
<1>5. Owned'
  BY <1>1, <1>2, Resting, StillOwned
<1>6. Expected'
  BY <1>2, <1>3 DEF Expected, AddrSent, Sending, Receiving
<1>7. Placed' /\ ~fault'
  BY <1>1, <1>2 DEF Quietly, Placed, Expect
<1> QED BY <1>4, <1>5, <1>6, <1>7 DEF Quietly

LEMMA KeepRxAddressed ==
  ASSUME Quietly, OneCall, RxAddressed
  PROVE  Quietly'
<1> USE DEF RxAddressed, Event
<1>1. drv.state = "RX_ADDR_SENT" /\ bus.shift = <<>> /\ Present /\ ~sem
  BY InCall DEF Quietly, Expected, AddrSent, Sending
<1>2. /\ drv' \in Drivers /\ drv'.handler = drv.handler /\ drv'.live = drv.live
      /\ drv'.session = drv.session /\ drv'.irq = drv.irq
      /\ drv'.state \in {"RX_DATA", "RX_DATA_1_BYTE"}
  BY DEF Quietly, Shape, Drivers, States, Receiving
<1>3. /\ DOMAIN bus' = DOMAIN bus /\ bus'.slave = bus.slave /\ bus'.flag = "none"
      /\ bus'.shift = <<>>
  BY <1>1 DEF Quietly, Shape, Quiet, Acked
<1>4. Shape' /\ Calling'
  BY <1>2, <1>3, InCall, EventKeeps DEF Quietly, Shape
<1>5. Owned'
  BY <1>1, <1>2, Resting, StillOwned
<1>6. Expected'
  BY <1>2, <1>3 DEF Expected, Receiving, Sending
<1>7. Placed' /\ ~fault'
  BY <1>1, <1>2 DEF Quietly, Placed, Expect
<1> QED BY <1>4, <1>5, <1>6, <1>7 DEF Quietly

LEMMA KeepTxStop ==
  ASSUME Quietly, OneCall, TxStop
  PROVE  Quietly'
<1> USE DEF TxStop, Event
<1>1. drv.state = "TX_STOP" /\ bus.shift = <<>> /\ bus.more = 0 /\ Present /\ ~sem
  BY InCall DEF Quietly, Expected, Sending, Receiving
<1>2. /\ drv' \in Drivers /\ drv'.handler = drv.handler /\ drv'.live = drv.live
      /\ drv'.session = drv.session /\ ~drv'.irq /\ drv'.state = "TX_END"
  BY DEF Quietly, Shape, Drivers, States, Done
<1>3. /\ DOMAIN bus' = DOMAIN bus /\ bus'.slave = bus.slave /\ bus'.flag = "none"
      /\ bus'.shift = <<>> /\ bus'.more = 0
  BY <1>1 DEF Quietly, Shape, Quiet, Acked
<1>4. Shape' /\ Calling'
  BY <1>2, <1>3, InCall, EventKeeps DEF Quietly, Shape
<1>5. Owned'
  BY <1>1, <1>2, InCall, Resting, StillOwned
<1>6. Expected'
  BY <1>2, <1>3 DEF Expected, Sending, Receiving
<1>7. Placed' /\ ~fault'
  BY <1>1, <1>2 DEF Quietly, Placed, Expect
<1> QED BY <1>4, <1>5, <1>6, <1>7 DEF Quietly

LEMMA KeepError ==
  ASSUME Quietly, OneCall, Error
  PROVE  Quietly'
<1> USE DEF Error
<1>1. Present /\ ~sem
  BY InCall
<1>2. /\ drv' \in Drivers /\ drv'.handler = drv.handler /\ drv'.live = drv.live
      /\ drv'.session = drv.session /\ drv'.state = drv.state
      /\ drv'.irq => drv.irq /\ drv' = drv
  BY DEF Quietly, Shape, Drivers
<1>3. /\ DOMAIN bus' = DOMAIN bus /\ bus'.slave = bus.slave /\ bus'.flag \in {"none", "error"}
      /\ bus'.shift = bus.shift /\ bus'.more = bus.more
  BY DEF Quietly, Shape, Quiet
<1>4. Shape' /\ Calling'
  BY <1>2, <1>3, InCall, EventKeeps DEF Quietly, Shape
<1>5. Owned'
  BY <1>1, <1>2, StillOwned DEF Quietly, Owned
<1>6. Expected'
  BY <1>2, <1>3 DEF Quietly, Expected
<1>7. Placed' /\ ~fault'
  BY <1>1, <1>2 DEF Quietly, Placed, Expect
<1> QED BY <1>4, <1>5, <1>6, <1>7 DEF Quietly
-----------------------------------------------------------------------------
\* The place of the next byte: there is room for one in every block.
LEMMA Advances ==
  ASSUME NEW s \in Sessions, \A c \in Blocks(s) : s.sizes[c] > 0, s.block \in Blocks(s)
  PROVE  LET n == Advanced(s)
         IN  /\ n \in Sessions /\ n.op = s.op /\ n.sizes = s.sizes /\ n.block > 0
             /\ n.block \in Blocks(n) => n.index < n.sizes[n.block]
<1>1. s.block \in Nat \ {0} /\ s.index \in Nat /\ s.offset \in Nat
  BY DEF Sessions, Blocks
<1>2. CASE s.index + 1 < s.sizes[s.block]
  <2>1. PICK i \in Nat, o \in Nat : i = s.index + 1 /\ o = s.offset + 1
    BY <1>1
  <2> DEFINE n == [s EXCEPT !.index = i, !.offset = o]
  <2>2. /\ n \in Sessions /\ n.op = s.op /\ n.sizes = s.sizes
        /\ n.block = s.block /\ n.index = s.index + 1
    BY <2>1 DEF Sessions
  <2>3. Advanced(s) = n
    BY <1>2, <2>1 DEF Advanced
  <2> QED BY <1>1, <1>2, <2>2, <2>3
<1>3. CASE ~(s.index + 1 < s.sizes[s.block])
  <2>1. PICK b \in Nat, o \in Nat : b = s.block + 1 /\ o = s.offset + 1
    BY <1>1
  <2> DEFINE n == [s EXCEPT !.block = b, !.index = 0, !.offset = o]
  <2>2. /\ n \in Sessions /\ n.op = s.op /\ n.sizes = s.sizes
        /\ n.block = s.block + 1 /\ n.index = 0
    BY <2>1 DEF Sessions
  <2>3. Blocks(n) = Blocks(s) /\ Advanced(s) = n
    BY <1>3, <2>1, <2>2 DEF Advanced, Blocks
  <2> QED BY <1>1, <2>2, <2>3
<1> QED BY <1>2, <1>3

LEMMA Receives ==
  ASSUME Readable, Quietly, OneCall, RxEvent, NEW next \in {"RX_DATA", "RX_DATA_2_BYTES", "RX_END"},
         NEW d \in {drv, Done(drv, TRUE)}, Received(d, next), next = "RX_END" <=> d # drv,
         d = drv => ~sem', DOMAIN bus' = DOMAIN bus, bus'.slave = bus.slave,
         bus'.flag = "none", bus'.shift = bus.shift
  PROVE  Quietly'
<1> USE DEF RxEvent
<1> DEFINE s == drv.session
           n == IF Beyond(s) THEN s ELSE Advanced(s)
<1>1. /\ drv.state \in Receiving /\ s.op = "read" /\ bus.shift = <<>> /\ Present /\ ~sem
      /\ \E t \in Tasks : task[t].at = "wait"
  BY InCall DEF Quietly, Expected
<1>2. /\ Beyond(s) \/ s.index < s.sizes[s.block]
      /\ n \in Sessions /\ n.op = "read" /\ n.sizes \in Reads /\ n.block > 0
      /\ n.block \in Blocks(n) => n.index < n.sizes[n.block]
  <2>1. /\ s \in Sessions /\ s.sizes \in Reads /\ s.block > 0
        /\ s.block \in Blocks(s) => s.index < s.sizes[s.block]
    BY <1>1 DEF Quietly, Shape, Drivers, Placed
  <2> \A c \in Blocks(s) : s.sizes[c] > 0
    BY <2>1 DEF Readable, Blocks
  <2>2. CASE Beyond(s)
    BY <1>1, <2>1, <2>2 DEF Beyond
  <2>3. CASE s.block \in Blocks(s)
    BY <1>1, <2>1, <2>3, Advances DEF Beyond
  <2> QED BY <2>2, <2>3 DEF Beyond
<1>3. drv' = [d EXCEPT !.session = n, !.state = next]
  BY DEF Received
<1>4. /\ d \in Drivers /\ d.handler = drv.handler /\ d.live = drv.live
      /\ d.irq => d = drv
  BY DEF Quietly, Shape, Drivers, Done
<1> HIDE DEF n
<1>5. /\ drv' \in Drivers /\ drv'.handler = drv.handler /\ drv'.live = drv.live
      /\ drv'.session = n /\ drv'.state = next /\ drv'.irq = d.irq
  BY <1>2, <1>3, <1>4 DEF Drivers, States, Receiving
<1>6. Shape' /\ Calling'
  BY <1>1, <1>2, <1>4, <1>5, InCall, EventKeeps DEF Quietly, Shape
<1>7. Owned'
  BY <1>1, <1>4, <1>5, Resting, StillOwned DEF Receiving
<1>8. Expected'
  BY <1>1, <1>2, <1>4, <1>5 DEF Expected, Receiving, Sending
<1>9. Placed'
  BY <1>2, <1>5 DEF Placed
<1>10. ~fault'
  BY <1>1, <1>2 DEF Expect, Receiving
<1> QED BY <1>6, <1>7, <1>8, <1>9, <1>10 DEF Quietly

LEMMA KeepRxLast ==
  ASSUME Readable, Quietly, OneCall, RxLast
  PROVE  Quietly'
<1>1. RxEvent /\ Received(Done(drv, TRUE), "RX_END") /\ bus' = [Acked EXCEPT !.stopped = TRUE]
      /\ bus.flag = "received" /\ drv.irq
  BY DEF RxLast, RxEvent
<1>2. Done(drv, TRUE) # drv
  BY <1>1 DEF Done, Quietly, Shape, Drivers
<1>3. /\ DOMAIN bus' = DOMAIN bus /\ bus'.slave = bus.slave /\ bus'.flag = "none"
      /\ bus'.shift = bus.shift
  BY <1>1 DEF Acked, Quietly, Shape, Quiet
<1> QED BY <1>1, <1>2, <1>3, Receives

LEMMA KeepRxData ==
  ASSUME Readable, Quietly, OneCall, RxData
  PROVE  Quietly'
<1>1. PICK next \in {"RX_DATA", "RX_DATA_2_BYTES"} : RxEvent /\ Received(drv, next)
  BY DEF RxData
<1>2. bus.flag = "received" /\ drv.irq /\ sem' = sem
  BY DEF RxData, RxEvent
<1>3. ~sem'
  BY <1>2, InCall
<1>4. /\ DOMAIN bus' = DOMAIN bus /\ bus'.slave = bus.slave /\ bus'.flag = "none"
      /\ bus'.shift = bus.shift
  BY <1>2 DEF RxData, Acked, Quietly, Shape, Quiet
<1> QED BY <1>1, <1>3, <1>4, Receives
-----------------------------------------------------------------------------
\* A step of the cells or of the slave: what it needs to change nothing else.
LEMMA CellsKeep ==
  ASSUME Quietly, NEW b, Hardware(b), DOMAIN b = DOMAIN bus,
         \A t \in Tasks : task[t].at # "arm",
         b.slave = "answers" => bus.slave = "answers",
         dma' \in Channels, dma'.slot = dma.slot, dma'.cb = dma.cb, dma'.done => dma'.left = <<>>,
         dma'.done \/ dma'.left # <<>> => dma.left # <<>> \/ dma.done,
         Expected'
  PROVE  Quietly'
<1> USE DEF Hardware, Quietly
<1>1. Shape'
  BY DEF Shape, Quiet
<1>2. Calling'
  BY DEF Calling, Writing, Held
<1>3. Owned'
  BY StillOwned DEF Owned
<1> QED BY <1>1, <1>2, <1>3 DEF Placed

LEMMA KeepAddressed ==
  ASSUME Quietly, Addressed
  PROVE  Quietly'
<1> USE DEF Addressed, Hardware
<1>1. \A t \in Tasks : task[t].at # "arm"
  BY DEF Quietly, Calling
<1>2. PICK flag \in {"addressed", "error"} :
        /\ bus' = [bus EXCEPT !.flag = flag]
        /\ flag = "addressed" => bus.slave = "answers"
  OBVIOUS
<1>3. /\ DOMAIN bus' = DOMAIN bus /\ bus'.slave = bus.slave /\ bus'.flag = flag
      /\ bus'.shift = bus.shift /\ bus'.more = bus.more
  BY <1>2 DEF Quietly, Shape, Quiet
<1>4. Expected'
  BY <1>2, <1>3 DEF Quietly, Expected
<1> QED BY <1>1, <1>3, <1>4, CellsKeep DEF Quietly, Shape, Owned

LEMMA KeepShifts ==
  ASSUME Quietly, Shifts
  PROVE  Quietly'
<1> USE DEF Shifts, Hardware
<1>1. \A t \in Tasks : task[t].at # "arm"
  BY DEF Quietly, Calling
<1>2. bus.more = 0 /\ bus.flag \notin {"address", "addressed", "sent", "received"}
  BY DEF Quietly, Expected
<1>3. /\ DOMAIN bus' = DOMAIN bus /\ bus'.slave = bus.slave /\ bus'.more = 0
      /\ \/ bus'.flag = "sent" /\ bus'.shift = <<>> /\ bus.slave = "answers"
         \/ bus'.flag = bus.flag
         \/ bus'.flag = "error"
  BY <1>2 DEF Quietly, Shape, Quiet
<1>4. Expected'
  BY <1>2, <1>3 DEF Quietly, Expected
<1> QED BY <1>1, <1>3, <1>4, CellsKeep DEF Quietly, Shape, Owned

LEMMA KeepGivesUp ==
  ASSUME Quietly, GivesUp
  PROVE  Quietly'
<1> USE DEF GivesUp, Hardware
<1>1. \A t \in Tasks : task[t].at # "arm"
  BY DEF Quietly, Calling
<1>2. PICK slave \in {"refuses", "silent"} : bus' = [bus EXCEPT !.slave = slave]
  OBVIOUS
<1>3. /\ DOMAIN bus' = DOMAIN bus /\ bus'.slave # "answers" /\ bus'.flag = bus.flag
      /\ bus'.shift = bus.shift /\ bus'.more = bus.more
  BY <1>2 DEF Quietly, Shape, Quiet
<1>4. Expected'
  BY <1>3 DEF Quietly, Expected
<1> QED BY <1>1, <1>3, <1>4, CellsKeep DEF Quietly, Shape, Owned

LEMMA KeepArrives ==
  ASSUME Quietly, Arrives
  PROVE  Quietly'
<1> USE DEF Arrives, Hardware
<1>1. \A t \in Tasks : task[t].at # "arm"
  BY DEF Quietly, Calling
<1>2. /\ DOMAIN bus' = DOMAIN bus /\ bus'.slave = bus.slave /\ bus'.flag = "received"
      /\ bus'.shift = bus.shift
  BY DEF Quietly, Shape, Quiet
<1>3. Expected'
  BY <1>2 DEF Quietly, Expected
<1> QED BY <1>1, <1>2, <1>3, CellsKeep DEF Quietly, Shape, Owned

\* A byte put in the data register: it waits there or goes on.
LEMMA Puts ==
  ASSUME Quietly, NEW b
  PROVE  \A c \in {Put(b), Acked} :
           /\ DOMAIN c = DOMAIN bus /\ c.slave = bus.slave /\ c.more = bus.more
           /\ c.flag \in {"none", "error"}
BY DEF Quietly, Shape, Quiet, Put, Acked

LEMMA KeepFeeds ==
  ASSUME Quietly, OneCall, Feeds
  PROVE  Quietly'
<1> USE DEF Feeds, Hardware
<1>1. drv.state = "TX_DATA_DMA" /\ \E t \in Tasks : Writing(t, {"wait", "end"})
  BY DEF Quietly, Owned
<1>2. \A t \in Tasks : task[t].at # "arm"
  BY <1>1 DEF OneCall, Writing
<1>3. /\ DOMAIN bus' = DOMAIN bus /\ bus'.slave = bus.slave /\ bus'.more = bus.more
      /\ bus'.flag \in {"none", "error"}
  BY Puts
<1>4. /\ Tail(dma.left) \in Seq(Nat \X Nat)
      /\ Len(dma.left) = 1 => Tail(dma.left) = <<>>
  <2>1. dma.left \in Seq(Nat \X Nat) /\ dma.left # <<>>
    BY DEF Quietly, Shape, Channels
  <2> DEFINE left == dma.left
  <2>2. left \in Seq(Nat \X Nat) /\ left # <<>>
    BY <2>1
  <2> HIDE DEF left
  <2>3. PICK rest : rest = Tail(left) /\ rest \in Seq(Nat \X Nat) /\ Len(rest) = Len(left) - 1
    BY <2>2, HeadTailProperties
  <2>4. Len(rest) = 0 => rest = <<>>
    BY <2>3, EmptySeq, Zenon
  <2> QED BY <2>3, <2>4 DEF left
<1>5. /\ dma' \in Channels /\ dma'.slot = dma.slot /\ dma'.cb = dma.cb
      /\ dma'.done => dma'.left = <<>>
  BY <1>4 DEF Quietly, Shape, Channels
<1>6. Expected'
  BY <1>1, <1>3 DEF Quietly, Expected, Sending
<1> QED BY <1>2, <1>3, <1>5, <1>6, CellsKeep DEF Quietly, Shape, Owned
-----------------------------------------------------------------------------
\* The first block from b on that is not empty, if there is one.
LEMMA Least ==
  ASSUME NEW S \in SUBSET Nat, S # {}
  PROVE  \E x \in S : \A y \in S : x <= y
<1>1. PICK x \in S : \A y \in S : ~ <<y, x>> \in OpToRel(<, Nat)
  BY NatLessThanWellFounded, WFMin
<1>2. \A y \in S : ~(y < x)
  BY <1>1 DEF OpToRel
<1>3. \A y \in S : x <= y
  BY <1>2
<1> QED BY <1>3

LEMMA NextValue ==
  ASSUME NEW s \in Sessions, NEW b \in Nat \ {0}, NextBlock(s, b) # 0
  PROVE  NextBlock(s, b) \in Nat /\ s.sizes[NextBlock(s, b)] \in Nat
<1> DEFINE T == {c \in Blocks(s) : c >= b /\ s.sizes[c] # 0}
           First(n) == n >= b /\ s.sizes[n] > 0 /\ \A d \in b .. n - 1 : s.sizes[d] = 0
<1>1. s.sizes \in Seq(Nat) /\ Blocks(s) \subseteq Nat /\ \A c \in Blocks(s) : s.sizes[c] \in Nat
  BY DEF Sessions, Blocks
<1>2. PICK c0 \in Blocks(s) : ~(c0 < b) /\ s.sizes[c0] # 0
  BY DEF NextBlock
<1>3. T \in SUBSET Nat /\ T # {}
  BY <1>1, <1>2
<1> HIDE DEF T
<1>4. PICK c \in T : \A d \in T : c <= d
  BY <1>3, Least
<1>5. c \in Blocks(s) /\ c >= b /\ s.sizes[c] > 0
  BY <1>1, <1>4 DEF T
<1>6. \A d \in b .. c - 1 : d \in Blocks(s) /\ d \notin T
  <2>1. c \in Nat /\ Len(s.sizes) \in Nat /\ c <= Len(s.sizes)
    BY <1>1, <1>5 DEF Blocks
  <2> SUFFICES ASSUME NEW d \in b .. c - 1
               PROVE  d \in Blocks(s) /\ d \notin T
    OBVIOUS
  <2>2. d \in Nat /\ d >= 1 /\ d < c
    BY <2>1
  <2> QED BY <1>3, <1>4, <2>1, <2>2 DEF Blocks
<1>7. First(c)
  BY <1>5, <1>6 DEF T
<1>8. NextBlock(s, b) = CHOOSE n \in Blocks(s) : First(n)
  BY DEF NextBlock
<1> HIDE DEF First
<1>9. NextBlock(s, b) \in Blocks(s)
  BY <1>5, <1>7, <1>8
<1> QED BY <1>1, <1>9

\* What a step that sends keeps of the driver, its channel and the bus.
Drives(d) == /\ d \in Drivers /\ d.handler = drv.handler /\ d.live = drv.live
             /\ d.irq = drv.irq /\ d.session.op = drv.session.op
Channel(d) == d \in Channels /\ d.slot = dma.slot /\ d.cb = dma.cb /\ ~d.done
Wire(b) == /\ DOMAIN b = DOMAIN bus /\ b.slave = bus.slave /\ b.more = bus.more
           /\ b.flag \in {"none", "error"} \/ (b = bus /\ drv.state \in Sending)

\* Sending goes on, byte by byte or by DMA.
LEMMA Sends ==
  ASSUME Quietly, OneCall, \E t \in Tasks : Writing(t, {"wait", "end"}),
         drv.session.op = "write", bus.more = 0, UNCHANGED <<task, sem>>, ~fault',
         Drives(drv'), drv'.state \in Sending,
         drv'.state = "TX_DATA_DMA" => drv'.mode = "dma",
         Channel(dma'), dma'.left # <<>> => drv'.state = "TX_DATA_DMA", Wire(bus')
  PROVE  Quietly'
<1> USE DEF Drives, Channel, Wire
<1>1. \E t \in Tasks : task[t].at \in Held
  BY DEF Writing, Held
<1>2. Shape' /\ Calling'
  BY <1>1, EventKeeps
<1>3. Owned'
  BY StillOwned DEF Quietly, Owned
<1>4. Expected'
  BY DEF Quietly, Expected, Sending, Receiving, Start, AddrSent
<1>5. Placed'
  BY DEF Placed
<1> QED BY <1>2, <1>3, <1>4, <1>5 DEF Quietly

LEMMA AtDrives ==
  ASSUME Quietly, NEW n \in Nat, NEW i \in Nat
  PROVE  /\ Drives(At(drv, n, i))
         /\ At(drv, n, i).state = drv.state /\ At(drv, n, i).mode = drv.mode
<1>1. drv \in Drivers /\ drv.session \in Sessions
  BY DEF Quietly, Shape, Drivers
<1>2. PICK s \in Sessions : s = [drv.session EXCEPT !.block = n, !.index = i]
  BY <1>1 DEF Sessions
<1>3. s.op = drv.session.op
  BY <1>1, <1>2 DEF Sessions
<1>4. At(drv, n, i) = [drv EXCEPT !.session = s]
  BY <1>1, <1>2 DEF At, Drivers
<1> QED BY <1>1, <1>3, <1>4 DEF Drives, Drivers

\* initiateTx() with a block left.
LEMMA Initiates ==
  ASSUME Quietly, OneCall, \E t \in Tasks : Writing(t, {"wait", "end"}),
         drv.session.op = "write", bus.more = 0, UNCHANGED task, ~fault',
         dma.left = <<>>, NEW b \in Nat \ {0}, Initiate(b)
  PROVE  Quietly'
<1>1. PICK n \in Nat : n = NextBlock(drv.session, b) /\ drv.session.sizes[n] \in Nat /\ n # 0
  BY NextValue DEF Initiate, Quietly, Shape, Drivers
<1>2. dma \in Channels
  BY DEF Quietly, Shape
<1>3. CASE Bytes(n)
  <2>1. PICK d : d = At(drv, n, 1) /\ Drives(d)
    BY AtDrives
  <2>2. drv' = [d EXCEPT !.state = "TX_DATA", !.mode = "event"]
    BY <1>3, <2>1 DEF Bytes
  <2>3. Drives(drv') /\ drv'.state = "TX_DATA"
    BY <2>1, <2>2 DEF Drives, Drivers, States, Sending
  <2>4. dma' = [dma EXCEPT !.done = FALSE] /\ UNCHANGED sem
    BY <1>3 DEF Bytes
  <2>5. Channel(dma') /\ dma'.left = dma.left
    BY <1>2, <2>4 DEF Channel, Channels
  <2>6. Wire(bus')
    BY <1>3, Puts DEF Bytes, Wire
  <2> QED BY <2>3, <2>4, <2>5, <2>6, Sends DEF Sending
<1>4. CASE ByDma(n)
  <2>1. PICK d : d = At(drv, n, 0) /\ Drives(d)
    BY AtDrives
  <2>2. drv' = [d EXCEPT !.state = "TX_DATA_DMA", !.mode = "dma"]
    BY <1>4, <2>1 DEF ByDma
  <2>3. Drives(drv') /\ drv'.state = "TX_DATA_DMA" /\ drv'.mode = "dma"
    BY <2>1, <2>2 DEF Drives, Drivers, States, Sending
  <2>4. PICK left \in Seq(Nat \X Nat) : dma' = [dma EXCEPT !.left = left, !.done = FALSE]
    <3> DEFINE left == [i \in 1 .. drv.session.sizes[n] |-> Byte(n, i)]
    <3>1. left \in Seq(Nat \X Nat)
      BY <1>1 DEF Byte
    <3>2. dma' = [dma EXCEPT !.left = left, !.done = FALSE]
      BY <1>4 DEF ByDma
    <3> HIDE DEF left
    <3> QED BY <3>1, <3>2
  <2>5. Channel(dma')
    BY <1>2, <2>4 DEF Channel, Channels
  <2>6. Wire(bus') /\ UNCHANGED sem
    BY <1>4, Puts DEF ByDma, Wire
  <2> QED BY <2>3, <2>5, <2>6, Sends DEF Sending
<1> QED BY <1>1, <1>3, <1>4 DEF Initiate

\* An event of a write comes while its task waits, with nothing on the wire.
LEMMA InWrite ==
  ASSUME Quietly, OneCall, drv.irq, drv.session.op = "write", bus.flag \in {"addressed", "sent"}
  PROVE  /\ Present /\ ~sem /\ bus.more = 0 /\ bus.shift = <<>>
         /\ bus.flag = "addressed" => drv.state = "TX_ADDR_SENT"
         /\ \E t \in Tasks : task[t].at = "wait"
         /\ \E t \in Tasks : Writing(t, {"wait", "end"})
<1>1. IF bus.flag = "sent" THEN drv.state \in Sending ELSE drv.state = "TX_ADDR_SENT"
  BY DEF Quietly, Expected, AddrSent
<1>2. bus.more = 0 /\ bus.shift = <<>>
  BY <1>1 DEF Quietly, Expected, Sending, Receiving
<1> QED BY <1>1, <1>2, InCall DEF Writing

LEMMA KeepTxAddressed ==
  ASSUME Quietly, OneCall, TxAddressed
  PROVE  Quietly'
<1> USE DEF TxAddressed, Event
<1>1. /\ drv.state = "TX_ADDR_SENT" /\ bus.shift = <<>> /\ bus.more = 0 /\ Present /\ ~sem
      /\ \E t \in Tasks : task[t].at = "wait"
      /\ \E t \in Tasks : Writing(t, {"wait", "end"})
      /\ ~dma.done /\ dma.left = <<>>
  BY InWrite, Resting
<1>2. ~fault'
  BY <1>1 DEF Expect
<1>3. CASE Initiate(1)
  BY <1>1, <1>2, <1>3, Initiates
<1>4. CASE ~Initiate(1)
  <2>1. PICK result \in BOOLEAN :
          /\ drv' = Done([drv EXCEPT !.state = "TX_DATA", !.mode = "event"], result)
          /\ sem' = TRUE /\ bus' = Acked /\ UNCHANGED dma
    BY <1>4
  <2>2. /\ drv' \in Drivers /\ drv'.handler = drv.handler /\ drv'.live = drv.live
        /\ drv'.session = drv.session /\ ~drv'.irq /\ drv'.state = "TX_DATA"
    BY <2>1 DEF Quietly, Shape, Drivers, States, Done, Sending
  <2>3. /\ DOMAIN bus' = DOMAIN bus /\ bus'.slave = bus.slave /\ bus'.flag \in {"none", "error"}
        /\ bus'.more = 0
    BY <1>1, <2>1, Puts
  <2>4. Shape' /\ Calling'
    BY <2>1, <2>2, <2>3, InCall, EventKeeps DEF Quietly, Shape
  <2>5. Owned'
    BY <1>1, <2>1, <2>2, StillOwned
  <2>6. Expected'
    BY <2>2, <2>3 DEF Expected, Sending, Receiving
  <2>7. Placed'
    BY <2>2 DEF Quietly, Placed
  <2> QED BY <1>2, <2>4, <2>5, <2>6, <2>7 DEF Quietly
<1> QED BY <1>3, <1>4

LEMMA KeepTxData ==
  ASSUME Quietly, OneCall, TxData
  PROVE  Quietly'
<1> USE DEF TxData, Event
<1>1. drv.state = "TX_DATA" /\ drv.session.op = "write" /\ dma \in Channels
  BY DEF Quietly, Expected, Sending, Shape
<1>2. /\ bus.shift = <<>> /\ bus.more = 0 /\ Present /\ ~sem
      /\ \E t \in Tasks : Writing(t, {"wait", "end"})
      /\ ~dma.done /\ dma.left = <<>>
  BY <1>1, InWrite, Resting
<1>3. ~fault'
  BY <1>2 DEF Expect
<1>4. drv.session.block \in Nat /\ drv.session.index \in Nat /\ Len(drv.session.sizes) \in Nat
  BY DEF Quietly, Shape, Drivers, Sessions
<1>5. CASE Initiate(drv.session.block + 1)
  BY <1>1, <1>2, <1>3, <1>4, <1>5, Initiates
<1>6. CASE ~Initiate(drv.session.block + 1) /\ BlockSent(drv.session)
  <2>1. PICK d : d = At(drv, Len(drv.session.sizes) + 1, 0) /\ Drives(d)
    <3>1. PICK n \in Nat : n = Len(drv.session.sizes) + 1
      BY <1>4
    <3> QED BY <3>1, AtDrives
  <2>2. drv' = [d EXCEPT !.state = "TX_STOP"] /\ UNCHANGED <<bus, dma, sem>>
    BY <1>6, <2>1
  <2>3. Drives(drv') /\ drv'.state = "TX_STOP"
    BY <2>1, <2>2 DEF Drives, Drivers, States, Sending
  <2>4. Channel(dma') /\ Wire(bus')
    BY <1>1, <1>2, <2>2 DEF Channel, Wire, Sending
  <2> QED BY <1>1, <1>2, <1>3, <2>2, <2>3, <2>4, Sends DEF Sending
<1>7. CASE ~Initiate(drv.session.block + 1) /\ ~BlockSent(drv.session)
  <2>1. drv' = At(drv, drv.session.block, drv.session.index + 1) /\ UNCHANGED <<dma, sem>>
    BY <1>7
  <2>2. Drives(drv') /\ drv'.state = "TX_DATA"
    BY <1>1, <1>4, <2>1, AtDrives
  <2>3. Channel(dma')
    BY <1>1, <1>2, <2>1 DEF Channel
  <2>4. PICK b : bus' = Put(b)
    BY <1>7
  <2>5. Wire(bus')
    BY <2>4, Puts DEF Wire
  <2> QED BY <1>1, <1>2, <1>3, <2>1, <2>2, <2>3, <2>5, Sends DEF Sending
<1> QED BY <1>5, <1>6, <1>7

LEMMA KeepDmaDone ==
  ASSUME Quietly, OneCall, DmaDone
  PROVE  Quietly'
<1> USE DEF DmaDone
<1>1. PICK t \in Tasks : Writing(t, {"wait", "end"})
  BY DEF Quietly, Owned
<1>2. /\ drv.state = "TX_DATA_DMA" /\ drv.session.op = "write" /\ dma.left = <<>>
      /\ bus.more = 0 /\ dma.slot /\ dma.cb /\ drv.live
  BY <1>1 DEF Quietly, Owned, Expected, Sending, Calling, Writing, Held
<1>3. ~fault'
  BY <1>2 DEF Expect
<1>4. drv.session.block \in Nat /\ dma \in Channels
  BY DEF Quietly, Shape, Drivers, Sessions
<1>5. CASE Initiate(drv.session.block + 1)
  BY <1>1, <1>2, <1>3, <1>4, <1>5, Initiates
<1>6. CASE ~Initiate(drv.session.block + 1)
  <2>1. PICK d : d = At(drv, drv.session.block + 1, 0) /\ Drives(d)
    BY <1>4, AtDrives
  <2>2. /\ drv' = [d EXCEPT !.state = "TX_STOP", !.mode = "event"]
        /\ dma' = [dma EXCEPT !.done = FALSE] /\ UNCHANGED <<bus, sem, task>>
    BY <1>6, <2>1
  <2>3. Drives(drv') /\ drv'.state = "TX_STOP"
    BY <2>1, <2>2 DEF Drives, Drivers, States, Sending
  <2>4. Channel(dma') /\ dma'.left = <<>> /\ Wire(bus')
    BY <1>2, <1>4, <2>2 DEF Channel, Channels, Wire, Sending
  <2> QED BY <1>1, <1>2, <1>3, <2>2, <2>3, <2>4, Sends DEF Sending
<1> QED BY <1>5, <1>6
-----------------------------------------------------------------------------
LEMMA StepKeeps == Readable /\ IInv /\ OneCall /\ [Next]_vars => IInv'
<1> SUFFICES ASSUME Readable, IInv, OneCall, [Next]_vars, ~overran' PROVE Quietly'
  BY DEF IInv
<1>0. Quietly
  <2>1. overran => overran'
    <3>1. CASE TaskNext
      BY <3>1 DEF TaskNext, Call, Begin, Prepare, Arm, Take, TimesOut, End, Stop, Leave,
         Return, ghosts
    <3>2. CASE Interrupt
      BY <3>2 DEF Interrupt, TxStart, TxAddressed, TxData, TxStop, DmaDone, RxStart,
         RxAddressed, RxLast, RxData, RxEvent, Error, Event, ghosts
    <3>3. CASE Cells \/ GivesUp \/ UNCHANGED vars
      BY <3>3 DEF Cells, Addressed, Shifts, Feeds, Arrives, GivesUp, Hardware, ghosts, vars
    <3> QED BY <3>1, <3>2, <3>3 DEF Next
  <2> QED BY <2>1 DEF IInv
<1>1. CASE UNCHANGED vars
  BY <1>0, <1>1 DEF vars, Quietly, Shape, Calling, Owned, Expected, Placed, Writing
<1>2. CASE TaskNext
  BY <1>0, <1>2, KeepCall, KeepBegin, KeepPrepare, KeepArm, KeepTake, KeepEnd, KeepStop, KeepLeave,
     KeepReturn DEF TaskNext
<1>3. CASE Interrupt
  BY <1>0, <1>3, KeepTxStart, KeepTxAddressed, KeepTxData, KeepTxStop, KeepDmaDone, KeepRxStart,
     KeepRxAddressed, KeepRxLast, KeepRxData, KeepError DEF Interrupt
<1>4. CASE Cells \/ GivesUp
  BY <1>0, <1>4, KeepAddressed, KeepShifts, KeepFeeds, KeepArrives, KeepGivesUp DEF Cells
<1> QED BY <1>1, <1>2, <1>3, <1>4 DEF Next

(***************************************************************************)
(* While calls do not overlap, no assertion of the driver or of its DMA    *)
(* channel fails, whatever the slave does and whenever it stops answering, *)
(* until the timeout of a call expires while the slave still answers.      *)
(***************************************************************************)
THEOREM NoneFails == Readable => (Spec /\ []OneCall => []NoAssertionFails)
<1> SUFFICES ASSUME Readable PROVE Spec /\ []OneCall => []NoAssertionFails
  OBVIOUS
<1>1. IInv /\ OneCall /\ [Next]_vars => IInv'
  BY StepKeeps
<1>2. IInv => NoAssertionFails
  BY DEF IInv, Quietly, NoAssertionFails
<1> QED BY InitHolds, <1>1, <1>2, PTL DEF Spec

(***************************************************************************)
(* One task makes one call at a time: a program in which only one uses the *)
(* bus needs no condition on the calls.                                    *)
(***************************************************************************)
THEOREM OneTaskNeverFails ==
  ASSUME NEW only, Tasks = {only}, Readable
  PROVE  Spec => []NoAssertionFails
<1>1. OneCall
  BY DEF OneCall
<1>2. OneCall => OneCall'
  BY DEF OneCall
<1>3. Spec /\ []OneCall => []NoAssertionFails
  BY NoneFails
<1> QED BY <1>1, <1>2, <1>3, PTL
=============================================================================
