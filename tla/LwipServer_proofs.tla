------------------------- MODULE LwipServer_proofs --------------------------
(***************************************************************************)
(* The echo server over lwIP keeps the order of what it echoes, for any    *)
(* number of clients and bytes and any sizes of the buffers, and fails no  *)
(* assertion while its clients are polite.                                 *)
(***************************************************************************)
EXTENDS LwipServer, SequenceTheorems, TLAPS

Idle == app.at \notin Writing \cup Releasing

LEMMA Places ==
  /\ Writing \cap Releasing = {} /\ Handlers \subseteq Events
  /\ \A p \in Handlers \cup CloserPlaces \cup {"wait", "read"} :
       p \notin Writing \cup Releasing
BY DEF Writing, Releasing, Handlers, CloserPlaces, Dropping, Events

\* What process_events() does next is one of the flags it was given.
LEMMA ProcessShape ==
  ASSUME NEW batch
  PROVE  /\ \/ Process(batch) = Waiting
            \/ \E h \in Handlers \cap batch :
                 Process(batch) = [at |-> h, batch |-> batch, data |-> <<>>, direct |-> FALSE]
         /\ "Down" \in batch /\ "Up" \notin batch => Process(batch).at = "Down"
<1> DEFINE todo  == {i \in 1 .. 5 : Order[i] \in batch}
           first == CHOOSE i \in todo : \A j \in todo : i <= j
<1>1. /\ Order[1] = "Up" /\ Order[2] = "Down" /\ Order[3] = "Disconnected"
      /\ Order[4] = "Connected" /\ Order[5] = "DataAvailable"
  BY DEF Order
<1>2. \A i \in 1 .. 5 : Order[i] \in Handlers
  <2> SUFFICES ASSUME NEW i \in 1 .. 5 PROVE Order[i] \in Handlers
    OBVIOUS
  <2>1. i = 1 \/ i = 2 \/ i = 3 \/ i = 4 \/ i = 5
    OBVIOUS
  <2> QED BY <1>1, <2>1 DEF Handlers
<1>3. ASSUME todo # {}
      PROVE  first \in todo /\ \A j \in todo : first <= j
  <2>1. \E i \in todo : \A j \in todo : i <= j
    <3>1. CASE 1 \in todo
      BY <3>1
    <3>2. CASE 1 \notin todo /\ 2 \in todo
      BY <3>2
    <3>3. CASE 1 \notin todo /\ 2 \notin todo /\ 3 \in todo
      BY <3>3
    <3>4. CASE 1 \notin todo /\ 2 \notin todo /\ 3 \notin todo /\ 4 \in todo
      BY <3>4
    <3>5. CASE todo \subseteq {5}
      BY <1>3, <3>5
    <3>6. \A i \in todo : i = 1 \/ i = 2 \/ i = 3 \/ i = 4 \/ i = 5
      OBVIOUS
    <3> QED BY <3>1, <3>2, <3>3, <3>4, <3>5, <3>6
  <2> QED BY <2>1
<1>4. CASE todo = {}
  <2>1. Process(batch) = Waiting
    BY <1>4 DEF Process
  <2>2. ~("Down" \in batch)
    BY <1>1, <1>4
  <2> QED BY <2>1, <2>2
<1>5. CASE todo # {}
  <2>1. Process(batch) = [Waiting EXCEPT !.at = Order[first], !.batch = batch]
    BY <1>5 DEF Process
  <2>2. first \in 1 .. 5 /\ Order[first] \in Handlers /\ Order[first] \in batch
    BY <1>2, <1>3, <1>5
  <2>3. "Down" \in batch /\ "Up" \notin batch => first = 2
    <3> SUFFICES ASSUME "Down" \in batch, "Up" \notin batch PROVE first = 2
      OBVIOUS
    <3>1. 2 \in todo /\ 1 \notin todo
      BY <1>1
    <3> QED BY <1>3, <1>5, <3>1
  <2> HIDE DEF first, todo
  <2>4. Process(batch) =
          [at |-> Order[first], batch |-> batch, data |-> <<>>, direct |-> FALSE]
    BY <2>1 DEF Waiting
  <2>5. Process(batch).at = Order[first]
    BY <2>4
  <2> QED BY <1>1, <2>2, <2>3, <2>4, <2>5
<1> QED BY <1>4, <1>5

LEMMA ProcessValue ==
  ASSUME NEW batch \in SUBSET Events
  PROVE  /\ Process(batch) \in AppStates /\ Process(batch).data = <<>>
         /\ \/ Process(batch).at = "wait" /\ Process(batch).batch = {}
            \/ /\ Process(batch).at \in Handlers /\ Process(batch).at \in batch
               /\ Process(batch).batch = batch
         /\ "Down" \in batch /\ "Up" \notin batch => Process(batch).at = "Down"
<1>1. /\ Waiting \in AppStates /\ Waiting.data = <<>>
      /\ Waiting.batch = {} /\ Waiting.at = "wait"
  BY DEF Waiting, AppStates, RunnerPlaces, Bytes
<1>2. CASE Process(batch) = Waiting
  BY <1>1, <1>2, ProcessShape
<1>3. ASSUME NEW h \in Handlers \cap batch,
             Process(batch) = [at |-> h, batch |-> batch, data |-> <<>>, direct |-> FALSE]
      PROVE  /\ Process(batch) \in AppStates /\ Process(batch).data = <<>>
             /\ Process(batch).at \in Handlers /\ Process(batch).at \in batch
             /\ Process(batch).batch = batch
  BY <1>3 DEF AppStates, RunnerPlaces
<1> QED BY <1>2, <1>3, ProcessShape

-----------------------------------------------------------------------------
(***************************************************************************)
(* The sequences.  Only the order of their bytes matters: a lemma for each *)
(* way a step changes them.                                                *)
(***************************************************************************)
LEMMA HandValue ==
  ASSUME IInv
  PROVE  /\ peer.got \in Seq(Bytes) /\ pcb.out \in Seq(Bytes)
         /\ sk.queue \in Seq(Bytes) /\ Todo \in Seq(Bytes)
         /\ peer.sent \in Nat /\ peer.conn \in Nat
         /\ app.at \in Writing => /\ Todo = sk.queue /\ Todo # <<>>
                                  /\ app.data = <<Head(sk.queue)>>
         /\ app.at \in Releasing => sk.queue # <<>> /\ Todo = Tail(sk.queue)
         /\ Idle => Todo = sk.queue
<1>1. /\ peer.got \in Seq(Bytes) /\ pcb.out \in Seq(Bytes) /\ sk.queue \in Seq(Bytes)
      /\ peer.sent \in Nat /\ peer.conn \in Nat
  BY DEF IInv, Typed, Peers, PcbStates, SocketStates
<1>2. /\ app.at \in Writing \cup Releasing => sk.queue # <<>>
      /\ app.at \in Writing => app.data = <<Head(sk.queue)>>
  BY DEF IInv, InHand
<1>3. app.at \in Releasing => Todo = Tail(sk.queue)
  BY DEF Todo
<1>4. app.at \notin Releasing => Todo = sk.queue
  BY DEF Todo
<1>5. sk.queue # <<>> => Tail(sk.queue) \in Seq(Bytes)
  BY <1>1
<1> QED BY <1>1, <1>2, <1>3, <1>4, <1>5, Places DEF Idle

\* A step that leaves the sequences alone, or loses some of them.
LEMMA Shrinks ==
  ASSUME IInv,
         peer'.conn = peer.conn, peer'.sent = peer.sent, peer'.got = peer.got,
         pcb'.out \in {pcb.out, <<>>}, sk'.queue \in {sk.queue, <<>>},
         sk'.queue # <<>> => sk'.fifo,
         \/ Idle /\ Idle' /\ app'.data = <<>>
         \/ /\ sk'.queue = sk.queue /\ app'.data = app.data
            /\ app'.at \in Writing <=> app.at \in Writing
            /\ app'.at \in Releasing <=> app.at \in Releasing
            /\ app'.at = "push" => app.at = "push" \/ Len(pcb.out) < SndBuf
  PROVE  /\ Ordered' /\ InHand'
         /\ /\ pcb'.out = pcb.out /\ sk'.queue = sk.queue /\ (Starved' <=> Starved)
            /\ Gapless
            => Gapless'
<1>1. Todo' \in {Todo, <<>>}
  BY HandValue DEF Idle, Todo
<1>2. Len(<<>>) = 0 /\ 1 .. 0 = {}
  OBVIOUS
<1>3. Ordered'
  <2>1. InOrder(peer.got)' /\ InOrder(pcb.out)' /\ InOrder(sk.queue)'
    BY <1>2 DEF IInv, Ordered, InOrder
  <2>2. Before(peer.got, pcb.out)'
    BY <1>2 DEF IInv, Ordered, Before
  <2>3. Before(peer.got, Todo)'
    BY <1>1, <1>2 DEF IInv, Ordered, Before
  <2>4. Before(pcb.out, Todo)'
    BY <1>1, <1>2 DEF IInv, Ordered, Before
  <2> QED BY <2>1, <2>2, <2>3, <2>4 DEF Ordered
<1>4. InHand'
  <2>1. Len(pcb.out) <= SndBuf /\ SndBuf \in Nat \ {0}
    BY LwipAssumption DEF IInv, InHand
  <2>2. Len(pcb'.out) <= SndBuf /\ (Len(pcb.out) < SndBuf => Len(pcb'.out) < SndBuf)
    BY <1>2, <2>1
  <2>3. CASE Idle /\ Idle' /\ app'.data = <<>>
    <3>1. app'.at # "push"
      BY <2>3 DEF Idle, Writing
    <3> QED BY <2>2, <2>3, <3>1 DEF InHand, Idle
  <2>4. CASE /\ sk'.queue = sk.queue /\ app'.data = app.data
             /\ app'.at \in Writing <=> app.at \in Writing
             /\ app'.at \in Releasing <=> app.at \in Releasing
             /\ app'.at = "push" => app.at = "push" \/ Len(pcb.out) < SndBuf
    <3>1. app'.at = "push" => Len(pcb'.out) < SndBuf
      BY <2>2, <2>4 DEF IInv, InHand
    <3> QED BY <2>2, <2>4, <3>1 DEF IInv, InHand
  <2> QED BY <2>3, <2>4
<1>5. ASSUME pcb'.out = pcb.out, sk'.queue = sk.queue, Starved' <=> Starved, Gapless
      PROVE  Gapless'
  <2>1. Todo' = Todo
    BY <1>5, HandValue DEF Idle, Todo
  <2>2. /\ peer'.got = peer.got /\ pcb'.out = pcb.out
        /\ peer'.sent = peer.sent /\ peer'.conn = peer.conn
    BY <1>5
  <2> DEFINE g == peer.got
             o == pcb.out
             t == Todo
  <2>3. /\ \A i \in 1 .. Len(g) : g[i] = <<peer.conn, i>>
        /\ \A i \in 1 .. Len(o) : o[i] = <<peer.conn, Len(g) + i>>
        /\ IF Starved THEN Len(g) + Len(o) < peer.sent
           ELSE /\ Len(g) + Len(o) + Len(t) = peer.sent
                /\ \A i \in 1 .. Len(t) : t[i] = <<peer.conn, Len(g) + Len(o) + i>>
    BY <1>5 DEF Gapless, Byte
  <2>4. Todo' = t /\ peer'.got = g /\ pcb'.out = o
    BY <2>1, <2>2
  <2> HIDE DEF g, o, t
  <2> QED BY <1>5, <2>2, <2>3, <2>4 DEF Gapless, Byte
<1> QED BY <1>3, <1>4, <1>5
-----------------------------------------------------------------------------
(***************************************************************************)
(* The runner.                                                             *)
(***************************************************************************)
LEMMA WakeKeeps ==
  ASSUME IInv, Wake, Quiet, Apart
  PROVE  IInv'
<1>1. /\ app.at = "wait" /\ app' = Process(events) /\ events' = {}
      /\ UNCHANGED <<connected, sk, pcb, fault, polite, link, peer>>
  BY DEF Wake, Quiet, Apart
<1>2. /\ app' \in AppStates /\ app'.data = <<>>
      /\ \/ app'.at = "wait" /\ app'.batch = {}
         \/ /\ app'.at \in Handlers /\ app'.at \in events /\ app'.batch = events
      /\ "Down" \in events /\ "Up" \notin events => app'.at = "Down"
  BY <1>1, ProcessValue DEF IInv, Typed
<1>3. Typed'
  BY <1>1, <1>2 DEF IInv, Typed
<1>4. Ordered' /\ InHand' /\ (Gapless => Gapless')
  BY <1>1, <1>2, Places, Shrinks DEF IInv, InHand, Idle, Starved
<1>5. ASSUME polite PROVE Together' /\ Told'
  <2>1. Together /\ Told
    BY <1>5 DEF IInv, Polite
  <2>2. Together'
    BY <1>1, <1>2, <2>1 DEF Together, Answered, Handlers, CloserPlaces, Dropping
  <2>3. \A e : Pending(e)' => Pending(e)
    BY <1>1, <1>2 DEF Pending
  <2>4. Told'
    BY <1>1, <1>2, <2>1, <2>3 DEF Told, Pending, Handlers, Writing, Starved
  <2> QED BY <2>2, <2>4
<1> QED BY <1>1, <1>3, <1>4, <1>5 DEF IInv, Polite

\* A handler ends, and nothing but the socket or the connection has changed.
LEMMA NextHandler ==
  ASSUME Typed, NEW e \in Handlers, Handled(e)
  PROVE  /\ app' \in AppStates /\ app'.data = <<>> /\ Idle'
         /\ app'.batch \subseteq app.batch \ {e}
         /\ \/ app'.at = "wait" /\ app'.batch = {}
            \/ app'.at \in Handlers /\ app'.at \in app'.batch
<1> DEFINE b == app.batch \ {e}
<1>1. b \in SUBSET Events
  BY DEF Typed, AppStates
<1>2. app' = Process(b)
  BY DEF Handled
<1> HIDE DEF b
<1>3. /\ app' \in AppStates /\ app'.data = <<>>
      /\ \/ app'.at = "wait" /\ app'.batch = {}
         \/ /\ app'.at \in Handlers /\ app'.at \in b
            /\ app'.batch = b
  BY <1>1, <1>2, ProcessValue
<1>4. Idle'
  BY <1>3, Places DEF Idle
<1> QED BY <1>3, <1>4 DEF b

LEMMA HandlersKeep ==
  ASSUME IInv, HandleConnected \/ HandleData, Quiet, Apart
  PROVE  IInv'
<1>1. UNCHANGED <<events, sk, pcb, fault, polite, link, peer>> /\ connected' \in BOOLEAN
  BY DEF IInv, Typed, HandleConnected, HandleData, Quiet, Apart
<1>2. /\ app.at \in {"Connected", "DataAvailable"} /\ app.at \in Handlers
      /\ Handled(app.at) \/ GoTo("read")
  BY DEF HandleConnected, HandleData, Handlers
<1>3. /\ app' \in AppStates /\ app'.data = <<>> /\ Idle /\ Idle'
      /\ app'.batch \subseteq app.batch
      /\ \/ app'.at = "wait" /\ app'.batch = {}
         \/ app'.at \in Handlers /\ app'.at \in app'.batch
         \/ app'.at = "read"
  <2>1. Typed /\ app.data = <<>> /\ Idle
    BY <1>2, Places DEF IInv, InHand, Idle
  <2>2. CASE Handled(app.at)
    BY <1>2, <2>1, <2>2, NextHandler
  <2>3. CASE GoTo("read")
    BY <2>1, <2>3, Places DEF GoTo, Typed, AppStates, RunnerPlaces, Idle
  <2> QED BY <1>2, <2>2, <2>3
<1>4. Typed'
  BY <1>1, <1>3 DEF IInv, Typed
<1>5. Ordered' /\ InHand' /\ (Gapless => Gapless')
  BY <1>1, <1>3, Shrinks DEF IInv, InHand, Starved
<1>6. ASSUME polite PROVE Together' /\ Told'
  <2>1. Together /\ Told
    BY <1>6 DEF IInv, Polite
  <2>2. Together'
    BY <1>1, <1>3, <1>2, <2>1 DEF Together, Answered, Handlers, CloserPlaces, Dropping
  <2>3. \A e : Pending(e)' => Pending(e)
    BY <1>1, <1>3 DEF Pending
  <2>4. Told'
    BY <1>1, <1>2, <1>3, <2>1, <2>3 DEF Told, Handlers, Writing, Starved
  <2> QED BY <2>2, <2>4
<1> QED BY <1>1, <1>4, <1>5, <1>6 DEF IInv, Polite

LEMMA WaitForWriteKeeps ==
  ASSUME IInv, WaitForWrite, Quiet, Apart
  PROVE  IInv'
<1>1. /\ UNCHANGED <<connected, sk, pcb, fault, polite, link, peer>>
      /\ app.at = "canWrite" /\ app' = [app EXCEPT !.at = "write"]
      /\ events' = events \ {"CanWrite"}
  BY DEF WaitForWrite, GoTo, Quiet, Apart
<1>2. /\ app' \in AppStates /\ app'.at = "write" /\ app'.batch = app.batch
      /\ app'.data = app.data
  BY <1>1 DEF IInv, Typed, AppStates, RunnerPlaces, Writing
<1>3. Typed'
  BY <1>1, <1>2 DEF IInv, Typed
<1>4. Ordered' /\ InHand' /\ (Gapless => Gapless')
  BY <1>1, <1>2, Shrinks DEF IInv, InHand, Writing, Releasing, Starved
<1>5. ASSUME polite PROVE Together' /\ Told'
  <2>1. Together /\ Told
    BY <1>5 DEF IInv, Polite
  <2>2. Together'
    BY <1>1, <1>2, <2>1 DEF Together, Answered, CloserPlaces, Dropping
  <2>3. \A e : Pending(e)' => Pending(e)
    BY <1>1, <1>2 DEF Pending
  <2>4. Told'
    BY <1>1, <1>2, <2>1, <2>3 DEF Told, Handlers, Writing, Starved
  <2> QED BY <2>2, <2>4
<1> QED BY <1>1, <1>3, <1>4, <1>5 DEF IInv, Polite
-----------------------------------------------------------------------------
(***************************************************************************)
(* Closing and making sockets.  What a polite client has sent is answered  *)
(* when its connection is closed: the fifo is empty then.                  *)
(***************************************************************************)
LEMMA AllAnswered ==
  ASSUME IInv, polite, Answered
  PROVE  pcb.out = <<>> /\ Todo = <<>> /\ (Idle => sk.queue = <<>>) /\ ~Starved
<1>2. Len(peer.got) \in Nat /\ Len(pcb.out) \in Nat /\ Len(Todo) \in Nat
  BY HandValue, LenProperties
<1>4. ~Starved
  <2> DEFINE a == Len(peer.got)
             b == Len(pcb.out)
  <2>1. Starved => a + b < a
    BY DEF IInv, Polite, Gapless, Answered
  <2>2. a \in Nat /\ b \in Nat
    BY <1>2
  <2> HIDE DEF a, b
  <2>3. ~(a + b < a)
    BY <2>2
  <2> QED BY <2>1, <2>3
<1>1. Len(peer.got) + Len(pcb.out) + Len(Todo) = Len(peer.got)
  BY <1>4 DEF IInv, Polite, Gapless, Answered
<1>3. Len(pcb.out) = 0 /\ Len(Todo) = 0
  <2> DEFINE a == Len(peer.got)
             b == Len(pcb.out)
             c == Len(Todo)
  <2> HIDE DEF a, b, c
  <2>1. a \in Nat /\ b \in Nat /\ c \in Nat /\ a + b + c = a
    BY <1>1, <1>2 DEF a, b, c
  <2>2. b = 0 /\ c = 0
    BY <2>1
  <2> QED BY <2>2 DEF b, c
<1> QED BY <1>3, <1>4, HandValue, EmptySeq

LEMMA CloseKeeps ==
  ASSUME IInv, Close
  PROVE  IInv'
<1>1. /\ app.at \in {"Disconnected", "Up", "Down"} /\ sk.made
      /\ UNCHANGED <<events, polite, link, peer>> /\ connected' = FALSE
      /\ app' = [app EXCEPT !.at = CASE @ = "Disconnected" -> "drop"
                                 [] @ = "Up" -> "dropUp" [] @ = "Down" -> "dropDown"]
      /\ sk.client => OnPcb /\ pcb' = Closed /\ sk' = [sk EXCEPT !.client = FALSE]
      /\ ~sk.client => UNCHANGED <<fault, pcb, sk>>
  BY DEF Close, Apart
<1>2. /\ app' \in AppStates /\ app'.at \in Dropping /\ app'.batch = app.batch
      /\ app.at = "Disconnected" => app'.at = "drop"
      /\ app.at = "Up" => app'.at = "dropUp"
      /\ app.at = "Down" => app'.at = "dropDown"
      /\ app'.data = app.data /\ app.data = <<>> /\ Idle /\ Idle'
  BY <1>1 DEF IInv, Typed, AppStates, CloserPlaces, Dropping, InHand, Writing, Releasing, Idle
<1>3. /\ sk' \in SocketStates /\ sk'.queue = sk.queue /\ sk'.fifo = sk.fifo
      /\ sk'.made /\ sk'.state = sk.state /\ ~sk'.client
  BY <1>1 DEF IInv, Typed, SocketStates
<1>4. pcb' \in PcbStates /\ pcb'.out \in {pcb.out, <<>>}
  <2>1. NoPcb \in PcbStates /\ NoPcb.out = <<>>
    BY DEF NoPcb, PcbStates
  <2> QED BY <1>1, <2>1 DEF IInv, Typed, PcbStates, Closed
<1>5. fault' \in {"none", "assert", "freed"}
  BY <1>1 DEF IInv, Typed, OnPcb
<1>6. Typed'
  BY <1>1, <1>2, <1>3, <1>4, <1>5 DEF IInv, Typed
<1>7. Ordered' /\ InHand' /\ (pcb'.out = pcb.out /\ ~Starved /\ Gapless => Gapless')
  <2>1. ~Starved'
    BY <1>3 DEF Starved
  <2> QED BY <1>1, <1>2, <1>3, <1>4, <2>1, Shrinks DEF IInv, InHand
<1>8. ASSUME polite PROVE Polite'
  <2>1. Together /\ Told /\ fault = "none" /\ Gapless
    BY <1>8 DEF IInv, Polite
  <2>2. app.at \in app.batch /\ app.at # "Up" /\ (~peer.there \/ ~link.up)
    BY <1>1, <2>1 DEF Told, Pending, Handlers
  <2>3. Answered /\ sk.queue = <<>> /\ ~Starved
    BY <1>2, <1>8, <2>1, <2>2, AllAnswered DEF Together
  <2>4. /\ fault' = "none" /\ pcb'.out = pcb.out
        /\ pcb'.alive /\ ~pcb'.closed => FALSE
    BY <1>1, <2>1, <2>3 DEF OnPcb, Closed, Together, IInv, Typed, PcbStates
  <2>5. Answered'
    BY <1>1, <2>3 DEF Answered
  <2>6. sk'.state = "work" => app'.at = "dropDown"
    BY <1>1, <1>2, <1>3, <2>1, <2>2 DEF Together, Told
  <2>7. Together'
    BY <1>2, <1>3, <2>4, <2>5, <2>6 DEF Together, Dropping
  <2>8. Told'
    BY <1>1, <1>2, <1>3, <2>1, <2>2 DEF Told, Pending, Handlers, Dropping, Writing
  <2> QED BY <1>7, <2>1, <2>3, <2>4, <2>7, <2>8 DEF Polite
<1> QED BY <1>1, <1>6, <1>7, <1>8 DEF IInv

\* What every step of dropping the fifo and going on does to the runner.
LEMMA GoOn ==
  ASSUME IInv, app.at \in Dropping,
         GoTo(CASE app.at = "drop" -> "relisten" [] app.at = "dropUp" -> "deleteUp"
                [] app.at = "dropDown" -> "deleteDown")
  PROVE  /\ app' \in AppStates /\ app'.at \in {"relisten", "deleteUp", "deleteDown"}
         /\ app.at = "drop" => app'.at = "relisten"
         /\ app.at = "dropUp" => app'.at = "deleteUp"
         /\ app.at = "dropDown" => app'.at = "deleteDown"
         /\ app'.batch = app.batch /\ app'.data = <<>> /\ Idle /\ Idle'
<1>1. app.data = <<>> /\ Idle
  BY Places DEF IInv, InHand, Idle, CloserPlaces
<1>2. CASE app.at = "drop"
  BY <1>1, <1>2 DEF GoTo, IInv, Typed, AppStates, CloserPlaces, Dropping, Writing, Releasing, Idle
<1>3. CASE app.at = "dropUp"
  BY <1>1, <1>3 DEF GoTo, IInv, Typed, AppStates, CloserPlaces, Dropping, Writing, Releasing, Idle
<1>4. CASE app.at = "dropDown"
  BY <1>1, <1>4 DEF GoTo, IInv, Typed, AppStates, CloserPlaces, Dropping, Writing, Releasing, Idle
<1> QED BY <1>2, <1>3, <1>4 DEF Dropping

LEMMA DropKeeps ==
  ASSUME IInv, DropFifo \/ NoFifo
  PROVE  IInv'
<1>1. /\ app.at \in Dropping
      /\ UNCHANGED <<events, connected, pcb, polite, link, peer>>
      /\ GoTo(CASE app.at = "drop" -> "relisten" [] app.at = "dropUp" -> "deleteUp"
                [] app.at = "dropDown" -> "deleteDown")
      /\ \/ ~sk.fifo /\ UNCHANGED <<sk, fault>>
         \/ sk' = Emptied /\ (IF sk.queue = <<>> THEN UNCHANGED fault ELSE OnPcb)
  BY DEF DropFifo, NoFifo, Apart, Quiet
<1>2. /\ app' \in AppStates /\ app'.at \in {"relisten", "deleteUp", "deleteDown"}
      /\ app.at = "drop" => app'.at = "relisten"
      /\ app.at = "dropUp" => app'.at = "deleteUp"
      /\ app.at = "dropDown" => app'.at = "deleteDown"
      /\ app'.batch = app.batch /\ app'.data = <<>> /\ Idle /\ Idle'
  BY <1>1, GoOn
<1>3. /\ sk' \in SocketStates /\ sk'.queue \in {sk.queue, <<>>} /\ ~sk'.fifo
      /\ sk'.queue # <<>> => sk'.fifo
      /\ sk'.made = sk.made /\ sk'.state = sk.state /\ sk'.client = sk.client
      /\ fault' \in {"none", "assert", "freed"}
  <2>1. /\ sk \in SocketStates /\ fault \in {"none", "assert", "freed"}
        /\ (sk.queue # <<>> => sk.fifo)
    BY DEF IInv, Typed, InHand
  <2>2. CASE ~sk.fifo /\ UNCHANGED <<sk, fault>>
    BY <2>1, <2>2
  <2>3. CASE sk' = Emptied /\ (IF sk.queue = <<>> THEN UNCHANGED fault ELSE OnPcb)
    <3>1. sk' = [sk EXCEPT !.fifo = FALSE, !.queue = <<>>]
      BY <2>3 DEF Emptied
    <3>2. fault' \in {"none", "assert", "freed"}
      BY <2>1, <2>3 DEF OnPcb
    <3>3. sk' \in SocketStates
      <4> DEFINE none == <<>>
      <4>1. none \in Seq(Bytes) /\ sk' = [sk EXCEPT !.fifo = FALSE, !.queue = none]
        BY <3>1
      <4> HIDE DEF none
      <4> QED BY <2>1, <4>1 DEF SocketStates
    <3>4. /\ sk'.queue = <<>> /\ sk'.fifo = FALSE /\ sk'.made = sk.made
          /\ sk'.state = sk.state /\ sk'.client = sk.client
      BY <2>1, <3>1 DEF SocketStates
    <3> QED BY <3>2, <3>3, <3>4
  <2> QED BY <1>1, <2>2, <2>3
<1>4. Typed'
  BY <1>1, <1>2, <1>3 DEF IInv, Typed
<1>5. Ordered' /\ InHand' /\ (sk'.queue = sk.queue /\ Gapless => Gapless')
  BY <1>1, <1>2, <1>3, Shrinks DEF IInv, InHand, Starved
<1>6. ASSUME polite PROVE Polite'
  <2>1. Together /\ Told /\ fault = "none" /\ Gapless
    BY <1>6 DEF IInv, Polite
  <2>2. Answered /\ sk.made /\ ~sk.client
    BY <1>1, <2>1 DEF Together, CloserPlaces
  <2>3. sk.queue = <<>>
    BY <1>2, <1>6, <2>2, AllAnswered
  <2>4. fault' = "none" /\ sk'.queue = sk.queue
    BY <1>1, <1>3, <2>1, <2>3
  <2>5. app.at # "dropUp" /\ Answered'
    BY <1>1, <2>1, <2>2 DEF Answered, Told
  <2>6. Together'
    BY <1>1, <1>2, <1>3, <2>1, <2>2, <2>5 DEF Together, Dropping
  <2>7. Told'
    BY <1>1, <1>2, <1>3, <2>1, <2>5 DEF Told, Pending, Handlers, Dropping, Writing
  <2> QED BY <1>5, <2>1, <2>4, <2>6, <2>7 DEF Polite
<1> QED BY <1>1, <1>4, <1>5, <1>6 DEF IInv

\* Back to listening.
LEMMA RelistenKeeps ==
  ASSUME IInv, Relisten \/ NothingToClose
  PROVE  IInv'
<1>1. /\ app.at \in {"relisten", "Disconnected"} /\ Handled("Disconnected")
      /\ UNCHANGED <<events, pcb, fault, polite, link, peer>> /\ connected' \in BOOLEAN
      /\ \/ app.at = "relisten" /\ sk' = [sk EXCEPT !.state = "listen"]
         \/ app.at = "Disconnected" /\ ~sk.made /\ UNCHANGED sk
  BY DEF Relisten, NothingToClose, Apart, Quiet, IInv, Typed
<1>2. app.data = <<>> /\ Idle
  BY <1>1, Places DEF IInv, InHand, Idle, CloserPlaces, Handlers
<1>3. /\ app' \in AppStates /\ app'.data = <<>> /\ Idle'
      /\ app'.batch \subseteq app.batch
      /\ \/ app'.at = "wait" /\ app'.batch = {}
         \/ app'.at \in Handlers /\ app'.at \in app'.batch
  BY <1>1, NextHandler DEF IInv, Handlers
<1>4. /\ sk' \in SocketStates /\ sk'.queue = sk.queue /\ sk'.fifo = sk.fifo
      /\ sk'.made = sk.made /\ sk'.client = sk.client
      /\ sk'.state = IF app.at = "relisten" THEN "listen" ELSE sk.state
  BY <1>1 DEF IInv, Typed, SocketStates
<1>5. Typed'
  BY <1>1, <1>3, <1>4 DEF IInv, Typed
<1>6. Ordered' /\ InHand' /\ (~sk.client /\ Gapless => Gapless')
  BY <1>1, <1>2, <1>3, <1>4, Shrinks DEF IInv, InHand, Starved
<1>7. ASSUME polite PROVE Together' /\ Told' /\ ~sk.client
  <2>1. Together /\ Told
    BY <1>7 DEF IInv, Polite
  <2>2. ~sk.client /\ (app.at = "relisten" => sk.made)
    BY <1>1, <2>1 DEF Together, CloserPlaces
  <2>3. Together'
    BY <1>1, <1>3, <1>4, <2>1, <2>2
    DEF Together, Answered, Handlers, CloserPlaces, Dropping
  <2>4. \A e : Pending(e)' => Pending(e)
    BY <1>1, <1>3 DEF Pending
  <2>5. Told'
    BY <1>1, <1>3, <1>4, <2>1, <2>2, <2>4 DEF Told, Handlers, Starved
  <2> QED BY <2>2, <2>3, <2>5
<1> QED BY <1>1, <1>5, <1>6, <1>7 DEF IInv, Polite
-----------------------------------------------------------------------------
(***************************************************************************)
(* Making and deleting the socket.                                         *)
(***************************************************************************)
LEMMA MakeKeeps ==
  ASSUME IInv, MakeSocket
  PROVE  IInv'
<1>1. /\ app.at \in {"Up", "deleteUp"} /\ (app.at = "Up" => ~sk.made)
      /\ sk' = Listening /\ connected' = FALSE /\ Handled("Up")
      /\ pcb' = IF sk.client THEN Closed ELSE pcb
      /\ UNCHANGED <<events, fault, polite, link, peer>>
  BY DEF MakeSocket, Apart
<1>2. app.data = <<>> /\ Idle
  BY <1>1, Places DEF IInv, InHand, Idle, CloserPlaces, Handlers
<1>3. /\ app' \in AppStates /\ app'.data = <<>> /\ Idle'
      /\ app'.batch \subseteq app.batch \ {"Up"}
      /\ \/ app'.at = "wait" /\ app'.batch = {}
         \/ app'.at \in Handlers /\ app'.at \in app'.batch
  BY <1>1, NextHandler DEF IInv, Handlers
<1>4. /\ sk' \in SocketStates /\ sk'.queue = <<>> /\ ~sk'.fifo
      /\ sk'.made /\ ~sk'.client /\ sk'.state = "listen"
  <2>1. NoSocket \in SocketStates
    BY DEF SocketStates, NoSocket
  <2>2. sk' = [NoSocket EXCEPT !.made = TRUE, !.state = "listen"]
    BY <1>1 DEF Listening
  <2> QED BY <2>1, <2>2 DEF SocketStates, NoSocket
<1>5. pcb' \in PcbStates /\ pcb'.out \in {pcb.out, <<>>}
  <2>1. NoPcb \in PcbStates /\ NoPcb.out = <<>>
    BY DEF NoPcb, PcbStates
  <2> QED BY <1>1, <2>1 DEF IInv, Typed, PcbStates, Closed
<1>6. Typed'
  BY <1>1, <1>3, <1>4, <1>5 DEF IInv, Typed
<1>7. /\ Ordered' /\ InHand'
      /\ pcb'.out = pcb.out /\ sk'.queue = sk.queue /\ ~sk.client /\ Gapless => Gapless'
  BY <1>1, <1>2, <1>3, <1>4, <1>5, Shrinks DEF IInv, InHand, Starved
<1>8. ASSUME polite PROVE Polite'
  <2>1. Together /\ Told /\ fault = "none" /\ Gapless
    BY <1>8 DEF IInv, Polite
  <2>2. app.at = "Up" /\ "Up" \in app.batch /\ ~sk.made /\ sk = NoSocket /\ link.up
    BY <1>1, <2>1 DEF Told, Together, Handlers, Pending
  <2>3. ~sk.client /\ sk.queue = <<>>
    BY <2>2 DEF NoSocket
  <2>4. pcb' = pcb /\ sk'.queue = sk.queue
    BY <1>1, <1>4, <2>3
  <2>5. Together'
    BY <1>1, <1>3, <1>4, <2>1, <2>3, <2>4
    DEF Together, Answered, Handlers, CloserPlaces, Dropping
  <2>6. Told'
    BY <1>1, <1>3, <1>4, <2>1, <2>2 DEF Told, Handlers, Pending, Starved
  <2> QED BY <1>1, <1>7, <2>1, <2>3, <2>4, <2>5, <2>6 DEF Polite
<1> QED BY <1>1, <1>6, <1>7, <1>8 DEF IInv

LEMMA DeleteKeeps ==
  ASSUME IInv, DeleteSocket
  PROVE  IInv'
<1>1. /\ app.at \in {"Down", "deleteDown"} /\ (app.at = "Down" => ~sk.made)
      /\ sk' = NoSocket /\ connected' = FALSE /\ app' = Waiting
      /\ pcb' = IF sk.client THEN Closed ELSE pcb
      /\ UNCHANGED <<events, fault, polite, link, peer>>
  BY DEF DeleteSocket, Apart
<1>2. app.data = <<>> /\ Idle
  BY <1>1, Places DEF IInv, InHand, Idle, CloserPlaces, Handlers
<1>3. /\ app' \in AppStates /\ app'.data = <<>> /\ app'.at = "wait" /\ app'.batch = {}
      /\ Idle'
  BY <1>1, Places DEF Waiting, AppStates, RunnerPlaces, Idle
<1>4. /\ sk' \in SocketStates /\ sk'.queue = <<>> /\ ~sk'.fifo /\ ~sk'.made
      /\ ~sk'.client /\ sk'.state = "idle"
  BY <1>1 DEF SocketStates, NoSocket
<1>5. pcb' \in PcbStates /\ pcb'.out \in {pcb.out, <<>>}
  <2>1. NoPcb \in PcbStates /\ NoPcb.out = <<>>
    BY DEF NoPcb, PcbStates
  <2> QED BY <1>1, <2>1 DEF IInv, Typed, PcbStates, Closed
<1>6. Typed'
  BY <1>1, <1>3, <1>4, <1>5 DEF IInv, Typed
<1>7. /\ Ordered' /\ InHand'
      /\ pcb'.out = pcb.out /\ sk'.queue = sk.queue /\ ~sk.client /\ Gapless => Gapless'
  BY <1>1, <1>2, <1>3, <1>4, <1>5, Shrinks DEF IInv, InHand, Starved
<1>8. ASSUME polite PROVE Polite'
  <2>1. Together /\ Told /\ fault = "none" /\ Gapless
    BY <1>8 DEF IInv, Polite
  <2>2. ~link.up
    BY <1>1, <2>1 DEF Told, Handlers, Pending
  <2>3. ~sk.client /\ Answered
    BY <1>1, <2>1, <2>2 DEF Together, CloserPlaces, NoSocket
  <2>4. sk.queue = <<>>
    BY <1>2, <1>8, <2>3, AllAnswered
  <2>5. pcb' = pcb /\ sk'.queue = sk.queue /\ Answered'
    BY <1>1, <1>4, <2>3, <2>4 DEF Answered
  <2>6. Together'
    BY <1>1, <1>3, <1>4, <2>1, <2>3, <2>5 DEF Together, CloserPlaces, Dropping
  <2>7. Told'
    BY <1>1, <1>3, <1>4, <2>1, <2>2 DEF Told, Handlers, Pending, Dropping, Starved
  <2> QED BY <1>1, <1>7, <2>1, <2>3, <2>5, <2>6, <2>7 DEF Polite
<1> QED BY <1>1, <1>6, <1>7, <1>8 DEF IInv
-----------------------------------------------------------------------------
(***************************************************************************)
(* The echo: read, write, release.                                         *)
(***************************************************************************)
LEMMA ReadKeeps ==
  ASSUME IInv, Read
  PROVE  IInv'
<1>1. /\ app.at = "read" /\ UNCHANGED <<events, connected, sk, pcb, polite, link, peer>>
      /\ ReadReturns(IF sk.state = "work" /\ sk.queue # <<>>
                     THEN <<Head(sk.queue)>> ELSE <<>>)
      /\ IF sk.state = "work" /\ ~sk.fifo THEN fault' = "assert" ELSE UNCHANGED fault
  BY DEF Read, ReadReturns, Apart
<1>2. app.data = <<>> /\ Idle
  BY <1>1, Places DEF IInv, InHand, Idle
<1>3. fault' \in {"none", "assert", "freed"}
  BY <1>1 DEF IInv, Typed
<1>4. ASSUME polite PROVE Together /\ Told /\ Gapless /\ fault = "none" /\ fault' = "none"
  <2>1. Together /\ Told /\ fault = "none" /\ Gapless
    BY <1>4 DEF IInv, Polite
  <2>2. ~(sk.state = "work" /\ ~sk.fifo)
    BY <1>1, <2>1 DEF Together
  <2> QED BY <1>1, <2>1, <2>2
<1>5. CASE sk.state = "work" /\ sk.queue # <<>>
  <2>1. app' = [app EXCEPT !.at = "write", !.data = <<Head(sk.queue)>>,
                           !.direct = Len(<<Head(sk.queue)>>) >= WriteBuffer]
    BY <1>1, <1>5 DEF ReadReturns
  <2>2. Head(sk.queue) \in Bytes /\ sk.queue \in Seq(Bytes)
    BY <1>5 DEF IInv, Typed, SocketStates
  <2>3. /\ app' \in AppStates /\ app'.at = "write" /\ app'.batch = app.batch
        /\ app'.data = <<Head(sk.queue)>>
    <3> DEFINE d  == <<Head(sk.queue)>>
               di == Len(d) >= WriteBuffer
    <3>1. d \in Seq(Bytes) /\ di \in BOOLEAN /\ app \in AppStates
      BY <2>2 DEF IInv, Typed
    <3>2. "write" \in RunnerPlaces
      BY DEF RunnerPlaces, Writing
    <3> HIDE DEF d, di
    <3>3. app' = [app EXCEPT !.at = "write", !.data = d, !.direct = di]
      BY <2>1 DEF d, di
    <3>4. app' \in AppStates /\ app'.at = "write" /\ app'.batch = app.batch /\ app'.data = d
      BY <3>1, <3>2, <3>3 DEF AppStates
    <3> QED BY <3>4 DEF d
  <2>4. Typed'
    BY <1>1, <1>3, <2>3 DEF IInv, Typed
  <2>5. Todo' = Todo
    BY <1>1, <2>3 DEF Todo, Releasing
  <2>6. Ordered'
    BY <1>1, <2>5 DEF IInv, Ordered, InOrder, Before
  <2>7. InHand'
    BY <1>1, <1>5, <2>3 DEF IInv, InHand, Writing, Releasing
  <2>8. ASSUME polite PROVE Polite'
    <3>1. Gapless'
      BY <1>1, <1>4, <2>5, <2>8 DEF Gapless, Byte, Starved
    <3>2. Together'
      BY <1>1, <1>4, <2>3, <2>8 DEF Together, Answered, CloserPlaces, Dropping
    <3>3. \A e : Pending(e)' => Pending(e)
      BY <1>1, <2>3 DEF Pending
    <3>4. Told'
      BY <1>1, <1>4, <1>5, <2>3, <2>8, <3>3 DEF Told, Handlers, Starved
    <3> QED BY <1>4, <2>8, <3>1, <3>2, <3>4 DEF Polite
  <2> QED BY <1>1, <2>4, <2>6, <2>7, <2>8 DEF IInv
<1>6. CASE ~(sk.state = "work" /\ sk.queue # <<>>)
  <2>1. Handled("DataAvailable")
    BY <1>1, <1>6 DEF ReadReturns
  <2>2. /\ app' \in AppStates /\ app'.data = <<>> /\ Idle'
        /\ app'.batch \subseteq app.batch
        /\ \/ app'.at = "wait" /\ app'.batch = {}
           \/ app'.at \in Handlers /\ app'.at \in app'.batch
    BY <2>1, NextHandler DEF IInv, Handlers
  <2>3. Typed'
    BY <1>1, <1>3, <2>2 DEF IInv, Typed
  <2>4. Ordered' /\ InHand' /\ (Gapless => Gapless')
    BY <1>1, <1>2, <2>2, Shrinks DEF IInv, InHand, Starved
  <2>5. ASSUME polite PROVE Polite'
    <3>1. Together'
      BY <1>1, <1>4, <2>2, <2>5 DEF Together, Answered, Handlers, CloserPlaces, Dropping
    <3>2. \A e : Pending(e)' => Pending(e)
      BY <1>1, <2>2 DEF Pending
    <3>3. Told'
      BY <1>1, <1>4, <2>2, <2>5, <3>2 DEF Told, Handlers, Writing, Starved
    <3> QED BY <1>4, <2>4, <2>5, <3>1, <3>3 DEF Polite
  <2> QED BY <1>1, <2>3, <2>4, <2>5 DEF IInv
<1> QED BY <1>5, <1>6

\* freeReadData(): the oldest segment leaves the fifo; all others were to be
\* written already.
LEMMA ReleaseKeeps ==
  ASSUME IInv, Release
  PROVE  IInv'
<1>1. /\ app.at \in Releasing
      /\ UNCHANGED <<events, connected, pcb, polite, link, peer>>
      /\ IF sk.fifo /\ sk.queue # <<>> THEN sk' = Popped /\ OnPcb
         ELSE fault' = "assert" /\ UNCHANGED sk
      /\ IF app.at = "quit" THEN Handled("DataAvailable") ELSE GoTo("read")
  BY DEF Release, Released, Apart, Releasing
<1>2. sk.queue # <<>> /\ sk.fifo /\ app.data = <<>> /\ Todo = Tail(sk.queue)
  BY <1>1, Places, HandValue DEF IInv, InHand
<1>3. /\ sk' \in SocketStates /\ sk'.queue = Tail(sk.queue) /\ sk'.fifo = sk.fifo
      /\ sk'.made = sk.made /\ sk'.state = sk.state /\ sk'.client = sk.client
  <2>1. sk' = [sk EXCEPT !.queue = Tail(sk.queue)]
    BY <1>1, <1>2 DEF Popped
  <2>2. Tail(sk.queue) \in Seq(Bytes) /\ sk \in SocketStates
    BY <1>2, HandValue DEF IInv, Typed
  <2> DEFINE t == Tail(sk.queue)
  <2> HIDE DEF t
  <2>3. t \in Seq(Bytes) /\ sk' = [sk EXCEPT !.queue = t]
    BY <2>1, <2>2 DEF t
  <2>4. sk' \in SocketStates
    BY <2>2, <2>3 DEF SocketStates
  <2>5. /\ sk'.queue = t /\ sk'.fifo = sk.fifo /\ sk'.made = sk.made
        /\ sk'.state = sk.state /\ sk'.client = sk.client
    BY <2>2, <2>3 DEF SocketStates
  <2> QED BY <2>4, <2>5 DEF t
<1>4. /\ app' \in AppStates /\ app'.data = <<>> /\ Idle'
      /\ app'.batch \subseteq app.batch
      /\ \/ app'.at = "wait" /\ app'.batch = {} /\ app.at = "quit"
         \/ app'.at \in Handlers /\ app'.at \in app'.batch /\ app.at = "quit"
         \/ app'.at = "read" /\ app.at = "release"
  <2>1. CASE app.at = "quit"
    BY <1>1, <2>1, NextHandler DEF IInv, Handlers
  <2>2. CASE app.at = "release"
    BY <1>1, <1>2, <2>2, Places DEF GoTo, IInv, Typed, AppStates, RunnerPlaces, Idle
  <2> QED BY <1>1, <2>1, <2>2 DEF Releasing
<1>5. fault' \in {"none", "assert", "freed"}
  BY <1>1, <1>2 DEF IInv, Typed, OnPcb
<1>6. Typed'
  BY <1>1, <1>3, <1>4, <1>5 DEF IInv, Typed
<1>7. Todo' = Todo
  BY <1>2, <1>3, <1>4 DEF Todo, Idle
<1>8. Ordered'
  <2> DEFINE q == sk.queue
  <2>1. /\ q \in Seq(Bytes) /\ q # <<>>
        /\ \A i \in 1 .. Len(q) : q[i][1] = peer.conn /\ q[i][2] <= peer.sent
        /\ \A i, j \in 1 .. Len(q) : i < j => q[i][2] < q[j][2]
    BY <1>2, HandValue DEF IInv, Ordered, InOrder
  <2> DEFINE t == Tail(q)
  <2>2. t \in Seq(Bytes) /\ Len(t) = Len(q) - 1 /\ Len(q) \in Nat
        /\ \A i \in 1 .. Len(t) : t[i] = q[i + 1]
    BY <2>1
  <2>3. sk'.queue = t
    BY <1>3
  <2> HIDE DEF q, t
  <2>4. \A i \in 1 .. Len(t) : i + 1 \in 1 .. Len(q)
    BY <2>2
  <2>5. \A i \in 1 .. Len(t) : t[i][1] = peer.conn /\ t[i][2] <= peer.sent
    BY <2>1, <2>2, <2>4
  <2>6. \A i, j \in 1 .. Len(t) : i < j => t[i][2] < t[j][2]
    <3> SUFFICES ASSUME NEW i \in 1 .. Len(t), NEW j \in 1 .. Len(t), i < j
                 PROVE  t[i][2] < t[j][2]
      OBVIOUS
    <3>1. i + 1 < j + 1
      OBVIOUS
    <3>2. q[i + 1][2] < q[j + 1][2]
      BY <2>1, <2>4, <3>1
    <3> QED BY <2>2, <3>2
  <2>7. InOrder(sk.queue)'
    BY <1>1, <2>3, <2>5, <2>6 DEF InOrder
  <2> QED BY <1>1, <1>7, <2>7 DEF IInv, Ordered, InOrder, Before
<1>9. InHand'
  BY <1>1, <1>2, <1>3, <1>4 DEF IInv, InHand, Idle, Writing
<1>10. ASSUME polite PROVE Polite'
  <2>1. Together /\ Told /\ fault = "none" /\ Gapless
    BY <1>10 DEF IInv, Polite
  <2>2. sk.client /\ pcb.alive
    BY <1>1, <1>2, <2>1 DEF Told, Together, Releasing, Dropping
  <2>3. fault' = "none"
    BY <1>1, <1>2, <2>1, <2>2 DEF OnPcb
  <2>4. Gapless'
    BY <1>1, <1>3, <1>7, <2>1 DEF Gapless, Byte, Starved
  <2>5. Together'
    BY <1>1, <1>3, <1>4, <2>1, <2>2
    DEF Together, Answered, CloserPlaces, Dropping, Handlers
  <2>6. \A e : Pending(e)' => Pending(e)
    BY <1>1, <1>4 DEF Pending
  <2>7. Told'
    BY <1>1, <1>3, <1>4, <2>1, <2>2, <2>6 DEF Told, Handlers, Writing
  <2> QED BY <2>3, <2>4, <2>5, <2>7 DEF Polite
<1> QED BY <1>1, <1>6, <1>8, <1>9, <1>10 DEF IInv

\* write(): the state and the room are asked for; or no client is served.
LEMMA SizeKeeps ==
  ASSUME IInv, WriteSize
  PROVE  IInv'
<1>1. /\ app.at = "write" /\ sk.state = "work" /\ OnPcb
      /\ UNCHANGED <<events, connected, sk, pcb, polite, link, peer>>
      /\ \/ app' = [app EXCEPT !.at = "canWrite"]
         \/ app' = [app EXCEPT !.at = "push"] /\ Available # 0
  BY DEF WriteSize, WriteReturns, GoTo, Apart
<1>2. /\ app' \in AppStates /\ app'.at \in {"canWrite", "push"}
      /\ app'.batch = app.batch /\ app'.data = app.data
      /\ app'.at = "push" => Available # 0
  BY <1>1 DEF IInv, Typed, AppStates, RunnerPlaces, Writing
<1>6. app'.at = "push" => Len(pcb.out) < SndBuf
  <2>1. Len(pcb.out) \in Nat /\ SndBuf \in Nat /\ Len(pcb.out) <= SndBuf
    BY HandValue, LenProperties, LwipAssumption DEF IInv, InHand
  <2> QED BY <1>2, <2>1 DEF Available
<1>3. Typed'
  BY <1>1, <1>2 DEF IInv, Typed, OnPcb
<1>4. Ordered' /\ InHand' /\ (Gapless => Gapless')
  BY <1>1, <1>2, <1>6, Shrinks DEF IInv, InHand, Writing, Releasing, Starved
<1>5. ASSUME polite PROVE Together' /\ Told' /\ fault' = "none" /\ Gapless
  <2>1. Together /\ Told /\ fault = "none" /\ Gapless
    BY <1>5 DEF IInv, Polite
  <2>2. sk.client /\ pcb.alive
    BY <1>1, <2>1 DEF Together
  <2>3. fault' = "none"
    BY <1>1, <2>1, <2>2 DEF OnPcb
  <2>4. Together'
    BY <1>1, <1>2, <2>1, <2>2 DEF Together, Answered, CloserPlaces, Dropping
  <2>5. \A e : Pending(e)' => Pending(e)
    BY <1>1, <1>2 DEF Pending
  <2>6. Told'
    BY <1>1, <1>2, <2>1, <2>5 DEF Told, Handlers, Writing, Starved
  <2> QED BY <2>1, <2>3, <2>4, <2>6
<1> QED BY <1>1, <1>3, <1>4, <1>5 DEF IInv, Polite

\* A polite client is there until all it sent was written: a write is refused
\* with others only.  One that fails starves it.
LEMMA FailedWriteKeeps ==
  ASSUME IInv, WriteRefused \/ WriteNoMemory
  PROVE  IInv'
<1>1. /\ app.at \in Writing /\ WriteFails
      /\ UNCHANGED <<pcb, polite, link, peer>>
      /\ \/ app.at = "write" /\ sk.state # "work" /\ UNCHANGED <<sk, fault>>
         \/ sk' = [sk EXCEPT !.state = "error"] /\ OnPcb
  BY DEF WriteRefused, WriteNoMemory, Apart, Quiet, Writing
<1>2. ASSUME polite
      PROVE  /\ Together /\ Told /\ Gapless /\ fault = "none" /\ Todo # <<>>
             /\ sk.client /\ sk.state = "work" /\ peer.there /\ pcb.alive /\ ~Starved
  <2>1. Together /\ Told /\ Gapless /\ fault = "none"
    BY <1>2 DEF IInv, Polite
  <2>2. sk.queue # <<>> /\ sk.fifo /\ Todo # <<>>
    BY <1>1, HandValue DEF IInv, InHand
  <2>3. sk.client
    BY <1>1, <2>1, <2>2 DEF Together, Writing, Dropping
  <2>4. ~Answered
    BY <1>2, <2>2, AllAnswered
  <2>5. peer.there
    BY <2>1, <2>4 DEF Together
  <2>6. ~Starved
    BY <1>1, <2>1 DEF Told
  <2>7. sk.state = "work" /\ pcb.alive
    BY <2>1, <2>3, <2>5, <2>6 DEF Together, Starved
  <2> QED BY <2>1, <2>2, <2>3, <2>5, <2>6, <2>7
<1>3. /\ app' \in AppStates /\ app'.at \in Releasing /\ app'.data = <<>>
      /\ app'.batch = app.batch /\ UNCHANGED <<events, connected>>
  <2> DEFINE place == IF app.direct THEN "quit" ELSE "release"
             none  == <<>>
  <2>1. /\ app' = [app EXCEPT !.at = place, !.data = none]
        /\ UNCHANGED <<events, connected>>
    BY <1>1 DEF WriteFails
  <2>2. place \in Releasing /\ place \in RunnerPlaces /\ none \in Seq(Bytes)
    BY DEF Releasing, RunnerPlaces
  <2>3. app \in AppStates
    BY DEF IInv, Typed
  <2> HIDE DEF place, none
  <2>4. app' \in AppStates /\ app'.at = place /\ app'.data = none /\ app'.batch = app.batch
    BY <2>1, <2>2, <2>3 DEF AppStates
  <2> QED BY <2>1, <2>2, <2>4 DEF none
<1>4. /\ sk' \in SocketStates /\ sk'.queue = sk.queue /\ sk'.fifo = sk.fifo
      /\ fault' \in {"none", "assert", "freed"}
  BY <1>1 DEF IInv, Typed, SocketStates, OnPcb
<1>5. Typed'
  BY <1>1, <1>3, <1>4 DEF IInv, Typed
<1>6. Ordered'
  <2> DEFINE q == sk.queue
             t == Tail(sk.queue)
  <2>1. /\ q \in Seq(Bytes) /\ q # <<>> /\ Todo = q /\ Todo' = t /\ sk'.queue = q
    BY <1>1, <1>3, <1>4, HandValue DEF Todo
  <2>2. /\ Len(t) = Len(q) - 1 /\ Len(q) \in Nat
        /\ \A i \in 1 .. Len(t) : t[i] = q[i + 1]
    BY <2>1
  <2> HIDE DEF q, t
  <2>3. \A i \in 1 .. Len(t) : \E k \in 1 .. Len(q) : t[i] = q[k]
    BY <2>2
  <2>4. Before(peer.got, t) /\ Before(pcb.out, t)
    BY <2>1, <2>3 DEF IInv, Ordered, Before
  <2>5. /\ InOrder(peer.got) /\ InOrder(pcb.out) /\ InOrder(q) /\ Before(peer.got, pcb.out)
    BY DEF IInv, Ordered, q
  <2> QED BY <1>1, <2>1, <2>4, <2>5 DEF Ordered, InOrder, Before
<1>7. InHand'
  <2>1. app'.at \notin Writing /\ app'.at # "push"
    BY <1>3 DEF Writing, Releasing
  <2> QED BY <1>1, <1>3, <1>4, <2>1 DEF IInv, InHand
<1>8. ASSUME polite PROVE Polite'
  <2>1. /\ sk' = [sk EXCEPT !.state = "error"] /\ fault' = "none"
    BY <1>1, <1>2, <1>8 DEF OnPcb
  <2>2. /\ sk'.state = "error" /\ sk'.client = sk.client /\ sk'.made = sk.made
        /\ sk'.fifo = sk.fifo
    BY <2>1 DEF IInv, Typed, SocketStates
  <2>3. Starved'
    BY <1>1, <1>2, <1>8, <2>2 DEF Starved
  <2>4. Len(peer.got) + Len(pcb.out) < peer.sent
    <3> DEFINE a == Len(peer.got)
               b == Len(pcb.out)
               c == Len(Todo)
    <3>1. a \in Nat /\ b \in Nat /\ c \in Nat \ {0} /\ peer.sent \in Nat
      BY <1>2, <1>8, HandValue, LenProperties, EmptySeq
    <3>2. a + b + c = peer.sent
      BY <1>2, <1>8 DEF Gapless
    <3> HIDE DEF a, b, c
    <3>3. a + b < peer.sent
      BY <3>1, <3>2
    <3> QED BY <3>3 DEF a, b
  <2>5. Gapless'
    BY <1>1, <1>2, <1>8, <2>3, <2>4 DEF Gapless, Byte
  <2>6. Together'
    BY <1>1, <1>2, <1>3, <1>8, <2>2
    DEF Together, Answered, CloserPlaces, Dropping, Releasing
  <2>7. \A e : Pending(e)' => Pending(e)
    BY <1>1, <1>3 DEF Pending
  <2>8. Told'
    BY <1>1, <1>2, <1>3, <1>8, <2>2, <2>7 DEF Told, Handlers, Writing, Releasing
  <2> QED BY <2>1, <2>5, <2>6, <2>8 DEF Polite
<1> QED BY <1>1, <1>5, <1>6, <1>7, <1>8 DEF IInv

\* write(): the buffer in hand, one byte, which was found to fit.
LEMMA PushValue ==
  ASSUME IInv, WritePush
  PROVE  /\ UNCHANGED <<events, connected, sk, polite, link, peer>> /\ OnPcb
         /\ pcb' \in PcbStates /\ pcb'.alive = pcb.alive /\ pcb'.closed = pcb.closed
         /\ app' \in AppStates /\ app'.batch = app.batch
         /\ pcb'.out = pcb.out \o <<Head(sk.queue)>> /\ Len(pcb.out) < SndBuf
         /\ app'.data = <<>> /\ app'.at = "release"
<1> DEFINE h    == Head(sk.queue)
           out  == pcb.out \o <<h>>
           none == <<>>
<1>1. /\ app.at = "push" /\ OnPcb /\ UNCHANGED <<events, connected, sk, polite, link, peer>>
      /\ pcb' = [pcb EXCEPT !.out = @ \o app.data] /\ WriteReturns(Len(app.data))
  BY DEF WritePush, WriteReturns, Apart
<1>2. /\ app.data = <<h>> /\ h \in Bytes /\ app \in AppStates
      /\ pcb \in PcbStates /\ pcb.out \in Seq(Bytes) /\ Len(pcb.out) < SndBuf
  BY <1>1, HandValue DEF IInv, Typed, InHand, Writing
<1> HIDE DEF h
<1>3. Len(app.data) = 1 /\ 1 + 1 = 2 /\ SubSeq(app.data, 2, 1) = none
  <2>1. <<h>> \in Seq(Bytes) /\ Len(<<h>>) = 1
    BY <1>2
  <2> QED BY <1>2, <2>1, SubSeqEmpty
<1>4. app' = [app EXCEPT !.data = none, !.at = "release"]
  <2>1. app' = [app EXCEPT !.data = SubSeq(@, 1 + 1, Len(@)), !.at = "release"]
    BY <1>1, <1>3 DEF WriteReturns
  <2> QED BY <1>3, <2>1
<1>5. out \in Seq(Bytes) /\ none \in Seq(Bytes) /\ pcb' = [pcb EXCEPT !.out = out]
  BY <1>1, <1>2
<1> HIDE DEF out, none
<1>6. /\ pcb' \in PcbStates /\ pcb'.alive = pcb.alive /\ pcb'.closed = pcb.closed
      /\ pcb'.out = out
  BY <1>2, <1>5 DEF PcbStates
<1>7. /\ app' \in AppStates /\ app'.batch = app.batch /\ app'.data = none
      /\ app'.at = "release"
  BY <1>2, <1>4, <1>5 DEF AppStates, RunnerPlaces, Releasing
<1> QED BY <1>1, <1>2, <1>6, <1>7 DEF out, none, h

\* The oldest byte of the fifo goes to the end of what is on its way back.
LEMMA MovesOn ==
  ASSUME IInv, app.at \in Writing, app'.at \in Releasing,
         UNCHANGED <<sk, peer>>, pcb'.out = pcb.out \o <<Head(sk.queue)>>
  PROVE  Ordered' /\ (~Starved /\ Gapless => Gapless')
<1> DEFINE q == sk.queue
           t == Tail(sk.queue)
           h == Head(sk.queue)
           o == pcb.out
           p == pcb'.out
           g == peer.got
<1>1. /\ q \in Seq(Bytes) /\ q # <<>> /\ o \in Seq(Bytes) /\ g \in Seq(Bytes)
      /\ Todo = q /\ Todo' = t
  BY HandValue, Places DEF Todo
<1>2. /\ Len(q) \in Nat \ {0} /\ h = q[1] /\ h \in Bytes
      /\ Len(t) = Len(q) - 1 /\ \A i \in 1 .. Len(t) : t[i] = q[i + 1]
  BY <1>1
<1>3. /\ Len(o) \in Nat /\ Len(p) = Len(o) + 1 /\ Len(g) \in Nat
      /\ \A i \in 1 .. Len(p) : p[i] = IF i <= Len(o) THEN o[i] ELSE h
  <2>1. <<h>> \in Seq(Bytes) /\ Len(<<h>>) = 1 /\ <<h>>[1] = h
    BY <1>2
  <2>2. p = o \o <<h>>
    OBVIOUS
  <2> QED BY <1>1, <2>1, <2>2, ConcatProperties, LenProperties
<1>4. UNCHANGED <<peer.got, peer.conn, peer.sent, sk.queue>>
  OBVIOUS
<1>5. /\ InOrder(g) /\ InOrder(o) /\ InOrder(q)
      /\ Before(g, o) /\ Before(g, q) /\ Before(o, q)
  BY <1>1 DEF IInv, Ordered
<1>6. ASSUME Gapless, ~Starved
      PROVE  /\ Len(g) + Len(o) + Len(q) = peer.sent
             /\ \A i \in 1 .. Len(g) : g[i] = Byte(i)
             /\ \A i \in 1 .. Len(o) : o[i] = Byte(Len(g) + i)
             /\ \A i \in 1 .. Len(q) : q[i] = Byte(Len(g) + Len(o) + i)
  BY <1>1, <1>6 DEF Gapless
<1> HIDE DEF q, t, h, o, p, g
<1>7. InOrder(p) /\ Before(g, p) /\ Before(g, t) /\ Before(p, t)
  <2>0. /\ \A i \in 1 .. Len(t) : \E k \in 1 .. Len(q) : k > 1 /\ t[i] = q[k]
        /\ \A i \in 1 .. Len(p) : (\E k \in 1 .. Len(o) : p[i] = o[k]) \/ p[i] = q[1]
        /\ 1 \in 1 .. Len(q)
    <3>1. ASSUME NEW i \in 1 .. Len(t)
          PROVE  i + 1 \in 1 .. Len(q) /\ i + 1 > 1 /\ t[i] = q[i + 1]
      BY <1>2
    <3>2. ASSUME NEW i \in 1 .. Len(p), ~(i <= Len(o)) PROVE p[i] = q[1]
      BY <1>2, <1>3, <3>2
    <3>3. ASSUME NEW i \in 1 .. Len(p), i <= Len(o)
          PROVE  i \in 1 .. Len(o) /\ p[i] = o[i]
      BY <1>3, <3>3
    <3>4. 1 \in 1 .. Len(q)
      BY <1>2
    <3> QED BY <3>1, <3>2, <3>3, <3>4
  <2>1. \A i \in 1 .. Len(p) : p[i][1] = peer.conn /\ p[i][2] <= peer.sent
    BY <1>2, <1>3, <1>5 DEF InOrder
  <2>2. \A i, j \in 1 .. Len(p) : i < j => p[i][2] < p[j][2]
    BY <1>2, <1>3, <1>5 DEF InOrder, Before
  <2>3. Before(g, p)
    BY <2>0, <1>5 DEF Before
  <2>4. Before(g, t)
    BY <2>0, <1>5 DEF Before
  <2>5. Before(p, t)
    BY <2>0, <1>5 DEF Before, InOrder
  <2> QED BY <2>1, <2>2, <2>3, <2>4, <2>5 DEF InOrder
<1>8. Ordered'
  BY <1>1, <1>4, <1>5, <1>7 DEF Ordered, InOrder, Before, p, q, t, g
<1>9. ASSUME Gapless, ~Starved PROVE Gapless'
  <2>1. Len(g) + Len(p) + Len(t) = peer.sent
    BY <1>2, <1>3, <1>6, <1>9
  <2>2. \A i \in 1 .. Len(p) : p[i] = Byte(Len(g) + i)
    <3> SUFFICES ASSUME NEW i \in 1 .. Len(p) PROVE p[i] = Byte(Len(g) + i)
      OBVIOUS
    <3>1. CASE i <= Len(o)
      BY <1>3, <1>6, <1>9, <3>1
    <3>2. CASE ~(i <= Len(o))
      <4>1. i = Len(o) + 1 /\ p[i] = q[1]
        BY <1>2, <1>3, <3>2
      <4>2. q[1] = Byte(Len(g) + Len(o) + 1)
        BY <1>2, <1>6, <1>9
      <4>3. Len(g) + Len(o) + 1 = Len(g) + i
        BY <1>3, <4>1
      <4> QED BY <4>1, <4>2, <4>3
    <3> QED BY <3>1, <3>2
  <2>3. \A i \in 1 .. Len(t) : t[i] = Byte(Len(g) + Len(p) + i)
    <3> SUFFICES ASSUME NEW i \in 1 .. Len(t) PROVE t[i] = Byte(Len(g) + Len(p) + i)
      OBVIOUS
    <3>1. t[i] = q[i + 1] /\ i + 1 \in 1 .. Len(q)
      BY <1>2
    <3>2. q[i + 1] = Byte(Len(g) + Len(o) + (i + 1))
      BY <1>6, <1>9, <3>1
    <3>3. Len(g) + Len(o) + (i + 1) = Len(g) + Len(p) + i
      BY <1>2, <1>3
    <3> QED BY <3>1, <3>2, <3>3
  <2>4. \A i : Byte(i)' = Byte(i)
    BY <1>4 DEF Byte
  <2>5. ~Starved'
    BY <1>9 DEF Starved
  <2> QED BY <1>1, <1>4, <1>6, <1>9, <2>1, <2>2, <2>3, <2>4, <2>5 DEF Gapless, p, q, t, g
<1> QED BY <1>8, <1>9

LEMMA PushKeeps ==
  ASSUME IInv, WritePush
  PROVE  IInv'
<1>1. /\ UNCHANGED <<events, connected, sk, polite, link, peer>> /\ OnPcb
      /\ app.at = "push"
      /\ pcb' \in PcbStates /\ pcb'.alive = pcb.alive /\ pcb'.closed = pcb.closed
      /\ pcb'.out = pcb.out \o <<Head(sk.queue)>> /\ Len(pcb.out) < SndBuf
      /\ app' \in AppStates /\ app'.batch = app.batch
      /\ app'.data = <<>> /\ app'.at = "release"
  BY PushValue DEF WritePush
<1>2. Typed'
  BY <1>1 DEF IInv, Typed, OnPcb
<1>5. app.at \in Writing /\ app'.at \in Releasing /\ app'.at \notin Writing
  BY <1>1 DEF Writing, Releasing
<1>3. Ordered' /\ InHand' /\ (~Starved /\ Gapless => Gapless')
  <2>1. Ordered' /\ (~Starved /\ Gapless => Gapless')
    BY <1>1, <1>5, MovesOn
  <2>2. Len(pcb'.out) <= SndBuf
    <3>1. pcb.out \in Seq(Bytes) /\ Len(pcb.out) \in Nat
      BY HandValue
    <3>2. Len(pcb'.out) = Len(pcb.out) + 1
      BY <1>1, <3>1
    <3> QED BY <1>1, <3>1, <3>2, LwipAssumption
  <2>3. InHand'
    BY <1>1, <1>5, <2>2 DEF IInv, InHand
  <2> QED BY <2>1, <2>3
<1>4. ASSUME polite PROVE Polite'
  <2>1. Together /\ Told /\ fault = "none" /\ Gapless
    BY <1>4 DEF IInv, Polite
  <2>2. sk.fifo /\ ~Starved
    BY <1>5, <2>1 DEF IInv, InHand, Told
  <2>3. sk.client /\ pcb.alive
    BY <1>1, <2>1, <2>2 DEF Together, Dropping
  <2>4. fault' = "none"
    BY <1>1, <2>1, <2>3 DEF OnPcb
  <2>5. Together'
    BY <1>1, <2>1, <2>3 DEF Together, Answered, CloserPlaces, Dropping
  <2>6. \A e : Pending(e)' => Pending(e)
    BY <1>1 DEF Pending
  <2>7. Told'
    BY <1>1, <1>5, <2>1, <2>6 DEF Told, Handlers
  <2> QED BY <1>3, <2>1, <2>2, <2>4, <2>5, <2>7 DEF Polite
<1> QED BY <1>1, <1>2, <1>3, <1>4 DEF IInv
-----------------------------------------------------------------------------
(***************************************************************************)
(* The network.                                                            *)
(***************************************************************************)
LEMMA AcceptKeeps ==
  ASSUME IInv, Accept
  PROVE  IInv'
<1>1. /\ sk.made /\ ~sk.client /\ link.up /\ (polite => Settled)
      /\ UNCHANGED <<connected, app, polite, link>>
      /\ \/ sk.fifo /\ fault' = "assert" /\ UNCHANGED <<sk, pcb, peer, events>>
         \/ /\ ~sk.fifo /\ UNCHANGED fault
            /\ sk' = [sk EXCEPT !.state = "work", !.client = TRUE, !.fifo = TRUE]
            /\ pcb' = [alive |-> TRUE, closed |-> FALSE, out |-> <<>>]
            /\ peer' = [conn |-> peer.conn + 1, there |-> TRUE, sent |-> 0, got |-> <<>>]
            /\ events' = events \cup {"Connected"}
  BY DEF Accept, Post
<1>2. ASSUME polite PROVE Together /\ Told /\ fault = "none" /\ Gapless /\ ~sk.fifo
  <2>1. Together /\ Told /\ fault = "none" /\ Gapless
    BY <1>2 DEF IInv, Polite
  <2> QED BY <1>1, <1>2, <2>1 DEF Together, Settled, Dropping
<1>3. CASE sk.fifo
  <2>1. fault' = "assert" /\ UNCHANGED <<sk, pcb, peer, events>>
    BY <1>1, <1>3
  <2>2. Typed'
    BY <1>1, <2>1 DEF IInv, Typed
  <2>3. Ordered' /\ InHand'
    BY <1>1, <2>1 DEF IInv, Ordered, InOrder, Before, InHand, Todo
  <2> QED BY <1>1, <1>2, <1>3, <2>2, <2>3 DEF IInv
<1>4. CASE ~sk.fifo
  <2>1. /\ UNCHANGED fault /\ events' = events \cup {"Connected"}
        /\ sk' = [sk EXCEPT !.state = "work", !.client = TRUE, !.fifo = TRUE]
        /\ pcb' = [alive |-> TRUE, closed |-> FALSE, out |-> <<>>]
        /\ peer' = [conn |-> peer.conn + 1, there |-> TRUE, sent |-> 0, got |-> <<>>]
    BY <1>1, <1>4
  <2>2. sk.queue = <<>> /\ Idle /\ app.data = <<>>
    BY <1>4 DEF IInv, InHand, Idle
  <2>3. /\ sk' \in SocketStates /\ sk'.queue = <<>> /\ sk'.fifo /\ sk'.made
        /\ sk'.state = "work" /\ sk'.client
    <3>1. sk \in SocketStates
      BY DEF IInv, Typed
    <3> QED BY <1>1, <2>1, <2>2, <3>1 DEF SocketStates
  <2>4. /\ pcb' \in PcbStates /\ pcb'.out = <<>> /\ pcb'.alive /\ ~pcb'.closed
        /\ peer' \in Peers /\ peer'.got = <<>> /\ peer'.sent = 0 /\ peer'.there
    <3>1. peer.conn + 1 \in Nat
      BY HandValue
    <3>2. peer' \in Peers /\ peer'.got = <<>> /\ peer'.sent = 0 /\ peer'.there
      BY <2>1, <3>1 DEF Peers
    <3>3. pcb' \in PcbStates /\ pcb'.out = <<>> /\ pcb'.alive /\ ~pcb'.closed
      BY <2>1 DEF PcbStates
    <3> QED BY <3>2, <3>3
  <2>5. Typed'
    BY <1>1, <2>1, <2>3, <2>4 DEF IInv, Typed, Events, Handlers
  <2>6. Todo' = <<>> /\ Len(<<>>) = 0 /\ 1 .. 0 = {}
    BY <1>1, <2>2, <2>3 DEF Todo, Idle
  <2>7. Ordered'
    BY <2>3, <2>4, <2>6 DEF Ordered, InOrder, Before
  <2>8. InHand'
    BY <1>1, <2>2, <2>3, <2>4, <2>6, LwipAssumption DEF InHand, Idle
  <2>9. ASSUME polite PROVE Polite'
    <3>1. Gapless'
      BY <2>3, <2>4, <2>6 DEF Gapless, Starved
    <3>2. app.at = "wait" /\ events = {} /\ app.batch = {}
      BY <1>1, <1>2, <2>9 DEF Settled, Together
    <3>3. Together'
      BY <1>1, <2>3, <2>4, <2>6, <3>2 DEF Together, Answered, CloserPlaces, Dropping
    <3>4. \A e : Pending(e)' => e = "Connected"
      BY <1>1, <2>1, <3>2 DEF Pending
    <3>5. Told'
      BY <1>1, <1>2, <2>1, <2>9, <3>2, <3>4 DEF Told, Handlers, Writing
    <3> QED BY <1>2, <2>1, <2>9, <3>1, <3>3, <3>5 DEF Polite
  <2> QED BY <1>1, <2>5, <2>7, <2>8, <2>9 DEF IInv
<1> QED BY <1>3, <1>4

LEMMA SentOne ==
  ASSUME peer \in Peers, peer' = [peer EXCEPT !.sent = @ + 1]
  PROVE  /\ peer' \in Peers /\ peer'.sent = peer.sent + 1 /\ peer'.there = peer.there
         /\ peer'.got = peer.got /\ peer'.conn = peer.conn
<1> DEFINE n == peer.sent + 1
<1>1. n \in Nat
  BY DEF Peers
<1>2. peer' = [peer EXCEPT !.sent = n]
  BY DEF Peers
<1> HIDE DEF n
<1>3. /\ peer' \in Peers /\ peer'.sent = n /\ peer'.there = peer.there
      /\ peer'.got = peer.got /\ peer'.conn = peer.conn
  BY <1>1, <1>2 DEF Peers
<1> QED BY <1>3 DEF n

\* A segment is queued: it goes to the end of the fifo.
LEMMA Queues ==
  ASSUME IInv, UNCHANGED <<app, pcb>>, sk'.fifo,
         peer' = [peer EXCEPT !.sent = @ + 1],
         sk'.queue = Append(sk.queue, Byte(peer.sent + 1))
  PROVE  Ordered' /\ InHand' /\ (~Starved /\ ~Starved' /\ Gapless => Gapless')
<1> DEFINE q == sk.queue
           p == sk'.queue
           t == Todo
           u == Todo'
           o == pcb.out
           g == peer.got
           n == peer.sent + 1
           b == Byte(n)
<1>1. /\ q \in Seq(Bytes) /\ t \in Seq(Bytes) /\ o \in Seq(Bytes) /\ g \in Seq(Bytes)
      /\ n \in Nat /\ b \in Bytes /\ b[1] = peer.conn /\ b[2] = n /\ peer.sent \in Nat
      /\ p = Append(q, b) /\ UNCHANGED <<pcb.out, app>>
  <2>1. /\ q \in Seq(Bytes) /\ t \in Seq(Bytes) /\ o \in Seq(Bytes) /\ g \in Seq(Bytes)
        /\ peer.conn \in Nat /\ peer.sent \in Nat
    BY HandValue
  <2>2. n \in Nat
    BY <2>1
  <2> HIDE DEF n
  <2>3. b \in Bytes /\ b[1] = peer.conn /\ b[2] = n
    BY <2>1, <2>2 DEF Byte, Bytes
  <2>4. p = Append(q, b)
    BY DEF n
  <2> QED BY <2>1, <2>2, <2>3, <2>4
<1>2. /\ peer'.got = peer.got /\ peer'.conn = peer.conn /\ peer'.sent = n
      /\ peer'.there = peer.there
  BY DEF IInv, Typed, Peers
<1>3. u = Append(t, b)
  <2>1. CASE app.at \in Releasing
    <3>1. q # <<>> /\ t = Tail(q) /\ u = Tail(p)
      BY <1>1, <2>1, HandValue DEF Todo
    <3> HIDE DEF q, p, t, u, b
    <3> QED BY <1>1, <3>1
  <2>2. CASE app.at \notin Releasing
    BY <1>1, <2>2 DEF Todo
  <2> QED BY <2>1, <2>2
<1>4. /\ InOrder(g) /\ InOrder(o) /\ InOrder(q)
      /\ Before(g, o) /\ Before(g, t) /\ Before(o, t)
  BY DEF IInv, Ordered
<1>5. ASSUME Gapless, ~Starved
      PROVE  /\ Len(g) + Len(o) + Len(t) = peer.sent
             /\ \A i \in 1 .. Len(g) : g[i] = Byte(i)
             /\ \A i \in 1 .. Len(o) : o[i] = Byte(Len(g) + i)
             /\ \A i \in 1 .. Len(t) : t[i] = Byte(Len(g) + Len(o) + i)
  BY <1>5 DEF Gapless
<1>6. q # <<>> => Head(p) = Head(q)
  <2> HIDE DEF p, q, b
  <2> QED BY <1>1
<1>7. p # <<>>
  <2> HIDE DEF p, q, b
  <2> QED BY <1>1
<1>8. InHand'
  <2>1. /\ (app.at \in Writing \cup Releasing => q # <<>>) /\ Len(o) <= SndBuf
        /\ app.data = IF app.at \in Writing THEN <<Head(q)>> ELSE <<>>
    BY DEF IInv, InHand
  <2>2. app'.data = IF app'.at \in Writing THEN <<Head(p)>> ELSE <<>>
    BY <1>1, <1>6, <2>1
  <2>3. app'.at = "push" => Len(pcb'.out) < SndBuf
    BY <1>1 DEF IInv, InHand
  <2> QED BY <1>1, <1>7, <2>1, <2>2, <2>3 DEF InHand
<1>9. \A i : Byte(i)' = Byte(i)
  BY <1>2 DEF Byte
<1> HIDE DEF q, p, t, u, o, g, b
<1>10. /\ Len(p) = Len(q) + 1 /\ Len(u) = Len(t) + 1
       /\ Len(q) \in Nat /\ Len(t) \in Nat /\ Len(g) \in Nat /\ Len(o) \in Nat
       /\ \A i \in 1 .. Len(p) : (i \in 1 .. Len(q) /\ p[i] = q[i]) \/ (i = Len(q) + 1 /\ p[i] = b)
       /\ \A i \in 1 .. Len(u) : (i \in 1 .. Len(t) /\ u[i] = t[i]) \/ (i = Len(t) + 1 /\ u[i] = b)
  BY <1>1, <1>3
<1>11. Ordered'
  <2>0. ASSUME NEW s \in Seq(Bytes), InOrder(s)
        PROVE  \A i \in 1 .. Len(s) : s[i][1] = peer.conn /\ s[i][2] \in Nat /\ s[i][2] < n
    <3>1. ASSUME NEW i \in 1 .. Len(s)
          PROVE  s[i][1] = peer.conn /\ s[i][2] \in Nat /\ s[i][2] < n
      <4>1. s[i] \in Bytes
        BY <2>0
      <4>2. s[i][2] \in Nat
        BY <4>1 DEF Bytes
      <4>3. s[i][1] = peer.conn /\ s[i][2] <= peer.sent
        BY <2>0 DEF InOrder
      <4> QED BY <1>1, <4>2, <4>3
    <3> QED BY <3>1
  <2>1. \A i \in 1 .. Len(p) : p[i][1] = peer.conn /\ p[i][2] <= n
    <3>1. \A i \in 1 .. Len(q) : q[i][1] = peer.conn /\ q[i][2] \in Nat /\ q[i][2] < n
      BY <1>1, <1>4, <2>0
    <3> QED BY <1>1, <1>10, <3>1
  <2>2. \A i, j \in 1 .. Len(p) : i < j => p[i][2] < p[j][2]
    <3>1. \A i \in 1 .. Len(q) : q[i][2] \in Nat /\ q[i][2] < n
      BY <1>1, <1>4, <2>0
    <3>2. \A i, j \in 1 .. Len(q) : i < j => q[i][2] < q[j][2]
      BY <1>4 DEF InOrder
    <3> QED BY <1>1, <1>10, <3>1, <3>2
  <2>3. \A i \in 1 .. Len(g) : g[i][1] = peer.conn /\ g[i][2] \in Nat /\ g[i][2] < n
    BY <1>1, <1>4, <2>0
  <2>4. \A i \in 1 .. Len(o) : o[i][1] = peer.conn /\ o[i][2] \in Nat /\ o[i][2] < n
    BY <1>1, <1>4, <2>0
  <2>5. Before(g, u)
    BY <1>1, <1>4, <1>10, <2>3 DEF Before
  <2>6. Before(o, u)
    BY <1>1, <1>4, <1>10, <2>4 DEF Before
  <2>7. InOrder(sk.queue)'
    BY <1>2, <2>1, <2>2 DEF InOrder, p
  <2>8. InOrder(peer.got)'
    BY <1>1, <1>2, <1>4, <2>3 DEF InOrder, g
  <2>9. InOrder(pcb.out)'
    BY <1>1, <1>2, <1>4, <2>4 DEF InOrder, o
  <2>10. Before(peer.got, pcb.out)' /\ Before(peer.got, Todo)' /\ Before(pcb.out, Todo)'
    BY <1>1, <1>2, <1>4, <2>5, <2>6 DEF Before, g, o, u
  <2> QED BY <2>7, <2>8, <2>9, <2>10 DEF Ordered
<1>12. ASSUME Gapless, ~Starved, ~Starved' PROVE Gapless'
  <2>1. Len(g) + Len(o) + Len(u) = n
    BY <1>1, <1>5, <1>10, <1>12
  <2>2. \A i \in 1 .. Len(u) : u[i] = Byte(Len(g) + Len(o) + i)
    <3> SUFFICES ASSUME NEW i \in 1 .. Len(u) PROVE u[i] = Byte(Len(g) + Len(o) + i)
      OBVIOUS
    <3>1. CASE i \in 1 .. Len(t) /\ u[i] = t[i]
      BY <1>5, <1>12, <3>1
    <3>2. CASE i = Len(t) + 1 /\ u[i] = b
      <4>1. Len(g) + Len(o) + i = n
        BY <1>1, <1>5, <1>10, <1>12, <3>2
      <4> QED BY <3>2, <4>1 DEF b
    <3> QED BY <1>10, <3>1, <3>2
  <2>3. UNCHANGED <<peer.got, pcb.out>> /\ peer'.sent = n
    BY <1>1, <1>2
  <2> QED BY <1>5, <1>9, <1>12, <2>1, <2>2, <2>3 DEF Gapless, u, g, o
<1> QED BY <1>8, <1>11, <1>12

\* A segment is dropped: only that it was sent remains.
LEMMA Drops ==
  ASSUME IInv, UNCHANGED <<app, pcb>>, sk'.queue = sk.queue, sk'.fifo = sk.fifo,
         peer' \in {[peer EXCEPT !.sent = @ + 1], [peer EXCEPT !.there = FALSE]}
  PROVE  /\ Ordered' /\ InHand' /\ peer' \in Peers
         /\ peer'.got = peer.got /\ peer'.conn = peer.conn
<1>1. /\ peer' \in Peers /\ peer'.got = peer.got /\ peer'.conn = peer.conn
      /\ peer'.sent \in {peer.sent, peer.sent + 1}
  <2> USE DEF IInv, Typed
  <2>1. CASE peer' = [peer EXCEPT !.sent = @ + 1]
    BY <2>1, SentOne
  <2>2. CASE peer' = [peer EXCEPT !.there = FALSE]
    BY <2>2 DEF IInv, Typed, Peers
  <2> QED BY <2>1, <2>2
<1>2. ASSUME NEW s \in Seq(Bytes), InOrder(s)
      PROVE  \A i \in 1 .. Len(s) : s[i][1] = peer.conn /\ s[i][2] <= peer'.sent
  <2>1. ASSUME NEW i \in 1 .. Len(s)
        PROVE  s[i][1] = peer.conn /\ s[i][2] <= peer'.sent
    <3>1. s[i] \in Bytes
      BY <1>2
    <3>2. s[i][2] \in Nat
      BY <3>1 DEF Bytes
    <3>3. s[i][1] = peer.conn /\ s[i][2] <= peer.sent
      BY <1>2 DEF InOrder
    <3> QED BY <1>1, <3>2, <3>3, HandValue
  <2> QED BY <2>1
<1>3. Todo' = Todo
  BY DEF Todo
<1>4. InOrder(peer.got)' /\ InOrder(pcb.out)' /\ InOrder(sk.queue)'
  <2>1. /\ peer.got \in Seq(Bytes) /\ pcb.out \in Seq(Bytes) /\ sk.queue \in Seq(Bytes)
        /\ InOrder(peer.got) /\ InOrder(pcb.out) /\ InOrder(sk.queue)
    BY HandValue DEF IInv, Ordered
  <2> QED BY <1>1, <1>2, <2>1 DEF InOrder
<1>5. Ordered'
  BY <1>1, <1>3, <1>4 DEF IInv, Ordered, Before
<1>6. InHand'
  BY DEF IInv, InHand
<1> QED BY <1>1, <1>5, <1>6

LEMMA ReceiveKeeps ==
  ASSUME IInv, Receive
  PROVE  IInv'
<1>1. /\ link.up /\ peer.there /\ pcb.alive /\ ~pcb.closed
      /\ polite => peer.sent - Len(peer.got) < FifoSize - 2
      /\ peer' = [peer EXCEPT !.sent = @ + 1]
      /\ UNCHANGED <<connected, app, polite, link, pcb>>
  BY DEF Receive
<1>2. \/ sk.state # "work" /\ UNCHANGED <<sk, events, fault>>
      \/ sk.state = "work" /\ ~sk.fifo /\ fault' = "assert" /\ UNCHANGED <<sk, events>>
      \/ /\ sk.state = "work" /\ sk.fifo /\ UNCHANGED fault
         /\ sk' = [sk EXCEPT !.queue = Queue(Byte(peer.sent + 1))]
         /\ events' = events \cup {"DataAvailable"}
  BY DEF Receive, Incoming, Post
<1>3. /\ peer' \in Peers /\ peer'.there = peer.there /\ peer'.sent = peer.sent + 1
      /\ peer'.got = peer.got /\ peer'.conn = peer.conn
  BY <1>1, SentOne DEF IInv, Typed
<1>4. ASSUME polite
      PROVE  /\ Together /\ Told /\ fault = "none" /\ Gapless
             /\ sk.client /\ sk.fifo /\ sk.made /\ (sk.state = "work" \/ Starved)
  <2>1. Together /\ Told /\ fault = "none" /\ Gapless
    BY <1>4 DEF IInv, Polite
  <2>2. sk.client
    BY <1>1, <2>1 DEF Together
  <2> QED BY <1>1, <2>1, <2>2 DEF Together, Starved
<1>5. CASE \/ sk.state # "work" /\ UNCHANGED <<sk, events, fault>>
           \/ sk.state = "work" /\ ~sk.fifo /\ fault' = "assert" /\ UNCHANGED <<sk, events>>
  <2>1. Typed'
    BY <1>1, <1>3, <1>5 DEF IInv, Typed
  <2>2. Ordered' /\ InHand'
    BY <1>1, <1>5, Drops
  <2>3. ASSUME polite PROVE Polite'
    <3>1. Starved /\ UNCHANGED <<sk, events, fault>>
      BY <1>4, <1>5, <2>3
    <3>2. Starved'
      BY <1>3, <3>1 DEF Starved
    <3>3. Len(peer.got) + Len(pcb.out) < peer'.sent
      <4> DEFINE a == Len(peer.got)
                 b == Len(pcb.out)
      <4>1. a + b < peer.sent
        BY <1>4, <2>3, <3>1 DEF Gapless
      <4>2. a \in Nat /\ b \in Nat /\ peer.sent \in Nat
        BY HandValue, LenProperties
      <4> HIDE DEF a, b
      <4>3. a + b < peer'.sent
        BY <1>3, <4>1, <4>2
      <4> QED BY <4>3 DEF a, b
    <3>4. Gapless'
      BY <1>1, <1>3, <1>4, <2>3, <3>2, <3>3 DEF Gapless, Byte
    <3>5. Together'
      BY <1>1, <1>3, <1>4, <2>3, <3>1 DEF Together, Answered
    <3>6. Told'
      BY <1>1, <1>3, <1>4, <2>3, <3>1 DEF Told, Pending, Starved
    <3> QED BY <1>4, <2>3, <3>1, <3>4, <3>5, <3>6 DEF Polite
  <2> QED BY <1>1, <2>1, <2>2, <2>3 DEF IInv
<1>6. CASE /\ sk.state = "work" /\ sk.fifo /\ UNCHANGED fault
           /\ sk' = [sk EXCEPT !.queue = Queue(Byte(peer.sent + 1))]
           /\ events' = events \cup {"DataAvailable"}
  <2> DEFINE b == Byte(peer.sent + 1)
             p == Queue(b)
  <2>1. /\ sk.queue \in Seq(Bytes) /\ b \in Bytes
    <3>1. sk.queue \in Seq(Bytes) /\ peer.conn \in Nat /\ peer.sent \in Nat
      BY HandValue
    <3>2. peer.sent + 1 \in Nat
      BY <3>1
    <3> QED BY <3>1, <3>2 DEF Byte, Bytes
  <2>2. p \in Seq(Bytes) /\ p \in {sk.queue, Append(sk.queue, b)}
    <3> HIDE DEF b
    <3> QED BY <2>1 DEF Queue
  <2>3. sk' = [sk EXCEPT !.queue = p] /\ sk \in SocketStates
    BY <1>6 DEF IInv, Typed
  <2> HIDE DEF p
  <2>4. /\ sk' \in SocketStates /\ sk'.queue = p /\ sk'.fifo = sk.fifo
        /\ sk'.made = sk.made /\ sk'.state = sk.state /\ sk'.client = sk.client
    BY <2>2, <2>3 DEF SocketStates
  <2>5. Typed'
    BY <1>1, <1>3, <1>6, <2>4 DEF IInv, Typed, Events, Handlers
  <2>6. /\ Ordered' /\ InHand'
        /\ p = Append(sk.queue, b) /\ ~Starved /\ ~Starved' /\ Gapless => Gapless'
    <3>1. CASE p = sk.queue
      <4>1. Ordered' /\ InHand'
        BY <1>1, <2>4, <3>1, Drops
      <4>2. p # Append(sk.queue, b)
        <5> HIDE DEF b
        <5>1. Len(Append(sk.queue, b)) = Len(sk.queue) + 1 /\ Len(sk.queue) \in Nat
          BY <2>1
        <5> QED BY <3>1, <5>1
      <4> QED BY <4>1, <4>2
    <3>2. CASE p = Append(sk.queue, b)
      BY <1>1, <1>6, <2>4, <3>2, Queues
    <3> QED BY <2>2, <3>1, <3>2
  <2>7. ASSUME polite PROVE Polite'
    <3>0. ~Starved /\ ~Starved'
      BY <1>6, <2>4 DEF Starved
    <3>1. Len(sk.queue) # FifoSize - 1
      <4> DEFINE g == Len(peer.got)
                 o == Len(pcb.out)
                 t == Len(Todo)
                 q == Len(sk.queue)
      <4>1. g + o + t = peer.sent /\ peer.sent - g < FifoSize - 2
        BY <1>1, <1>4, <2>7, <3>0 DEF Gapless
      <4>2. g \in Nat /\ o \in Nat /\ t \in Nat /\ q \in Nat /\ peer.sent \in Nat /\ FifoSize \in Nat
        BY HandValue, LenProperties, LwipAssumption
      <4>3. q <= t + 1
        <5>1. CASE app.at \in Releasing
          <6>1. sk.queue # <<>> /\ Todo = Tail(sk.queue)
            BY <5>1, HandValue
          <6> QED BY <2>1, <6>1
        <5>2. CASE app.at \notin Releasing
          BY <4>2, <5>2 DEF Todo
        <5> QED BY <5>1, <5>2
      <4> HIDE DEF g, o, t, q
      <4>4. q # FifoSize - 1
        BY <4>1, <4>2, <4>3
      <4> QED BY <4>4 DEF q
    <3>2. p = Append(sk.queue, b)
      BY <3>1 DEF p, Queue
    <3>3. Together'
      BY <1>1, <1>3, <1>4, <1>6, <2>4, <2>7 DEF Together, Answered
    <3>4. \A e : Pending(e)' => Pending(e) \/ e = "DataAvailable"
      BY <1>1, <1>6 DEF Pending
    <3>5. Told'
      BY <1>1, <1>3, <1>4, <1>6, <2>4, <2>7, <3>0, <3>4 DEF Told, Handlers
    <3> QED BY <1>4, <1>6, <2>6, <2>7, <3>0, <3>2, <3>3, <3>5 DEF Polite
  <2> QED BY <1>1, <2>5, <2>6, <2>7 DEF IInv
<1> QED BY <1>2, <1>5, <1>6

\* FIN: a polite client has got all back.
LEMMA FinKeeps ==
  ASSUME IInv, ReceiveFin
  PROVE  IInv'
<1>1. /\ link.up /\ peer.there /\ pcb.alive /\ ~pcb.closed /\ (polite => Answered)
      /\ peer' = [peer EXCEPT !.there = FALSE]
      /\ UNCHANGED <<connected, app, polite, link, pcb>>
  BY DEF ReceiveFin
<1>2. \/ sk.state # "work" /\ UNCHANGED <<sk, events, fault>>
      \/ sk.state = "work" /\ ~sk.fifo /\ fault' = "assert" /\ UNCHANGED <<sk, events>>
      \/ /\ sk.state = "work" /\ sk.fifo /\ UNCHANGED fault
         /\ sk' = [sk EXCEPT !.state = "error"]
         /\ events' = events \cup {"Disconnected"}
  BY DEF ReceiveFin, Incoming, Disconnected, Post
<1>3. /\ peer' \in Peers /\ ~peer'.there /\ peer'.sent = peer.sent
      /\ peer'.got = peer.got /\ peer'.conn = peer.conn
  BY <1>1 DEF IInv, Typed, Peers
<1>4. /\ sk' \in SocketStates /\ sk'.queue = sk.queue /\ sk'.fifo = sk.fifo
      /\ sk'.made = sk.made /\ sk'.client = sk.client
      /\ fault' \in {"none", "assert", "freed"}
      /\ events' \in SUBSET Events /\ events' \subseteq events \cup {"Disconnected"}
  BY <1>2 DEF IInv, Typed, SocketStates, Events, Handlers
<1>5. Typed'
  BY <1>1, <1>3, <1>4 DEF IInv, Typed
<1>6. Ordered' /\ InHand'
  BY <1>1, <1>4, Drops
<1>7. ASSUME polite PROVE Polite'
  <2>1. Together /\ Told /\ fault = "none" /\ Gapless
    BY <1>7 DEF IInv, Polite
  <2>9. ~Starved /\ ~Starved'
    BY <1>1, <1>3, <1>7, AllAnswered DEF Starved
  <2>2. sk.client /\ sk.made /\ sk.fifo /\ sk.state = "work"
    BY <1>1, <2>1, <2>9 DEF Together, Starved
  <2>3. UNCHANGED fault /\ sk' = [sk EXCEPT !.state = "error"]
    BY <1>2, <2>2
  <2>4. sk'.state = "error"
    BY <2>3 DEF IInv, Typed, SocketStates
  <2>5. Gapless'
    <3>1. Todo' = Todo
      BY <1>1, <1>4 DEF Todo
    <3> QED BY <1>1, <1>3, <2>1, <2>9, <3>1 DEF Gapless, Byte
  <2>6. Together'
    BY <1>1, <1>3, <1>4, <1>7, <2>1, <2>2, <2>4 DEF Together, Answered
  <2>7. \A e : Pending(e)' => Pending(e) \/ e = "Disconnected"
    BY <1>1, <1>4 DEF Pending
  <2>8. Told'
    BY <1>1, <1>3, <1>4, <2>1, <2>7, <2>9 DEF Told, Handlers
  <2> QED BY <2>1, <2>3, <2>5, <2>6, <2>8 DEF Polite
<1> QED BY <1>1, <1>5, <1>6, <1>7 DEF IInv

LEMMA ErrorKeeps ==
  ASSUME IInv, ConnectionError
  PROVE  IInv'
<1>1. /\ ~polite /\ UNCHANGED <<connected, app, polite, link>>
      /\ pcb' = [NoPcb EXCEPT !.closed = pcb.closed]
      /\ peer' = [peer EXCEPT !.there = FALSE]
      /\ \/ sk' = [sk EXCEPT !.state = "error"] /\ UNCHANGED fault
            /\ events' = events \cup {"Disconnected"}
         \/ fault' = "freed" /\ UNCHANGED <<sk, events>>
  BY DEF ConnectionError, Disconnected, Post
<1>2. /\ peer' \in Peers /\ peer'.sent = peer.sent
      /\ peer'.got = peer.got /\ peer'.conn = peer.conn
  BY <1>1 DEF IInv, Typed, Peers
<1>3. /\ sk' \in SocketStates /\ sk'.queue = sk.queue /\ sk'.fifo = sk.fifo
      /\ fault' \in {"none", "assert", "freed"} /\ events' \in SUBSET Events
  BY <1>1 DEF IInv, Typed, SocketStates, Events, Handlers
<1>4. pcb' \in PcbStates /\ pcb'.out = <<>>
  <2>1. NoPcb \in PcbStates /\ NoPcb.out = <<>> /\ pcb.closed \in BOOLEAN
    BY DEF NoPcb, PcbStates, IInv, Typed
  <2> QED BY <1>1, <2>1 DEF PcbStates
<1>5. Typed'
  BY <1>1, <1>2, <1>3, <1>4 DEF IInv, Typed
<1>6. Ordered' /\ InHand'
  BY <1>1, <1>2, <1>3, <1>4, Shrinks DEF IInv, InHand
<1> QED BY <1>1, <1>5, <1>6 DEF IInv

\* What is on its way arrives behind what the client has.
LEMMA AcknowledgeKeeps ==
  ASSUME IInv, Acknowledge
  PROVE  IInv'
<1> DEFINE g == peer.got
           o == pcb.out
           p == peer.got \o pcb.out
           t == Todo
<1>1. /\ link.up /\ pcb.alive /\ UNCHANGED <<connected, app, polite, link, sk>>
      /\ peer' = [peer EXCEPT !.got = p] /\ pcb' = [pcb EXCEPT !.out = <<>>]
      /\ \/ sk.made /\ events' = events \cup {"CanWrite"} /\ UNCHANGED fault
         \/ ~sk.made /\ fault' = "freed" /\ UNCHANGED events
  BY DEF Acknowledge, Post
<1>2. /\ g \in Seq(Bytes) /\ o \in Seq(Bytes) /\ t \in Seq(Bytes)
      /\ Len(g) \in Nat /\ Len(o) \in Nat /\ Len(t) \in Nat
      /\ p \in Seq(Bytes) /\ Len(p) = Len(g) + Len(o)
      /\ \A i \in 1 .. Len(p) : p[i] = IF i <= Len(g) THEN g[i] ELSE o[i - Len(g)]
  <2>1. g \in Seq(Bytes) /\ o \in Seq(Bytes) /\ t \in Seq(Bytes)
    BY HandValue
  <2>2. p = g \o o
    OBVIOUS
  <2> HIDE DEF g, o, p, t
  <2>3. Len(g) \in Nat /\ Len(o) \in Nat /\ Len(t) \in Nat
    BY <2>1, LenProperties
  <2> QED BY <2>1, <2>2, <2>3, ConcatProperties
<1>3. /\ InOrder(g) /\ InOrder(o) /\ InOrder(sk.queue)
      /\ Before(g, o) /\ Before(g, t) /\ Before(o, t)
  BY DEF IInv, Ordered
<1>4. ASSUME Gapless
      PROVE  /\ \A i \in 1 .. Len(g) : g[i] = Byte(i)
             /\ \A i \in 1 .. Len(o) : o[i] = Byte(Len(g) + i)
             /\ IF Starved THEN Len(g) + Len(o) < peer.sent
                ELSE /\ Len(g) + Len(o) + Len(t) = peer.sent
                     /\ \A i \in 1 .. Len(t) : t[i] = Byte(Len(g) + Len(o) + i)
  BY <1>4 DEF Gapless
<1>5. Todo' = t
  BY <1>1 DEF Todo
<1> HIDE DEF g, o, p, t
<1>6. /\ peer' \in Peers /\ peer'.sent = peer.sent /\ peer'.there = peer.there
      /\ peer'.got = p /\ peer'.conn = peer.conn
  BY <1>1, <1>2 DEF IInv, Typed, Peers
<1>7. /\ pcb' \in PcbStates /\ pcb'.alive = pcb.alive /\ pcb'.closed = pcb.closed
      /\ pcb'.out = <<>>
  <2> DEFINE none == <<>>
  <2>1. none \in Seq(Bytes) /\ pcb' = [pcb EXCEPT !.out = none] /\ pcb \in PcbStates
    BY <1>1 DEF IInv, Typed
  <2> HIDE DEF none
  <2>2. /\ pcb' \in PcbStates /\ pcb'.alive = pcb.alive /\ pcb'.closed = pcb.closed
        /\ pcb'.out = none
    BY <2>1 DEF PcbStates
  <2> QED BY <2>2 DEF none
<1>8. Typed'
  BY <1>1, <1>6, <1>7 DEF IInv, Typed, Events
<1>9. \A i \in 1 .. Len(p) : \/ i \in 1 .. Len(g) /\ p[i] = g[i]
                            \/ /\ i - Len(g) \in 1 .. Len(o) /\ p[i] = o[i - Len(g)]
                               /\ i > Len(g)
  BY <1>2
<1>10. Len(<<>>) = 0 /\ 1 .. 0 = {}
  OBVIOUS
<1>11. Ordered'
  <2>1. InOrder(p)
    <3>1. ASSUME NEW i \in 1 .. Len(p)
          PROVE  p[i][1] = peer.conn /\ p[i][2] <= peer.sent
      <4>1. CASE i \in 1 .. Len(g) /\ p[i] = g[i]
        BY <1>3, <4>1 DEF InOrder
      <4>2. CASE i - Len(g) \in 1 .. Len(o) /\ p[i] = o[i - Len(g)]
        BY <1>3, <4>2 DEF InOrder
      <4> QED BY <1>9, <4>1, <4>2
    <3>2. ASSUME NEW i \in 1 .. Len(p), NEW j \in 1 .. Len(p), i < j
          PROVE  p[i][2] < p[j][2]
      <4>1. CASE j <= Len(g)
        <5>1. /\ i \in 1 .. Len(g) /\ j \in 1 .. Len(g)
              /\ p[i] = g[i] /\ p[j] = g[j]
          BY <1>2, <3>2, <4>1
        <5> QED BY <1>3, <3>2, <5>1 DEF InOrder
      <4>2. CASE i > Len(g)
        <5> DEFINE k == i - Len(g)
                   l == j - Len(g)
        <5>1. k \in 1 .. Len(o) /\ l \in 1 .. Len(o) /\ k < l
          BY <1>2, <3>2, <4>2
        <5>2. p[i] = o[k] /\ p[j] = o[l]
          BY <1>2, <3>2, <4>2
        <5> HIDE DEF k, l
        <5> QED BY <1>3, <5>1, <5>2 DEF InOrder
      <4>3. CASE i <= Len(g) /\ j > Len(g)
        <5> DEFINE l == j - Len(g)
        <5>1. i \in 1 .. Len(g) /\ l \in 1 .. Len(o)
          BY <1>2, <3>2, <4>3
        <5>2. p[i] = g[i] /\ p[j] = o[l]
          BY <1>2, <3>2, <4>3
        <5> HIDE DEF l
        <5> QED BY <1>3, <5>1, <5>2 DEF Before
      <4> QED BY <1>2, <4>1, <4>2, <4>3
    <3> QED BY <3>1, <3>2 DEF InOrder
  <2>2. Before(p, t)
    BY <1>3, <1>9 DEF Before
  <2>3. InOrder(peer.got)' /\ InOrder(sk.queue)'
    BY <1>1, <1>3, <1>6, <2>1 DEF InOrder
  <2>4. InOrder(pcb.out)' /\ Before(peer.got, pcb.out)' /\ Before(pcb.out, Todo)'
    BY <1>7, <1>10 DEF InOrder, Before
  <2>5. Before(peer.got, Todo)'
    BY <1>5, <1>6, <2>2 DEF Before
  <2> QED BY <2>3, <2>4, <2>5 DEF Ordered
<1>12. InHand'
  <2>1. Len(pcb'.out) < SndBuf /\ Len(pcb'.out) <= SndBuf
    BY <1>7, <1>10, LwipAssumption
  <2> QED BY <1>1, <2>1 DEF IInv, InHand
<1>13. ASSUME polite PROVE Polite'
  <2>1. Together /\ Told /\ fault = "none" /\ Gapless
    BY <1>13 DEF IInv, Polite
  <2>2. sk.client /\ sk.made /\ peer.there /\ link.up
    <3>1. pcb.out # <<>>
      BY DEF Acknowledge
    <3>2. ~Answered
      BY <1>13, <3>1, AllAnswered
    <3> QED BY <2>1, <3>2 DEF Together
  <2>3. UNCHANGED fault
    BY <1>1, <2>2
  <2>4. Gapless'
    <3>0. Len(p) + Len(<<>>) = Len(g) + Len(o)
      BY <1>2, <1>10
    <3>1. IF Starved THEN Len(p) + Len(<<>>) < peer.sent
          ELSE Len(p) + Len(<<>>) + Len(t) = peer.sent
      BY <1>4, <2>1, <3>0
    <3>2. \A i \in 1 .. Len(p) : p[i] = Byte(i)
      <4> SUFFICES ASSUME NEW i \in 1 .. Len(p) PROVE p[i] = Byte(i)
        OBVIOUS
      <4>1. CASE i <= Len(g)
        BY <1>2, <1>4, <2>1, <4>1
      <4>2. CASE ~(i <= Len(g))
        <5>1. i - Len(g) \in 1 .. Len(o) /\ p[i] = o[i - Len(g)]
          BY <1>2, <4>2
        <5>2. o[i - Len(g)] = Byte(Len(g) + (i - Len(g)))
          BY <1>4, <2>1, <5>1
        <5>3. Len(g) + (i - Len(g)) = i
          BY <1>2
        <5> QED BY <5>1, <5>2, <5>3
      <4> QED BY <4>1, <4>2
    <3>3. ~Starved => \A i \in 1 .. Len(t) : t[i] = Byte(Len(p) + Len(<<>>) + i)
      BY <1>4, <2>1, <3>0
    <3>5. Starved' <=> Starved
      BY <1>1, <1>6 DEF Starved
    <3>4. \A i : Byte(i)' = Byte(i)
      BY <1>6 DEF Byte
    <3> QED BY <1>5, <1>6, <1>7, <1>10, <3>1, <3>2, <3>3, <3>4, <3>5 DEF Gapless
  <2>5. Together'
    BY <1>1, <1>6, <1>7, <2>1, <2>2 DEF Together
  <2>6. \A e : Pending(e)' => Pending(e) \/ e = "CanWrite"
    BY <1>1 DEF Pending
  <2>7. Told'
    BY <1>1, <1>6, <2>1, <2>2, <2>6 DEF Told, Handlers, Starved
  <2> QED BY <2>1, <2>3, <2>4, <2>5, <2>7 DEF Polite
<1> QED BY <1>1, <1>8, <1>11, <1>12, <1>13 DEF IInv

\* The closing handshake ends: the block is freed, and was sent all it had.
LEMMA ForgetKeeps ==
  ASSUME IInv, Forget
  PROVE  IInv'
<1>1. /\ pcb.alive /\ pcb.closed /\ pcb.out = <<>> /\ pcb' = NoPcb
      /\ peer' = [peer EXCEPT !.there = FALSE]
      /\ UNCHANGED <<events, connected, app, polite, link, sk, fault>>
  BY DEF Forget, runnerVars
<1>2. /\ peer' \in Peers /\ peer'.sent = peer.sent /\ ~peer'.there
      /\ peer'.got = peer.got /\ peer'.conn = peer.conn
  BY <1>1 DEF IInv, Typed, Peers
<1>3. pcb' \in PcbStates /\ pcb'.out = pcb.out /\ ~pcb'.alive
  BY <1>1 DEF NoPcb, PcbStates
<1>4. Typed'
  BY <1>1, <1>2, <1>3 DEF IInv, Typed
<1>5. Ordered' /\ InHand' /\ (~sk.client /\ Gapless => Gapless')
  BY <1>1, <1>2, <1>3, Shrinks DEF IInv, InHand, Starved
<1>6. ASSUME polite PROVE Together' /\ Told' /\ ~sk.client
  <2>1. Together /\ Told /\ ~sk.client
    BY <1>1, <1>6 DEF IInv, Polite, Together
  <2>2. Together'
    BY <1>1, <1>2, <1>3, <2>1 DEF Together, Answered
  <2>3. Told'
    BY <1>1, <1>2, <2>1 DEF Told, Pending, Starved
  <2> QED BY <2>1, <2>2, <2>3
<1> QED BY <1>1, <1>4, <1>5, <1>6 DEF IInv, Polite

LEMMA LinkKeeps ==
  ASSUME IInv, LinkDown \/ LinkUp
  PROVE  IInv'
<1>1. /\ UNCHANGED <<connected, app, polite, sk, pcb, peer, fault>>
      /\ polite => Settled
      /\ \/ /\ link.up /\ (polite => sk.made /\ Answered)
            /\ link' = [up |-> FALSE, downs |-> link.downs + 1]
            /\ events' = events \cup {"Down"}
         \/ /\ ~link.up /\ link' = [link EXCEPT !.up = TRUE]
            /\ events' = events \cup {"Up"}
  BY DEF LinkDown, LinkUp, Post
<1>2. link' \in [up : BOOLEAN, downs : Nat] /\ events' \in SUBSET Events /\ link'.up = ~link.up
  <2>1. link \in [up : BOOLEAN, downs : Nat] /\ link.downs + 1 \in Nat
    BY DEF IInv, Typed
  <2>2. CASE /\ link.up /\ link' = [up |-> FALSE, downs |-> link.downs + 1]
             /\ events' = events \cup {"Down"}
    BY <2>1, <2>2 DEF IInv, Typed, Events, Handlers
  <2>3. CASE /\ ~link.up /\ link' = [link EXCEPT !.up = TRUE]
             /\ events' = events \cup {"Up"}
    BY <2>1, <2>3 DEF IInv, Typed, Events, Handlers
  <2> QED BY <1>1, <2>2, <2>3
<1>3. Typed'
  BY <1>1, <1>2 DEF IInv, Typed
<1>4. Ordered' /\ InHand' /\ (Gapless => Gapless')
  BY <1>1, Shrinks DEF IInv, InHand, Starved
<1>5. ASSUME polite PROVE Together' /\ Told'
  <2>1. Together /\ Told /\ app.at = "wait" /\ events = {} /\ app.batch = {}
    BY <1>1, <1>5 DEF IInv, Polite, Settled, Together
  <2>2. CASE /\ link.up /\ (polite => sk.made /\ Answered)
             /\ link' = [up |-> FALSE, downs |-> link.downs + 1]
             /\ events' = events \cup {"Down"}
    <3>1. Together'
      BY <1>1, <1>2, <1>5, <2>1, <2>2 DEF Together, Answered
    <3>2. \A e : Pending(e)' => e = "Down"
      BY <1>1, <2>1, <2>2 DEF Pending
    <3>3. Told'
      BY <1>1, <1>2, <2>1, <2>2, <3>2 DEF Told, Handlers, Writing
    <3> QED BY <3>1, <3>3
  <2>3. CASE /\ ~link.up /\ link' = [link EXCEPT !.up = TRUE]
             /\ events' = events \cup {"Up"}
    <3>1. ~sk.made /\ Answered
      BY <2>1, <2>3 DEF Told, Together
    <3>2. Together'
      BY <1>1, <1>2, <2>1, <3>1 DEF Together, Answered
    <3>3. \A e : Pending(e)' => e = "Up"
      BY <1>1, <2>1, <2>3 DEF Pending
    <3>4. Told'
      BY <1>1, <1>2, <2>1, <2>3, <3>1, <3>3 DEF Told, Handlers, Writing
    <3> QED BY <3>2, <3>4
  <2> QED BY <1>1, <2>2, <2>3
<1> QED BY <1>1, <1>3, <1>4, <1>5 DEF IInv, Polite
-----------------------------------------------------------------------------
LEMMA Starts == Init => IInv
<1> SUFFICES ASSUME Init PROVE IInv
  OBVIOUS
<1> USE DEF Init, RunnerInit, SocketInit
<1>1. /\ events = {"Up"} /\ connected = FALSE /\ app = Waiting
      /\ polite \in BOOLEAN /\ link = [up |-> TRUE, downs |-> 0]
      /\ sk = NoSocket /\ pcb = NoPcb /\ fault = "none"
      /\ peer = [conn |-> 0, there |-> FALSE, sent |-> 0, got |-> <<>>]
  BY LwipAssumption
<1>2. /\ app \in AppStates /\ app.at = "wait" /\ app.batch = {} /\ app.data = <<>> /\ Idle
  BY <1>1, Places DEF Waiting, AppStates, RunnerPlaces, Idle
<1>3. /\ sk \in SocketStates /\ ~sk.made /\ ~sk.client /\ ~sk.fifo /\ sk.queue = <<>>
      /\ sk.state = "idle"
  BY <1>1 DEF SocketStates, NoSocket
<1>4. pcb \in PcbStates /\ ~pcb.alive /\ pcb.out = <<>>
  BY <1>1 DEF PcbStates, NoPcb
<1>5. /\ peer \in Peers /\ ~peer.there /\ peer.got = <<>> /\ peer.sent = 0
  BY <1>1 DEF Peers
<1>6. Typed
  <2>1. link \in [up : BOOLEAN, downs : Nat] /\ events \in SUBSET Events
    BY <1>1 DEF Events, Handlers
  <2> QED BY <1>1, <1>2, <1>3, <1>4, <1>5, <2>1 DEF Typed
<1>7. Todo = <<>> /\ Len(<<>>) = 0 /\ 1 .. 0 = {}
  BY <1>2, <1>3 DEF Todo, Idle
<1>8. Ordered
  BY <1>3, <1>4, <1>5, <1>7 DEF Ordered, InOrder, Before
<1>9. InHand
  BY <1>2, <1>3, <1>4, <1>7, LwipAssumption DEF InHand, Idle
<1>10. Gapless
  BY <1>3, <1>4, <1>5, <1>7 DEF Gapless, Starved
<1>11. Together
  BY <1>1, <1>2, <1>3, <1>4, <1>5, <1>7 DEF Together, Answered, CloserPlaces, Dropping
<1>12. \A e : Pending(e) => e = "Up"
  BY <1>1, <1>2 DEF Pending
<1>13. Told
  BY <1>1, <1>2, <1>3, <1>5, <1>12 DEF Told, Handlers, Writing
<1> QED BY <1>1, <1>6, <1>8, <1>9, <1>10, <1>11, <1>13 DEF IInv, Polite

\* One step: one lemma for each action.
LEMMA StepKeeps ==
  ASSUME IInv, [Next]_vars
  PROVE  IInv'
<1>1. CASE Next
  <2>1. CASE Run
    <3>1. CASE Wake /\ Quiet /\ Apart
      BY <3>1, WakeKeeps
    <3>2. CASE (HandleConnected \/ HandleData) /\ Quiet /\ Apart
      BY <3>2, HandlersKeep
    <3>3. CASE WaitForWrite /\ Quiet /\ Apart
      BY <3>3, WaitForWriteKeeps
    <3> QED BY <2>1, <3>1, <3>2, <3>3 DEF Run
  <2>2. CASE Close \/ DropFifo \/ NoFifo \/ Relisten \/ NothingToClose
    BY <2>2, CloseKeeps, DropKeeps, RelistenKeeps
  <2>3. CASE MakeSocket \/ DeleteSocket \/ Read \/ Release
    BY <2>3, MakeKeeps, DeleteKeeps, ReadKeeps, ReleaseKeeps
  <2>4. CASE WriteRefused \/ WriteSize \/ WritePush \/ WriteNoMemory
    BY <2>4, FailedWriteKeeps, SizeKeeps, PushKeeps
  <2>5. CASE Accept \/ Receive \/ ReceiveFin \/ ConnectionError
    BY <2>5, AcceptKeeps, ReceiveKeeps, FinKeeps, ErrorKeeps
  <2>6. CASE Acknowledge \/ Forget \/ LinkDown \/ LinkUp
    BY <2>6, AcknowledgeKeeps, ForgetKeeps, LinkKeeps
  <2> QED BY <1>1, <2>1, <2>2, <2>3, <2>4, <2>5, <2>6 DEF Next, AppNext, NetNext
<1>2. CASE UNCHANGED vars
  <2>1. /\ UNCHANGED <<events, connected, app>>
        /\ UNCHANGED <<polite, link, sk, pcb, peer, fault>>
    BY <1>2 DEF vars, runnerVars, socketVars
  <2>2. Typed'
    BY <2>1 DEF IInv, Typed
  <2>3. Ordered' /\ InHand' /\ (Gapless => Gapless')
    BY <2>1, Shrinks DEF IInv, InHand, Starved
  <2>4. Together => Together'
    BY <2>1 DEF Together, Answered
  <2>5. Told => Told'
    BY <2>1 DEF Told, Pending, Starved
  <2> QED BY <2>1, <2>2, <2>3, <2>4, <2>5 DEF IInv, Polite
<1> QED BY <1>1, <1>2

\* The inductive invariant holds in every state of the server.
THEOREM Invariance == Spec => []IInv
<1> QED BY Starts, StepKeeps, PTL DEF Spec

(***************************************************************************)
(* What a client gets back is its own, each byte at most once and in the   *)
(* order it was sent; without a gap when it is polite: however often the   *)
(* callbacks of lwIP (esprit_lwip.cpp) come between the calls of the       *)
(* runner, and with whatever errors, resets and lost links.                *)
(***************************************************************************)
THEOREM EchoKeepsOrder == Spec => []EchoInOrder
<1>1. IInv => EchoInOrder
  BY DEF IInv, Ordered, InOrder, Polite, Gapless, EchoInOrder
<1> QED BY <1>1, Invariance, PTL

(***************************************************************************)
(* With polite clients no assertion of lnSocket_impl fails and lwIP is     *)
(* never called on a block it has freed (esprit_lwip.cpp 195, 412, 413).   *)
(***************************************************************************)
THEOREM NothingFails == Spec => []NoFault
<1>1. IInv => NoFault
  BY DEF IInv, Polite, NoFault
<1> QED BY <1>1, Invariance, PTL
=============================================================================
