----------------------------- MODULE LwipServer -----------------------------
(***************************************************************************)
(* The echo server over lwIP: the socket runner's task makes the calls of  *)
(* lnSocket_impl while lwIP's task makes its callbacks.                    *)
(***************************************************************************)
EXTENDS LwipSocket

Init == RunnerInit /\ SocketInit

Apart == UNCHANGED <<polite, link, peer>>
Quiet == UNCHANGED <<sk, pcb, fault>>

\* Steps of the runner that call no socket.
Run == (Wake \/ HandleConnected \/ HandleData \/ WaitForWrite) /\ Quiet /\ Apart

\* A call of lwIP on a block it has freed.
OnPcb == IF pcb.alive THEN UNCHANGED fault ELSE fault' = "freed"
-----------------------------------------------------------------------------
(***************************************************************************)
(* disconnectClient(): close under the lock, then delete the fifo, which   *)
(* accounts for what is left in it, then back to listening.  It is what    *)
(* Disconnected asks for and the first thing deleting a socket does.       *)
(***************************************************************************)
\* Received bytes not accounted for: tcp_close() resets and frees the block.
Closed == IF sk.queue = <<>> THEN [pcb EXCEPT !.closed = TRUE] ELSE NoPcb

Close ==
  /\ app.at \in {"Disconnected", "Up", "Down"} /\ sk.made
  /\ connected' = FALSE
  /\ IF sk.client THEN OnPcb /\ pcb' = Closed /\ sk' = [sk EXCEPT !.client = FALSE]
     ELSE UNCHANGED <<fault, pcb, sk>>
  /\ app' = [app EXCEPT !.at = CASE @ = "Disconnected" -> "drop"
                                 [] @ = "Up" -> "dropUp" [] @ = "Down" -> "dropDown"]
  /\ UNCHANGED events /\ Apart

Dropping == {"drop", "dropUp", "dropDown"}

\* Mutation: the fifo outlives the connection.
EmptiedKept == sk
Emptied == [sk EXCEPT !.fifo = FALSE, !.queue = <<>>]

DropFifo ==
  /\ app.at \in Dropping /\ sk.fifo
  /\ sk' = Emptied
  /\ IF sk.queue = <<>> THEN UNCHANGED fault ELSE OnPcb
  /\ GoTo(CASE app.at = "drop" -> "relisten"
            [] app.at = "dropUp" -> "deleteUp" [] app.at = "dropDown" -> "deleteDown")
  /\ UNCHANGED <<events, connected, pcb>> /\ Apart

NoFifo ==
  /\ app.at \in Dropping /\ ~sk.fifo
  /\ GoTo(CASE app.at = "drop" -> "relisten"
            [] app.at = "dropUp" -> "deleteUp" [] app.at = "dropDown" -> "deleteDown")
  /\ UNCHANGED <<events, connected>> /\ Quiet /\ Apart

Relisten ==
  /\ app.at = "relisten"
  /\ sk' = [sk EXCEPT !.state = "listen"]
  /\ Handled("Disconnected")
  /\ UNCHANGED <<events, connected, pcb, fault>> /\ Apart

\* Disconnected after the socket was deleted: nothing to close.
NothingToClose ==
  /\ app.at = "Disconnected" /\ ~sk.made
  /\ connected' = FALSE /\ Handled("Disconnected")
  /\ UNCHANGED events /\ Quiet /\ Apart

(***************************************************************************)
(* Link up: the old socket is deleted, a new one is made and listens.      *)
(* Link down: the socket is deleted and process_events() returns: what     *)
(* else it was given is dropped.                                           *)
(***************************************************************************)
Listening == [NoSocket EXCEPT !.made = TRUE, !.state = "listen"]

MakeSocket ==
  /\ \/ app.at = "Up" /\ ~sk.made
     \/ app.at = "deleteUp"
  /\ sk' = Listening
  /\ connected' = FALSE /\ Handled("Up")
  /\ pcb' = IF sk.client THEN Closed ELSE pcb
  /\ UNCHANGED <<events, fault>> /\ Apart

DeleteSocket ==
  /\ \/ app.at = "Down" /\ ~sk.made
     \/ app.at = "deleteDown"
  /\ sk' = NoSocket
  /\ connected' = FALSE /\ app' = Waiting
  /\ pcb' = IF sk.client THEN Closed ELSE pcb
  /\ UNCHANGED <<events, fault>> /\ Apart
-----------------------------------------------------------------------------
\* read() looks at the oldest segment and leaves it in the fifo.
Read ==
  /\ app.at = "read"
  /\ ReadReturns(IF sk.state = "work" /\ sk.queue # <<>> THEN <<Head(sk.queue)>> ELSE <<>>)
  /\ IF sk.state = "work" /\ ~sk.fifo THEN fault' = "assert" ELSE UNCHANGED fault
  /\ UNCHANGED <<sk, pcb>> /\ Apart

\* freeReadData() takes it out.  Mutation: it stays in.
PoppedNot == sk
Popped == [sk EXCEPT !.queue = Tail(@)]

Release ==
  /\ app.at \in {"release", "quit"}
  /\ IF sk.fifo /\ sk.queue # <<>>
     THEN sk' = Popped /\ OnPcb
     ELSE fault' = "assert" /\ UNCHANGED sk
  /\ Released
  /\ UNCHANGED pcb /\ Apart
-----------------------------------------------------------------------------
\* write(): how much fits, under the lock, ...
WriteRefused ==
  /\ app.at = "write" /\ sk.state # "work"
  /\ WriteFails /\ Quiet /\ Apart

Available == SndBuf - Len(pcb.out)

WriteSize ==
  /\ app.at = "write" /\ sk.state = "work"
  /\ IF Available = 0 THEN WriteReturns(0)
     ELSE GoTo("push") /\ UNCHANGED <<events, connected>>
  /\ UNCHANGED <<sk, pcb>> /\ OnPcb /\ Apart

\* ... then that much is written, under the lock again: the one byte of a
\* segment, which was found to fit.
WritePush ==
  /\ app.at = "push"
  /\ pcb' = [pcb EXCEPT !.out = @ \o app.data]
  /\ WriteReturns(Len(app.data))
  /\ OnPcb
  /\ UNCHANGED sk /\ Apart

\* tcp_write() finds no memory, whoever the client is: CON_ERROR, and nobody
\* is told.
WriteNoMemory ==
  /\ app.at = "push"
  /\ sk' = [sk EXCEPT !.state = "error"]
  /\ WriteFails
  /\ OnPcb
  /\ UNCHANGED pcb /\ Apart
-----------------------------------------------------------------------------
AppNext ==
  \/ Run \/ Close \/ DropFifo \/ NoFifo \/ Relisten \/ NothingToClose
  \/ MakeSocket \/ DeleteSocket \/ Read \/ Release
  \/ WriteRefused \/ WriteSize \/ WritePush \/ WriteNoMemory

\* A failed assertion stops the program; after a call on a freed block
\* nothing is known.
Next == fault = "none" /\ (AppNext \/ NetNext)

Spec == Init /\ [][Next]_vars

(***************************************************************************)
(* Both tasks run, the network delivers, a link that is down comes back.   *)
(***************************************************************************)
FairSpec == /\ Spec
            /\ WF_vars(fault = "none" /\ AppNext)
            /\ WF_vars(fault = "none" /\ Acknowledge)
            /\ WF_vars(fault = "none" /\ Forget)
            /\ WF_vars(fault = "none" /\ LinkUp)
-----------------------------------------------------------------------------
(***************************************************************************)
(* A client gets back its own bytes only, each at most once, in order; one *)
(* that keeps to what the fifo holds gets them without a gap.  The buffer  *)
(* being echoed stays the oldest of the fifo although callbacks queue      *)
(* behind it and events come at any time.                                  *)
(***************************************************************************)
EchoInOrder ==
  /\ \A i \in 1 .. Len(peer.got) : peer.got[i][1] = peer.conn
  /\ \A i, j \in 1 .. Len(peer.got) : i < j => peer.got[i][2] < peer.got[j][2]
  /\ polite => \A i \in 1 .. Len(peer.got) : peer.got[i] = Byte(i)

(***************************************************************************)
(* With polite clients no assertion fails (195, 412, 413) and lwIP is      *)
(* never called on a block it has freed.                                   *)
(***************************************************************************)
NoFault == polite => fault = "none"

(***************************************************************************)
(* After a polite client left, and after the link was down, the server     *)
(* accepts the next client: the socket listens, without client or fifo.    *)
(***************************************************************************)
ServesAgain == polite /\ ~peer.there /\ link.up ~> Ready

(***************************************************************************)
(* What a polite client sends comes back, unless the link goes down or     *)
(* tcp_write() finds no memory for it, which leaves the socket in          *)
(* CON_ERROR: no DataAvailable and no CanWrite is lost between the two     *)
(* tasks.                                                                  *)
(***************************************************************************)
EchoComes == polite /\ peer.there /\ ~Answered
               ~> Answered \/ ~peer.there \/ sk.state = "error"
-----------------------------------------------------------------------------
(***************************************************************************)
(* Why the echo keeps its order and why nothing fails: the inductive       *)
(* invariant of LwipServer_proofs.                                         *)
(***************************************************************************)
Writing   == {"write", "canWrite", "push"}
Releasing == {"release", "quit"}
Handlers  == {"Up", "Down", "Disconnected", "Connected", "DataAvailable"}
RunnerPlaces == {"wait", "read"} \cup Handlers \cup Writing \cup Releasing
CloserPlaces == Dropping \cup {"relisten", "deleteUp", "deleteDown"}
Events == Handlers \cup {"CanWrite"}

Bytes == Nat \X Nat
AppStates == [at : RunnerPlaces \cup CloserPlaces, batch : SUBSET Events,
              data : Seq(Bytes), direct : BOOLEAN]
SocketStates == [made : BOOLEAN, state : {"idle", "listen", "work", "error"},
                 client : BOOLEAN, fifo : BOOLEAN, queue : Seq(Bytes)]
PcbStates == [alive : BOOLEAN, closed : BOOLEAN, out : Seq(Bytes)]
Peers == [conn : Nat, there : BOOLEAN, sent : Nat, got : Seq(Bytes)]

Typed ==
  /\ events \in SUBSET Events /\ connected \in BOOLEAN
  /\ app \in AppStates
  /\ polite \in BOOLEAN /\ link \in [up : BOOLEAN, downs : Nat]
  /\ sk \in SocketStates /\ pcb \in PcbStates /\ peer \in Peers
  /\ fault \in {"none", "assert", "freed"}

\* Segments of the fifo that are yet to be written: at the release of a
\* buffer, all but the oldest.
Todo == IF app.at \in Releasing THEN Tail(sk.queue) ELSE sk.queue

\* Bytes of the client that is served, in the order it sent them; and of two
\* such sequences, that one comes before the other.
InOrder(s) ==
  /\ \A i \in 1 .. Len(s) : s[i][1] = peer.conn /\ s[i][2] <= peer.sent
  /\ \A i, j \in 1 .. Len(s) : i < j => s[i][2] < s[j][2]
Before(s, t) == \A i \in 1 .. Len(s) : \A j \in 1 .. Len(t) : s[i][2] < t[j][2]

Ordered ==
  /\ InOrder(peer.got) /\ InOrder(pcb.out) /\ InOrder(sk.queue)
  /\ Before(peer.got, pcb.out) /\ Before(peer.got, Todo) /\ Before(pcb.out, Todo)

(***************************************************************************)
(* The buffer in hand is the oldest of the fifo, from read() to            *)
(* freeReadData(): the fifo stays, so no other client can be accepted.     *)
(* What was found to fit still does.                                       *)
(***************************************************************************)
InHand ==
  /\ sk.queue # <<>> => sk.fifo
  /\ app.at \in Writing \cup Releasing => sk.queue # <<>>
  /\ app.data = IF app.at \in Writing THEN <<Head(sk.queue)>> ELSE <<>>
  /\ Len(pcb.out) <= SndBuf
  /\ app.at = "push" => Len(pcb.out) < SndBuf

\* tcp_write() found no memory: the client is there and will not be answered.
Starved == sk.client /\ peer.there /\ sk.state = "error"

(***************************************************************************)
(* A polite client's bytes without a gap: what it got, what is on its way  *)
(* to it, what is still in the fifo.  One that is starved lacks a byte,    *)
(* and so it stays.                                                        *)
(***************************************************************************)
Gapless ==
  /\ \A i \in 1 .. Len(peer.got) : peer.got[i] = Byte(i)
  /\ \A i \in 1 .. Len(pcb.out) : pcb.out[i] = Byte(Len(peer.got) + i)
  /\ IF Starved THEN Len(peer.got) + Len(pcb.out) < peer.sent
     ELSE /\ Len(peer.got) + Len(pcb.out) + Len(Todo) = peer.sent
          /\ \A i \in 1 .. Len(Todo) : Todo[i] = Byte(Len(peer.got) + Len(pcb.out) + i)

\* An event is set, or is being handled.
Pending(e) == e \in events \/ e \in app.batch

(***************************************************************************)
(* With polite clients the socket and the connection go together: it is    *)
(* open while the socket has a client, and is closed only when everything  *)
(* was answered.                                                           *)
(***************************************************************************)
Together ==
  /\ sk.client => /\ sk.made /\ sk.fifo /\ pcb.alive /\ ~pcb.closed
                  /\ sk.state \in IF peer.there THEN {"work", "error"} ELSE {"error"}
  /\ pcb.alive /\ ~pcb.closed => sk.client
  /\ ~(sk.client /\ peer.there /\ link.up) => Answered
  /\ sk.fifo /\ ~sk.client => app.at \in Dropping
  /\ sk.state = "work" /\ ~sk.client => app.at \in {"dropDown", "deleteDown"}
  /\ ~sk.made => sk = NoSocket
  /\ app.at \in CloserPlaces => sk.made /\ ~sk.client
  /\ app.at = "wait" => app.batch = {}

\* Where the runner is, given what it was told.
Told ==
  /\ app.at \notin {"dropUp", "deleteUp"}
  /\ app.at \in Writing => ~Starved
  /\ app.at \in Handlers => app.at \in app.batch
  /\ Pending("Up") => ~sk.made /\ link.up
  /\ "Up" \in events => app.at = "wait"
  /\ Pending("Disconnected") \/ app.at \in {"drop", "relisten"} => ~peer.there
  /\ Pending("Down") \/ app.at \in {"dropDown", "deleteDown"} => ~link.up
  /\ ~link.up /\ sk.made => \/ app.at = "wait" /\ "Down" \in events
                            \/ app.at \in {"Down", "dropDown", "deleteDown"}

Polite == fault = "none" /\ Gapless /\ Together /\ Told

IInv == Typed /\ Ordered /\ InHand /\ (polite => Polite)
=============================================================================
