----------------------------- MODULE W5500Server -----------------------------
(***************************************************************************)
(* The echo server over the W5500: the socket runner's task makes the      *)
(* calls of lnSocket_W5500 while the coordinator task and the chip go on.  *)
(***************************************************************************)
EXTENDS W5500Socket

Init == RunnerInit /\ SocketInit

Apart == UNCHANGED <<env, co, peer>>
Quiet == UNCHANGED <<chip, state, sending, call>>

\* Steps of the runner that call no socket.
Run == (Wake \/ HandleConnected \/ HandleData \/ WaitForWrite) /\ Quiet /\ Apart

\* Link up: the socket is created and listens.
HandleUp ==
  /\ app.at = "Up"
  /\ Listen
  /\ connected' = FALSE /\ Handled("Up")
  /\ UNCHANGED <<events, call>> /\ Apart

\* disconnectClient() acts only on a socket that is still connected.
HandleDisconnected ==
  /\ app.at = "Disconnected"
  /\ connected' = FALSE /\ Handled("Disconnected")
  /\ IF state = "connected"
     THEN state' = "closing" /\ chip' = [chip EXCEPT !.sr = Disconnect(@)]
     ELSE UNCHANGED <<state, chip>>
  /\ UNCHANGED <<events, sending, call>> /\ Apart
-----------------------------------------------------------------------------
\* read(): how much is there, ...
ReadSize ==
  /\ app.at = "read"
  /\ LET n == IF state = "connected" THEN Lesser(Len(chip.rx), RxBuf) ELSE 0
     IN  IF n = 0 THEN ReadReturns(<<>>) /\ UNCHANGED call
         ELSE /\ GoTo("fetch") /\ call' = [call EXCEPT !.n = n]
              /\ UNCHANGED <<events, connected>>
  /\ UNCHANGED <<chip, state, sending>> /\ Apart

\* ... then the bytes; RECV frees them.  Mutation: no RECV command.
AfterRecvNot(rx, n) == rx
AfterRecv(rx, n) == SubSeq(rx, n + 1, Len(rx))

ReadFetch ==
  /\ app.at = "fetch"
  /\ ReadReturns([i \in 1 .. call.n |-> chip.rx[i]])
  /\ chip' = [chip EXCEPT !.rx = AfterRecv(@, call.n)]
  /\ call' = NoCall
  /\ UNCHANGED <<state, sending>> /\ Apart

\* freeReadData() has nothing left to do.
Release == app.at \in {"release", "quit"} /\ Released /\ Quiet /\ Apart
-----------------------------------------------------------------------------
\* write(): refused unless connected; busy while the last SEND is.
WriteRefused ==
  /\ app.at = "write" /\ state # "connected"
  /\ WriteFails /\ Quiet /\ Apart

WriteBusy ==
  /\ app.at = "write" /\ state = "connected"
  /\ sending /\ chip.ir \cap {"SENDOK", "TIMEOUT"} = {}
  /\ WriteReturns(0) /\ Quiet /\ Apart

WriteStarts ==
  /\ app.at = "write" /\ state = "connected"
  /\ sending => "SENDOK" \in chip.ir
  /\ call' = [call EXCEPT !.had = sending]
  /\ sending' = FALSE
  /\ GoTo("space")
  /\ UNCHANGED <<events, connected, chip, state>> /\ Apart

WriteTimedOut ==
  /\ app.at = "write" /\ state = "connected"
  /\ sending /\ "SENDOK" \notin chip.ir /\ "TIMEOUT" \in chip.ir
  /\ GoTo("abort")
  /\ UNCHANGED <<events, connected>> /\ Quiet /\ Apart

WriteAborts ==
  /\ app.at = "abort"
  /\ chip' = [chip EXCEPT !.sr = "closed"]
  /\ WriteFails
  /\ UNCHANGED <<state, sending, call>> /\ Apart

FreeSpace == TxSize - Len(chip.tx) - chip.held

\* A full buffer: the flag goes back up and the caller tries again.
WriteFull ==
  /\ app.at = "space" /\ FreeSpace = 0
  /\ sending' = TRUE
  /\ call' = NoCall
  /\ WriteReturns(0)
  /\ UNCHANGED <<chip, state>> /\ Apart

WriteFits ==
  /\ app.at = "space" /\ FreeSpace > 0
  /\ chip' = IF call.had THEN [chip EXCEPT !.ir = @ \ {"SENDOK"}] ELSE chip
  /\ call' = [call EXCEPT !.n = Lesser(FreeSpace, Len(app.data))]
  /\ GoTo("send")
  /\ UNCHANGED <<events, connected, state, sending>> /\ Apart

\* The chip sends only on an open connection.
WriteSends ==
  /\ app.at = "send"
  /\ sending' = TRUE
  /\ chip' = IF chip.sr \in {"established", "closeWait"}
             THEN [chip EXCEPT !.tx = @ \o SubSeq(app.data, 1, call.n)] ELSE chip
  /\ WriteReturns(call.n)
  /\ call' = NoCall
  /\ UNCHANGED state /\ Apart
-----------------------------------------------------------------------------
AppNext ==
  \/ Run \/ HandleUp \/ HandleDisconnected \/ ReadSize \/ ReadFetch \/ Release
  \/ WriteRefused \/ WriteBusy \/ WriteStarts \/ WriteTimedOut \/ WriteAborts
  \/ WriteFull \/ WriteFits \/ WriteSends

ChipNext == ChipSends \/ ChipFrees \/ ChipCloses
PeerNext == PeerConnects \/ PeerSends \/ PeerLeaves \/ PeerVanishes
Next == AppNext \/ CoNext \/ ChipNext \/ PeerNext

Spec == Init /\ [][Next]_vars

(***************************************************************************)
(* Both tasks get to run and the chip does what it was told; a client owes *)
(* the server nothing.                                                     *)
(***************************************************************************)
FairSpec == /\ Spec
            /\ WF_vars(AppNext) /\ WF_vars(CoNext)
            /\ WF_vars(ChipSends) /\ WF_vars(ChipFrees) /\ WF_vars(ChipCloses)
-----------------------------------------------------------------------------
(***************************************************************************)
(* A client gets its own bytes back in order, each once, across short      *)
(* writes, full buffers and lost connections.  A polite client gets        *)
(* nothing else; one that connects while the server still writes to the    *)
(* last client may get that client's bytes first (write() only asks        *)
(* whether a client is connected, socket_w5500.cpp:297).                   *)
(***************************************************************************)
\* Bytes of earlier clients, which a polite client does not see, then the
\* first n of this one.
Follows(s, n) ==
  LET old == Len(s) - n
  IN  /\ old >= 0 /\ (env.polite => old = 0)
      /\ \A i \in 1 .. old : s[i][1] # peer.conn
      /\ \A i \in old + 1 .. Len(s) : s[i] = Byte(i - old)

EchoInOrder == \E n \in 0 .. peer.sent : Follows(peer.got, n)

(***************************************************************************)
(* After a client left, however it left and wherever the application was,  *)
(* the socket listens again (socket_w5500.cpp:498-504) - given that the    *)
(* poll saw the client (env.polite).                                       *)
(***************************************************************************)
ServesAgain == env.polite /\ chip.sr \in {"closeWait", "closed"} ~> chip.sr = "listen"

(***************************************************************************)
(* What a polite client sends comes back, unless it leaves: no interrupt,  *)
(* event or SENDOK is lost between the two tasks.  The chip must free      *)
(* space before it reports SENDOK: otherwise a full buffer leaves the flag *)
(* set with nothing to clear it (lowlevel_w5500_helper.h:704-711).         *)
(***************************************************************************)
EchoComes ==
  env.polite /\ ~env.lags /\ state = "connected" /\ Len(peer.got) < peer.sent
    ~> Len(peer.got) = peer.sent \/ chip.sr # "established"
-----------------------------------------------------------------------------
(***************************************************************************)
(* Why the echo keeps its order: the inductive invariant of                *)
(* W5500Server_proofs.                                                     *)
(***************************************************************************)
Bytes == Nat \X Nat
Handlers == {"Up", "Down", "Disconnected", "Connected", "DataAvailable"}
Holding == {"write", "canWrite", "space", "send", "abort"}
Flags == Handlers \cup {"CanWrite", "Error"}
Bits == {"RECV", "SENDOK", "TIMEOUT"}
Open == {"established", "closeWait"}

Places == {"wait", "read", "fetch", "release", "quit"} \cup Handlers \cup Holding
AppStates == [at : Places, batch : SUBSET Flags, data : Seq(Bytes), direct : BOOLEAN]
ChipStates == [sr : Open \cup {"listen", "closing", "closed"}, ir : SUBSET Bits,
               rx : Seq(Bytes), tx : Seq(Bytes), held : Nat]
CoStates == [at : {"asleep", "clear", "dispatch", "poll"}, ir : SUBSET Bits]
Peers == [conn : Nat, sent : Nat, got : Seq(Bytes)]

Typed ==
  /\ events \in SUBSET Flags /\ connected \in BOOLEAN /\ sending \in BOOLEAN
  /\ app \in AppStates /\ chip \in ChipStates /\ co \in CoStates /\ peer \in Peers
  /\ env \in [polite : BOOLEAN, lags : BOOLEAN] /\ call \in [had : BOOLEAN, n : Nat]
  /\ state \in {"none", "listening", "connected", "closing", "error"}

\* What the driver believes, and what the chip may have done since; a call is
\* over before the coordinator can put the socket back to listening.
Believes ==
  /\ chip.sr = "listen" => state = "listening" /\ chip.rx = <<>> /\ chip.tx = <<>>
  /\ chip.sr \in Open => state \in {"listening", "connected"}
  /\ InCall => state = "connected" \/ (state = "closing" /\ co.at = "asleep")

\* The bytes in hand, and how many a call is about to move.
InHand ==
  /\ app.at \notin Holding => app.data = <<>>
  /\ app.at = "fetch" => call.n <= Len(chip.rx)
  /\ app.at = "send" => call.n <= Len(app.data)

\* No byte is of a client to come; those in hand are not of one the driver
\* does not know of yet.
Known ==
  /\ \A i \in 1 .. Len(app.data) : app.data[i][1] <= peer.conn
  /\ \A i \in 1 .. Len(chip.rx) : chip.rx[i][1] <= peer.conn
  /\ state = "listening" /\ chip.sr # "listen" =>
       \A i \in 1 .. Len(app.data) : app.data[i][1] < peer.conn

(***************************************************************************)
(* From the client and back to it: while the connection is open no byte is *)
(* missing, later none is added.                                           *)
(***************************************************************************)
Back == peer.got \o chip.tx
Line == Back \o app.data \o chip.rx
InLine == IF chip.sr \in Open THEN Follows(Line, peer.sent)
          ELSE \E n \in 0 .. peer.sent : Follows(Back, n)

IInv == Typed /\ Believes /\ InHand /\ Known /\ InLine
=============================================================================
