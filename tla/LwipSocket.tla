----------------------------- MODULE LwipSocket -----------------------------
(***************************************************************************)
(* A listening TCP socket over lwIP (libraries/lwip_esprit/                *)
(* esprit_lwip.cpp): lnSocket_impl, its fifo of received buffers, and the  *)
(* callbacks lwIP makes in its own task.  A callback holds the core lock;  *)
(* so does a section of the application between LOCK_TCPIP_CORE and        *)
(* UNLOCK_TCPIP_CORE.  Each is one action.                                 *)
(*                                                                         *)
(* lwIP itself is external: it frees a connection's block (pcb) after its  *)
(* error callback, and when tcp_close() finds received bytes that          *)
(* tcp_recved() did not account for.                                       *)
(***************************************************************************)
EXTENDS SocketRunner

CONSTANTS
  Conns,      \* bound: clients, one after the other
  MaxBytes,   \* bound: bytes a client sends, each in a segment of its own
  FifoSize,   \* BUFFER_FIFO_SIZE; a place stays empty
  SndBuf,     \* TCP_SND_BUF
  Links,      \* bound: times the link goes down
  Manners     \* which clients there are: TRUE are polite ones

ASSUME LwipAssumption ==
  /\ Conns \in Nat /\ MaxBytes \in Nat /\ Links \in Nat
  /\ FifoSize \in Nat \ {0} /\ SndBuf \in Nat \ {0}
  /\ Manners \subseteq BOOLEAN

VARIABLES
  polite,   \* clients wait for the server: see below
  link,     \* the interface is up; times it went down
  sk,       \* lnSocket_impl: made, _state, _client_tcp, _fifo
  pcb,      \* the last client's block: not freed, closed by us, bytes to send
  peer,     \* the client: number, there, bytes sent, bytes it got back
  fault     \* a failed assertion, or a call on a freed block, ended it all

socketVars == <<polite, link, sk, pcb, peer, fault>>
vars == <<runnerVars, socketVars>>

Byte(i) == <<peer.conn, i>>
NoSocket == [made |-> FALSE, state |-> "idle", client |-> FALSE,
             fifo |-> FALSE, queue |-> <<>>]
NoPcb == [alive |-> FALSE, closed |-> FALSE, out |-> <<>>]

SocketInit ==
  /\ polite \in Manners
  /\ link = [up |-> TRUE, downs |-> 0]
  /\ sk = NoSocket /\ pcb = NoPcb
  /\ peer = [conn |-> 0, there |-> FALSE, sent |-> 0, got |-> <<>>]
  /\ fault = "none"

Settled == app.at = "wait" /\ events = {}
Ready == sk.made /\ sk.state = "listen" /\ ~sk.client /\ ~sk.fifo
Answered == Len(peer.got) = peer.sent

\* Mutation: a lost connection is not reported.
DisconnectedMute == sk' = [sk EXCEPT !.state = "error"] /\ UNCHANGED events
\* disconnected(): the application is told to close.
Disconnected == sk' = [sk EXCEPT !.state = "error"] /\ Post({"Disconnected"})
-----------------------------------------------------------------------------
(***************************************************************************)
(* The clients and lwIP's callbacks.  A polite client connects once the    *)
(* server has settled, has fewer segments on the way than the fifo holds   *)
(* (one that was echoed may still be in it), leaves by FIN when it got its *)
(* bytes back, and is never reset; its link is not lost while bytes are on *)
(* their way.                                                              *)
(***************************************************************************)
\* tcp_server_accept(): another client is aborted, which changes nothing.
Accept ==
  /\ sk.made /\ ~sk.client /\ peer.conn < Conns /\ link.up
  /\ polite => Settled
  /\ IF sk.fifo THEN fault' = "assert" /\ UNCHANGED <<sk, pcb, peer, events>>
     ELSE /\ sk' = [sk EXCEPT !.state = "work", !.client = TRUE, !.fifo = TRUE]
          /\ pcb' = [alive |-> TRUE, closed |-> FALSE, out |-> <<>>]
          /\ peer' = [conn |-> peer.conn + 1, there |-> TRUE, sent |-> 0, got |-> <<>>]
          /\ Post({"Connected"})
          /\ UNCHANGED fault
  /\ UNCHANGED <<connected, app, polite, link>>

\* push() refuses a segment that finds the fifo full; the result is ignored.
Queue(b) == IF Len(sk.queue) = FifoSize - 1 THEN sk.queue ELSE Append(sk.queue, b)

\* incomingData(): what comes is dropped unless in CON_WORK, when there must be
\* a fifo; else it is handled as h says.
Incoming(h) ==
  CASE sk.state # "work"            -> UNCHANGED <<sk, events, fault>>
    [] sk.state = "work" /\ ~sk.fifo -> fault' = "assert" /\ UNCHANGED <<sk, events>>
    [] sk.state = "work" /\ sk.fifo  -> h /\ UNCHANGED fault

\* A segment arrives.
Receive ==
  /\ link.up /\ peer.there /\ peer.sent < MaxBytes /\ pcb.alive /\ ~pcb.closed
  /\ polite => peer.sent - Len(peer.got) < FifoSize - 2
  /\ peer' = [peer EXCEPT !.sent = @ + 1]
  /\ Incoming(/\ sk' = [sk EXCEPT !.queue = Queue(Byte(peer.sent + 1))]
              /\ Post({"DataAvailable"}))
  /\ UNCHANGED <<connected, app, polite, link, pcb>>

\* FIN: incomingData(NULL).
ReceiveFin ==
  /\ link.up /\ peer.there /\ pcb.alive /\ ~pcb.closed
  /\ polite => Answered
  /\ peer' = [peer EXCEPT !.there = FALSE]
  /\ Incoming(Disconnected)
  /\ UNCHANGED <<connected, app, polite, link, pcb>>

(***************************************************************************)
(* RST, or lwIP gives up: tcp_client_error(), then the block is freed.     *)
(* The callback stays set after tcp_close(), so it may speak of a          *)
(* connection closed before, even of a socket that was deleted.            *)
(***************************************************************************)
ConnectionError ==
  /\ pcb.alive /\ ~polite
  /\ pcb' = [NoPcb EXCEPT !.closed = pcb.closed]
  /\ peer' = [peer EXCEPT !.there = FALSE]
  /\ IF sk.made THEN Disconnected /\ UNCHANGED fault
     ELSE fault' = "freed" /\ UNCHANGED <<sk, events>>
  /\ UNCHANGED <<connected, app, polite, link>>

\* Bytes are acknowledged: tcp_client_sent().
Acknowledge ==
  /\ link.up /\ pcb.alive /\ pcb.out # <<>>
  /\ peer' = [peer EXCEPT !.got = @ \o pcb.out]
  /\ pcb' = [pcb EXCEPT !.out = <<>>]
  /\ IF sk.made THEN Post({"CanWrite"}) /\ UNCHANGED fault
     ELSE fault' = "freed" /\ UNCHANGED events
  /\ UNCHANGED <<connected, app, polite, link, sk>>

\* The closing handshake ends and lwIP frees the block.
Forget ==
  /\ pcb.alive /\ pcb.closed /\ pcb.out = <<>>
  /\ pcb' = NoPcb
  /\ peer' = [peer EXCEPT !.there = FALSE]
  /\ UNCHANGED <<runnerVars, polite, link, sk, fault>>

LinkDown ==
  /\ link.up /\ link.downs < Links
  /\ polite => Settled /\ sk.made /\ Answered
  /\ link' = [up |-> FALSE, downs |-> link.downs + 1]
  /\ Post({"Down"})
  /\ UNCHANGED <<connected, app, polite, sk, pcb, peer, fault>>

LinkUp ==
  /\ ~link.up
  /\ polite => Settled
  /\ link' = [link EXCEPT !.up = TRUE]
  /\ Post({"Up"})
  /\ UNCHANGED <<connected, app, polite, sk, pcb, peer, fault>>

NetNext == \/ Accept \/ Receive \/ ReceiveFin \/ ConnectionError
           \/ Acknowledge \/ Forget \/ LinkDown \/ LinkUp
=============================================================================
