----------------------------- MODULE W5500Socket -----------------------------
(***************************************************************************)
(* One TCP socket of the W5500 chip: the chip's registers as the driver    *)
(* sees them, lnSocket_W5500 (libraries/w5500/socket_w5500.cpp), the       *)
(* command sequences of socket_high_w5500.cpp and lowlevel_w5500_helper.h, *)
(* and the coordinator task that dispatches the chip's interrupts and      *)
(* polls the socket (lowlevel_w5500.cpp).                                  *)
(*                                                                         *)
(* An SPI transfer blocks the task that makes it, so the coordinator, of   *)
(* the higher priority, and the application interleave at every transfer.  *)
(* The chip and the peer move at any time.                                 *)
(***************************************************************************)
EXTENDS SocketRunner

CONSTANTS
  Conns,         \* bound: connections one after the other
  MaxBytes,      \* bound: bytes a client sends
  TxSize,        \* the chip's transmit buffer
  RxBuf,         \* _rxBufSize
  Environments   \* which clients and chips: see env

ASSUME W5500Assumption ==
  /\ Conns \in Nat /\ MaxBytes \in Nat
  /\ TxSize \in Nat \ {0} /\ RxBuf \in Nat \ {0}
  /\ Environments \subseteq [polite : BOOLEAN, lags : BOOLEAN]

VARIABLES
  env,       \* polite clients? does the free space lag behind SENDOK?
  chip,      \* Sn_SR, Sn_IR, receive buffer, bytes to send, bytes not yet freed
  state,     \* _state
  sending,   \* the socket's bit of sock_is_sending
  co,        \* the coordinator: where it is, the Sn_IR it read
  call,      \* locals of the socket call the application is in
  peer       \* the client: connection number, bytes sent, bytes it got back

socketVars == <<env, chip, state, sending, co, call, peer>>
vars == <<runnerVars, socketVars>>

Lesser(a, b) == IF a < b THEN a ELSE b
Byte(i) == <<peer.conn, i>>
NoCall == [had |-> FALSE, n |-> 0]

SocketInit ==
  /\ env \in Environments
  /\ chip = [sr |-> "closed", ir |-> {}, rx |-> <<>>, tx |-> <<>>, held |-> 0]
  /\ state = "none" /\ sending = FALSE
  /\ co = [at |-> "asleep", ir |-> {}]
  /\ call = NoCall
  /\ peer = [conn |-> 0, sent |-> 0, got |-> <<>>]

\* socket() then listen(): interrupts and buffers are cleared, so is the flag.
Listen ==
  /\ chip' = [sr |-> "listen", ir |-> {}, rx |-> <<>>, tx |-> <<>>, held |-> 0]
  /\ sending' = FALSE
  /\ state' = "listening"
-----------------------------------------------------------------------------
(***************************************************************************)
(* The client and the chip.  A polite client connects once the server has  *)
(* settled, speaks once the application knows of it, and stays until       *)
(* then.                                                                   *)
(***************************************************************************)
Settled == app.at = "wait" /\ events = {} /\ co.at = "asleep"

PeerConnects ==
  /\ chip.sr = "listen" /\ peer.conn < Conns
  /\ env.polite => Settled
  /\ chip' = [chip EXCEPT !.sr = "established"]
  /\ peer' = [conn |-> peer.conn + 1, sent |-> 0, got |-> <<>>]
  /\ UNCHANGED <<runnerVars, env, state, sending, co, call>>

PeerSends ==
  /\ chip.sr = "established" /\ peer.sent < MaxBytes
  /\ env.polite => connected
  /\ chip' = [chip EXCEPT !.rx = Append(@, Byte(peer.sent + 1)),
                          !.ir = @ \cup {"RECV"}]
  /\ peer' = [peer EXCEPT !.sent = @ + 1]
  /\ UNCHANGED <<runnerVars, env, state, sending, co, call>>

\* FIN leaves the socket half open, RST closes it.
PeerLeaves ==
  /\ chip.sr = "established"
  /\ env.polite => connected
  /\ \E sr \in {"closeWait", "closed"} : chip' = [chip EXCEPT !.sr = sr]
  /\ UNCHANGED <<runnerVars, env, state, sending, co, call, peer>>

\* The peer acknowledges nothing any more: retransmission times out.
PeerVanishes ==
  /\ chip.sr = "established" /\ chip.tx # <<>>
  /\ chip' = [chip EXCEPT !.sr = "closed", !.tx = <<>>, !.ir = @ \cup {"TIMEOUT"}]
  /\ UNCHANGED <<runnerVars, env, state, sending, co, call, peer>>

ChipSends ==
  /\ chip.sr \in {"established", "closeWait", "closing"} /\ chip.tx # <<>>
  /\ peer' = [peer EXCEPT !.got = @ \o chip.tx]
  /\ chip' = [chip EXCEPT !.tx = <<>>, !.ir = @ \cup {"SENDOK"},
                          !.held = IF env.lags THEN Len(chip.tx) ELSE 0]
  /\ UNCHANGED <<runnerVars, env, state, sending, co, call>>

ChipFrees ==
  /\ chip.held > 0
  /\ chip' = [chip EXCEPT !.held = 0]
  /\ UNCHANGED <<runnerVars, env, state, sending, co, call, peer>>

\* The handshake that DISCON started ends.
ChipCloses ==
  /\ chip.sr = "closing"
  /\ chip' = [chip EXCEPT !.sr = "closed"]
  /\ UNCHANGED <<runnerVars, env, state, sending, co, call, peer>>

Disconnect(sr) == IF sr \in {"established", "closeWait"} THEN "closing" ELSE sr
-----------------------------------------------------------------------------
(***************************************************************************)
(* The coordinator's turn.  It sleeps until an interrupt comes, at most    *)
(* 100 ms, or for 1 ms if the pin is still low.  Assumed: the application  *)
(* finishes a call it is in, a few transfers, before the next turn.        *)
(***************************************************************************)
InCall == app.at \in {"fetch", "space", "send", "abort"}

CoWakes ==
  /\ co.at = "asleep" /\ state # "none" /\ ~InCall
  /\ co' = [at |-> IF chip.ir = {} THEN "poll" ELSE "clear", ir |-> chip.ir]
  /\ UNCHANGED <<runnerVars, env, chip, state, sending, call, peer>>

\* dispatchPerSocket() clears the interrupts it read ...
CoClears ==
  /\ co.at = "clear"
  /\ chip' = [chip EXCEPT !.ir = @ \ co.ir]
  /\ co' = [co EXCEPT !.at = "dispatch"]
  /\ UNCHANGED <<runnerVars, env, state, sending, call, peer>>

\* ... and reports them.  Mutation: what was received is not reported.
EventOfMute(bit) == CASE bit = "RECV" -> "Custom" [] bit = "TIMEOUT" -> "Error"
                      [] bit = "SENDOK" -> "CanWrite"
EventOf(bit) == CASE bit = "RECV" -> "DataAvailable" [] bit = "TIMEOUT" -> "Error"
                  [] bit = "SENDOK" -> "CanWrite"

CoDispatches ==
  /\ co.at = "dispatch"
  /\ sending' = (sending /\ "SENDOK" \notin co.ir)
  /\ Post({EventOf(bit) : bit \in co.ir})
  /\ co' = [co EXCEPT !.at = "poll", !.ir = {}]
  /\ UNCHANGED <<connected, app, env, chip, state, call, peer>>

\* poll(), by state and status.  Mutation: closed sockets are left closed.
RelistenNot == UNCHANGED <<chip, sending, state>>
Relisten == Listen

Poll ==
  /\ co.at = "poll"
  /\ \/ /\ state = "listening" /\ chip.sr = "established"
        /\ state' = "connected" /\ Post({"Connected"})
        /\ UNCHANGED <<chip, sending>>
     \/ /\ state = "listening" /\ chip.sr = "closed"
        /\ state' = "error" /\ Post({"Error"})
        /\ UNCHANGED <<chip, sending>>
     \/ /\ state = "connected" /\ chip.sr \in {"closeWait", "closed"}
        /\ state' = "closing" /\ Post({"Disconnected"})
        /\ chip' = [chip EXCEPT !.sr = Disconnect(@)]
        /\ UNCHANGED sending
     \/ /\ state = "closing" /\ chip.sr = "closed"
        /\ Relisten /\ UNCHANGED events
     \/ /\ <<state, chip.sr>> \notin {<<"listening", "established">>,
              <<"listening", "closed">>, <<"connected", "closeWait">>,
              <<"connected", "closed">>, <<"closing", "closed">>}
        /\ UNCHANGED <<events, chip, sending, state>>
  /\ co' = [co EXCEPT !.at = "asleep"]
  /\ UNCHANGED <<connected, app, env, call, peer>>

CoNext == CoWakes \/ CoClears \/ CoDispatches \/ Poll
=============================================================================
