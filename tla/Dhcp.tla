-------------------------------- MODULE Dhcp --------------------------------
(***************************************************************************)
(* The DHCP client of the W5500 (libraries/w5500/dhcp_w5500.cpp) and who   *)
(* calls it: the coordinator lnTaskW5500 (lowlevel_w5500.cpp), which calls *)
(* DHCP_run() until it has an address and never again, or a main loop that *)
(* goes on calling it, as dhcp_w5500.h asks.                               *)
(*                                                                         *)
(* External: servers, and a network that loses, delays, reorders and       *)
(* repeats.  The chip's receive buffer is the end of it: a socket the chip *)
(* closed, which DHCP_run() opens again, is messages that were lost.       *)
(***************************************************************************)
EXTENDS Integers, Sequences

CONSTANTS
  Callers,     \* "task" (lnTaskW5500), "loop"
  Servers,     \* the servers
  WaitTime,    \* DHCP_WAIT_TIME, in ticks
  MaxRetry,    \* MAX_DHCP_RETRY
  LeaseTime,   \* of every lease, in ticks
  MaxTrouble   \* bound: losses, repeats, delays, refusals

ASSUME DhcpAssumption ==
  /\ Callers \subseteq {"task", "loop"}
  /\ WaitTime \in Nat \ {0} /\ MaxRetry \in Nat \ {0} /\ LeaseTime \in Nat
  /\ MaxTrouble \in Nat

VARIABLES
  caller,    \* who calls DHCP_run()
  w5,        \* _state of the coordinator
  dhcp,      \* g_dhcp
  chip,      \* the configured address, "none" before
  net,       \* messages on their way, both ways
  granted,   \* <<server, address>> of every lease a server gave
  restarts,  \* DHCP_init() calls after the first
  trouble    \* trouble the network made

vars == <<caller, w5, dhcp, chip, net, granted, restarts, trouble>>

\* memset().  The transaction id comes from the MAC, the same every time.
Cleared == [state |-> "IDLE", tick |-> 0, xid |-> 0, retries |-> 0,
            requested |-> "none", server |-> "none", ip |-> "none", lease |-> 0]

Init ==
  /\ caller \in Callers
  /\ w5 = "Idle"
  /\ dhcp = Cleared
  /\ chip = "none"
  /\ net = {}
  /\ granted = {}
  /\ restarts = 0 /\ trouble = 0

Message(type, xid, server, ip) == [type |-> type, xid |-> xid, server |-> server, ip |-> ip]
Discover(d) == Message("DISCOVER", d.xid, "none", "none")
Request(d) == Message("REQUEST", d.xid, d.server, d.requested)
-----------------------------------------------------------------------------
(***************************************************************************)
(* DHCP_run() and what its caller makes of the result.                     *)
(***************************************************************************)
Running == w5 = "DHCPING"
Apart == UNCHANGED <<caller, granted, restarts>>
Trouble == trouble < MaxTrouble /\ trouble' = trouble + 1

Returns(result) ==
  /\ w5' = IF caller = "loop" \/ result = "RUNNING" THEN w5
           ELSE IF result = "IP_ASSIGN" THEN "ON" ELSE "Idle"
  /\ chip' = IF result = "IP_ASSIGN" THEN dhcp'.ip ELSE chip

\* The coordinator, Idle: DHCP_init().
Start ==
  /\ w5 = "Idle"
  /\ w5' = "DHCPING"
  /\ dhcp' = Cleared
  /\ restarts' = IF dhcp = Cleared THEN restarts ELSE 1
  /\ UNCHANGED <<caller, chip, net, granted, trouble>>

\* IDLE: a new transaction.
Begin ==
  /\ Running /\ dhcp.state = "IDLE"
  /\ dhcp' = [dhcp EXCEPT !.state = "DISCOVERING", !.retries = 0, !.tick = 0, !.xid = @ + 1]
  /\ net' = net \cup {Discover(dhcp')}
  /\ Returns("RUNNING") /\ Apart /\ UNCHANGED trouble

\* Mutation: requests are waited for without limit.
TimedOutDiscover == dhcp.state = "DISCOVERING" /\ dhcp.tick >= WaitTime
TimedOut == dhcp.state \in {"DISCOVERING", "REQUESTING"} /\ dhcp.tick >= WaitTime

\* Mutation: the second try is the same transaction.
RetriedSame == [dhcp EXCEPT !.state = "DISCOVERING", !.retries = @ + 1, !.tick = 0]
Retried == [dhcp EXCEPT !.state = "DISCOVERING", !.retries = @ + 1, !.tick = 0, !.xid = @ + 1]

\* dhcp_retry(), with tries left or without.
Retry ==
  /\ Running /\ TimedOut /\ dhcp.retries + 1 < MaxRetry
  /\ dhcp' = Retried
  /\ net' = net \cup {Discover(dhcp')}
  /\ Returns("RUNNING") /\ Apart /\ UNCHANGED trouble

GiveUp ==
  /\ Running /\ TimedOut /\ dhcp.retries + 1 >= MaxRetry
  /\ dhcp' = [dhcp EXCEPT !.state = "IDLE", !.retries = @ + 1]
  /\ UNCHANGED net
  /\ Returns("FAILED") /\ Apart /\ UNCHANGED trouble

Replies == {m \in net : m.type \in {"OFFER", "ACK", "NAK"}}

\* dhcp_recv_udp() takes a reply in state `state', of which the network may
\* have another copy; what was sent, if anything, goes out.
Takes(state, m, sent) ==
  /\ Running /\ dhcp.state = state /\ ~TimedOut
  /\ \/ net' = (net \ {m}) \cup sent /\ UNCHANGED trouble
     \/ net' = net \cup sent /\ Trouble
  /\ Apart

\* dhcp_parse_reply() wants the xid of the transaction, whatever the type.
Strange(m) ==
  /\ m.xid # dhcp.xid
  /\ \/ Takes("DISCOVERING", m, {}) \/ Takes("REQUESTING", m, {})
  /\ UNCHANGED dhcp
  /\ Returns("RUNNING")

\* It writes into g_dhcp before anybody looks at the type.
Offered(m) == [dhcp EXCEPT !.requested = m.ip, !.server = m.server]
Answered(m) == [dhcp EXCEPT !.ip = m.ip, !.server = m.server]

Offer(m) ==
  /\ m.xid = dhcp.xid /\ m.type = "OFFER"
  /\ dhcp' = [Offered(m) EXCEPT !.state = "REQUESTING", !.tick = 0]
  /\ Takes("DISCOVERING", m, {Request(dhcp')})
  /\ Returns("RUNNING")

NotAnOffer(m) ==
  /\ m.xid = dhcp.xid /\ m.type # "OFFER"
  /\ dhcp' = Offered(m)
  /\ Takes("DISCOVERING", m, {})
  /\ Returns("RUNNING")

Ack(m) ==
  /\ m.xid = dhcp.xid /\ m.type = "ACK"
  /\ dhcp' = [Answered(m) EXCEPT !.state = "BOUND", !.tick = 0, !.lease = LeaseTime]
  /\ Takes("REQUESTING", m, {})
  /\ Returns("IP_ASSIGN")

Nak(m) ==
  /\ m.xid = dhcp.xid /\ m.type = "NAK"
  /\ dhcp' = [Answered(m) EXCEPT !.state = "DISCOVERING", !.tick = 0, !.xid = @ + 1]
  /\ Takes("REQUESTING", m, {Discover(dhcp')})
  /\ Returns("RUNNING")

LateOffer(m) ==
  /\ m.xid = dhcp.xid /\ m.type = "OFFER"
  /\ dhcp' = Answered(m)
  /\ Takes("REQUESTING", m, {})
  /\ Returns("RUNNING")

\* BOUND: half of the lease is over.
Renew ==
  /\ Running /\ dhcp.state = "BOUND"
  /\ dhcp.lease > 0 /\ dhcp.tick >= dhcp.lease \div 2
  /\ dhcp' = [dhcp EXCEPT !.state = "REQUESTING", !.tick = 0]
  /\ net' = net \cup {Request(dhcp)}
  /\ Returns("RUNNING") /\ Apart /\ UNCHANGED trouble

DhcpRun == \/ Begin \/ Retry \/ GiveUp \/ Renew
           \/ \E m \in Replies : \/ Strange(m) \/ Offer(m) \/ NotAnOffer(m)
                                 \/ Ack(m) \/ Nak(m) \/ LateOffer(m)

\* DHCP_time_handler(), once a second.  Unless there is trouble the network
\* is faster than that.  (Bound: no tick counts beyond what is compared.)
Tick ==
  /\ w5 # "Idle"
  /\ dhcp.tick < IF dhcp.state = "BOUND" THEN dhcp.lease \div 2 ELSE WaitTime
  /\ dhcp' = [dhcp EXCEPT !.tick = @ + 1]
  /\ IF net = {} THEN UNCHANGED trouble
     ELSE Trouble
  /\ UNCHANGED <<caller, w5, chip, net, granted, restarts>>
-----------------------------------------------------------------------------
(***************************************************************************)
(* Servers and network.                                                    *)
(***************************************************************************)
Side == UNCHANGED <<caller, w5, dhcp, chip, restarts>>

\* Every server hears a DISCOVER and may offer; one at least does.  Each
\* has an address of its own to offer: its name.
Offers ==
  \E m \in net : \E who \in (SUBSET Servers) \ {{}} :
    /\ m.type = "DISCOVER"
    /\ net' = (net \ {m}) \cup {Message("OFFER", m.xid, s, s) : s \in who}
    /\ Side /\ UNCHANGED <<granted, trouble>>

\* A REQUEST is for the server it names.
Grants ==
  \E m \in net :
    /\ m.type = "REQUEST"
    /\ net' = (net \ {m}) \cup {Message("ACK", m.xid, m.server, m.ip)}
    /\ granted' = granted \cup {<<m.server, m.ip>>}
    /\ Side /\ UNCHANGED trouble

Refuses ==
  \E m \in net :
    /\ m.type = "REQUEST"
    /\ net' = (net \ {m}) \cup {Message("NAK", m.xid, m.server, "none")}
    /\ Trouble /\ Side /\ UNCHANGED granted

Loses ==
  \E m \in net :
    /\ net' = net \ {m}
    /\ Trouble /\ Side /\ UNCHANGED granted
-----------------------------------------------------------------------------
Next == Start \/ DhcpRun \/ Tick \/ Offers \/ Grants \/ Refuses \/ Loses

Spec == Init /\ [][Next]_vars

\* The task runs, time passes, a server answers and the network delivers.
FairSpec == /\ Spec
            /\ WF_vars(Start) /\ WF_vars(DhcpRun) /\ WF_vars(Tick)
            /\ WF_vars(Offers \/ Grants)
-----------------------------------------------------------------------------
Names == Servers \cup {"none"}
Messages == [type : {"DISCOVER", "OFFER", "REQUEST", "ACK", "NAK"}, xid : Nat,
             server : Names, ip : Names]
Clients(states) ==
  [state : states, tick : Nat, xid : Nat, retries : Nat, requested : Names,
   server : Names, ip : Names, lease : Nat]

(***************************************************************************)
(* The shape of the state, for the proofs.                                 *)
(***************************************************************************)
TypeOK ==
  /\ caller \in {"task", "loop"}
  /\ w5 \in {"Idle", "DHCPING", "ON"}
  /\ dhcp \in Clients({"IDLE", "DISCOVERING", "REQUESTING", "BOUND"})
  /\ net \subseteq Messages
  /\ restarts \in {0, 1}

(***************************************************************************)
(* Why LeaseHeld holds: an ACK on its way was granted, and until a restart *)
(* no message is of a later transaction than the client's, and a REQUEST   *)
(* or ACK of its present one asks for, or grants, what it requested.       *)
(***************************************************************************)
AcksGranted == \A m \in net : m.type = "ACK" => <<m.server, m.ip>> \in granted
OwnRequest == restarts = 0 => \A m \in net :
  /\ m.xid <= dhcp.xid
  /\ m.type \in {"REQUEST", "ACK"} /\ m.xid = dhcp.xid =>
       dhcp.state # "DISCOVERING" /\ m.ip = dhcp.requested

(***************************************************************************)
(* An address in use was granted by the server the client takes it from,   *)
(* and is the one the client asked for, in spite of late, repeated and     *)
(* reordered replies to earlier transactions and of other servers' offers. *)
(* After a restart, which uses transaction ids again, only the first half  *)
(* is true.                                                                *)
(***************************************************************************)
LeaseHeld ==
  /\ dhcp.state = "BOUND" =>
       /\ <<dhcp.server, dhcp.ip>> \in granted
       /\ restarts = 0 => dhcp.ip = dhcp.requested
  /\ w5 = "ON" => chip = dhcp.ip

IInv == TypeOK /\ AcksGranted /\ OwnRequest /\ LeaseHeld

(***************************************************************************)
(* When the trouble ends the client gets an address, whatever it was doing *)
(* and however often it gave up before.                                    *)
(***************************************************************************)
GetsAddress == <>(dhcp.state = "BOUND")
=============================================================================
