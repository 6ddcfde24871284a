----------------------------- MODULE Dhcp_proofs -----------------------------
(***************************************************************************)
(* The client never uses an address it was not granted or did not ask for: *)
(* any servers, any bounds, any number of messages lost, late or repeated. *)
(***************************************************************************)
EXTENDS Dhcp, TLAPS

\* A cleared client, no messages.
LEMMA InitInv == Init => IInv
BY DhcpAssumption
   DEF Init, IInv, TypeOK, AcksGranted, OwnRequest, LeaseHeld, Cleared, Names, Messages,
       Clients

\* While DHCP_run() reports RUNNING its caller goes on.
LEMMA ReturnsRunning ==
  ASSUME IInv, Running, Returns("RUNNING")
  PROVE  w5' = "DHCPING" /\ chip' = chip
BY DEF Returns, Running, IInv, TypeOK

\* What the client sends, in any of its states.
LEMMA Sent ==
  ASSUME NEW d \in Clients({"IDLE", "DISCOVERING", "REQUESTING", "BOUND"})
  PROVE  /\ Discover(d) \in Messages /\ Discover(d).type = "DISCOVER"
         /\ Discover(d).xid = d.xid
         /\ Request(d) \in Messages /\ Request(d).type = "REQUEST"
         /\ Request(d).xid = d.xid /\ Request(d).ip = d.requested
BY DEF Messages, Message, Discover, Request, Names, Clients

\* The coordinator starts, or starts again, the client.
LEMMA StartInv == ASSUME IInv, Start PROVE IInv'
<1> USE DEF IInv, Start
<1>1. TypeOK'
  BY DEF TypeOK, Cleared, Names, Clients
<1>2. AcksGranted'
  BY DEF AcksGranted
<1>3. OwnRequest'
  BY DEF OwnRequest, TypeOK
<1>4. LeaseHeld'
  BY DEF LeaseHeld, Cleared
<1> QED BY <1>1, <1>2, <1>3, <1>4

\* A new transaction: no message is of it yet.
LEMMA NewTransaction ==
  ASSUME IInv, Running, Apart, dhcp' \in Clients({"DISCOVERING"}),
         dhcp'.xid = dhcp.xid + 1,
         NEW rest \in SUBSET net, net' = rest \cup {Discover(dhcp')},
         Returns("RUNNING")
  PROVE  IInv'
<1>0. w5' = "DHCPING" /\ chip' = chip
  BY ReturnsRunning
<1>1. Discover(dhcp') \in Messages /\ Discover(dhcp').type = "DISCOVER"
      /\ Discover(dhcp').xid = dhcp'.xid
  BY Sent DEF Clients
<1>2. TypeOK'
  BY <1>0, <1>1 DEF IInv, TypeOK, Apart, Running, Clients
<1>3. AcksGranted'
  BY <1>1 DEF IInv, AcksGranted, Apart
<1>4. OwnRequest'
  <2> SUFFICES ASSUME restarts = 0, NEW m \in net'
               PROVE  /\ m.xid <= dhcp'.xid
                      /\ m.type \in {"REQUEST", "ACK"} => m.xid # dhcp'.xid
    BY DEF OwnRequest, Apart
  <2>1. CASE m \in rest
    <3>1. m.xid <= dhcp.xid /\ m.xid \in Nat /\ dhcp.xid \in Nat
      BY <2>1 DEF IInv, OwnRequest, TypeOK, Messages, Clients
    <3> QED BY <3>1
  <2>2. CASE m = Discover(dhcp')
    <3>1. dhcp.xid \in Nat
      BY DEF IInv, TypeOK, Clients
    <3> QED BY <3>1, <2>2, <1>1
  <2> QED BY <2>1, <2>2
<1>5. LeaseHeld'
  BY <1>0 DEF LeaseHeld, Clients
<1> QED BY <1>2, <1>3, <1>4, <1>5 DEF IInv

LEMMA BeginRetryInv == ASSUME IInv, Begin \/ Retry PROVE IInv'
<1>1. dhcp' \in Clients({"DISCOVERING"}) /\ dhcp'.xid = dhcp.xid + 1
  <2>1. dhcp \in Clients({"IDLE", "DISCOVERING", "REQUESTING", "BOUND"})
    BY DEF IInv, TypeOK
  <2>2. dhcp.xid + 1 \in Nat /\ dhcp.retries + 1 \in Nat
    BY <2>1 DEF Clients
  <2>3. CASE Begin
    BY <2>1, <2>2, <2>3, Zenon DEF Begin, Clients
  <2>4. CASE Retry
    BY <2>1, <2>2, <2>4, Zenon DEF Retry, Retried, Clients
  <2> QED BY <2>3, <2>4
<1>2. net' = net \cup {Discover(dhcp')} /\ Running /\ Apart /\ Returns("RUNNING")
  BY DEF Begin, Retry
<1> QED BY <1>1, <1>2, NewTransaction

\* A reply taken leaves the network or stays for another time.
LEMMA TakesNet ==
  ASSUME NEW state, NEW m, NEW sent, Takes(state, m, sent)
  PROVE  /\ Running /\ dhcp.state = state /\ Apart
         /\ \E rest \in SUBSET net : net' = rest \cup sent
BY DEF Takes

LEMMA NakInv == ASSUME IInv, NEW m \in Replies, Nak(m) PROVE IInv'
<1>1. dhcp' \in Clients({"DISCOVERING"}) /\ dhcp'.xid = dhcp.xid + 1
  <2>1. dhcp \in Clients({"IDLE", "DISCOVERING", "REQUESTING", "BOUND"}) /\ m \in Messages
    BY DEF IInv, TypeOK, Replies
  <2>2. dhcp.xid + 1 \in Nat /\ m.ip \in Names /\ m.server \in Names
    BY <2>1 DEF Clients, Messages
  <2>3. Answered(m).xid = dhcp.xid
    BY <2>1 DEF Answered, Clients
  <2>4. Answered(m) \in Clients({"IDLE", "DISCOVERING", "REQUESTING", "BOUND"})
    BY <2>1, <2>2 DEF Answered, Clients
  <2>5. dhcp' = [Answered(m) EXCEPT !.state = "DISCOVERING", !.tick = 0,
                                    !.xid = Answered(m).xid + 1]
    BY DEF Nak
  <2> QED BY <2>2, <2>3, <2>4, <2>5, Zenon DEF Clients
<1>2. Takes("REQUESTING", m, {Discover(dhcp')}) /\ Returns("RUNNING")
  BY DEF Nak
<1>3. Running /\ Apart /\ \E rest \in SUBSET net : net' = rest \cup {Discover(dhcp')}
  BY <1>2, TakesNet
<1> QED BY <1>1, <1>2, <1>3, NewTransaction

(***************************************************************************)
(* A step within a transaction that sends nothing.  Either the request     *)
(* stands, or there is none yet.                                           *)
(***************************************************************************)
LEMMA SameTransaction ==
  ASSUME IInv, UNCHANGED <<caller, granted, restarts>>, net' \subseteq net,
         dhcp' \in Clients({"IDLE", "DISCOVERING", "REQUESTING", "BOUND"}),
         dhcp'.xid = dhcp.xid,
         dhcp'.state = "DISCOVERING" => dhcp.state = "DISCOVERING",
         dhcp.state # "DISCOVERING" => dhcp'.requested = dhcp.requested,
         w5' \in {"Idle", "DHCPING", "ON"}, LeaseHeld'
  PROVE  IInv'
<1>1. TypeOK'
  BY DEF IInv, TypeOK
<1>2. AcksGranted'
  BY DEF IInv, AcksGranted
<1>3. OwnRequest'
  BY DEF IInv, OwnRequest
<1> QED BY <1>1, <1>2, <1>3 DEF IInv

LEMMA GiveUpInv == ASSUME IInv, GiveUp PROVE IInv'
<1>1. dhcp' \in Clients({"IDLE"}) /\ dhcp'.xid = dhcp.xid /\ dhcp'.requested = dhcp.requested
  <2>1. dhcp \in Clients({"IDLE", "DISCOVERING", "REQUESTING", "BOUND"})
    BY DEF IInv, TypeOK
  <2>2. dhcp.retries + 1 \in Nat
    BY <2>1 DEF Clients
  <2> QED BY <2>1, <2>2 DEF Clients, GiveUp
<1>2. w5' \in {"Idle", "DHCPING"}
  BY DEF GiveUp, Returns, Running
<1>3. LeaseHeld'
  BY <1>1, <1>2 DEF LeaseHeld, Clients
<1> QED BY <1>1, <1>2, <1>3, SameTransaction DEF GiveUp, Apart, Clients

\* Replies that change no more than the fields the parser writes.
LEMMA ParsedInv ==
  ASSUME IInv, NEW m \in Replies, Strange(m) \/ NotAnOffer(m) \/ LateOffer(m)
  PROVE  IInv'
<1>1. /\ dhcp' \in Clients({"DISCOVERING", "REQUESTING"})
      /\ dhcp'.xid = dhcp.xid /\ dhcp'.state = dhcp.state
      /\ dhcp.state # "DISCOVERING" => dhcp'.requested = dhcp.requested
  <2>1. dhcp \in Clients({"IDLE", "DISCOVERING", "REQUESTING", "BOUND"}) /\ m \in Messages
    BY DEF IInv, TypeOK, Replies
  <2> QED BY <2>1 DEF Clients, Messages, Strange, NotAnOffer, LateOffer, Offered, Answered, Takes
<1>2. Running /\ Returns("RUNNING") /\ Apart /\ net' \subseteq net
  BY DEF Strange, NotAnOffer, LateOffer, Takes
<1>3. w5' = "DHCPING"
  BY <1>2, ReturnsRunning
<1>4. LeaseHeld'
  BY <1>1, <1>3 DEF LeaseHeld, Clients
<1> QED BY <1>1, <1>2, <1>3, <1>4, SameTransaction DEF Apart, Clients

\* The address granted is the one asked for, and comes into use.
LEMMA AckInv == ASSUME IInv, NEW m \in Replies, Ack(m) PROVE IInv'
<1>0. /\ dhcp \in Clients({"IDLE", "DISCOVERING", "REQUESTING", "BOUND"})
      /\ m \in Messages /\ m \in net /\ m.xid = dhcp.xid /\ m.type = "ACK"
  BY DEF IInv, TypeOK, Replies, Ack
<1>1. /\ dhcp' \in Clients({"BOUND"}) /\ dhcp'.xid = dhcp.xid
      /\ dhcp'.requested = dhcp.requested /\ dhcp'.ip = m.ip /\ dhcp'.server = m.server
  BY <1>0, DhcpAssumption DEF Clients, Messages, Ack, Answered
<1>2. Running /\ Apart /\ net' \subseteq net
  BY DEF Ack, Takes
<1>3. w5' \in {"DHCPING", "ON"} /\ chip' = dhcp'.ip
  BY <1>2 DEF Ack, Returns, Running
<1>4. LeaseHeld'
  <2>1. <<m.server, m.ip>> \in granted
    BY <1>0 DEF IInv, AcksGranted
  <2>2. restarts = 0 => m.ip = dhcp.requested
    BY <1>0 DEF IInv, OwnRequest
  <2> QED BY <1>1, <1>2, <1>3, <2>1, <2>2 DEF LeaseHeld, Apart
<1> QED BY <1>1, <1>2, <1>3, <1>4, SameTransaction DEF Apart, Clients

(***************************************************************************)
(* An offer taken, and a lease renewed: the client sends the only REQUEST  *)
(* of the transaction, or the same again.                                  *)
(***************************************************************************)
LEMMA RequestInv ==
  ASSUME IInv, Running, Apart, dhcp' \in Clients({"REQUESTING"}), dhcp'.xid = dhcp.xid,
         dhcp.state # "DISCOVERING" => dhcp'.requested = dhcp.requested,
         NEW rest \in SUBSET net, net' = rest \cup {Request(dhcp')},
         Returns("RUNNING")
  PROVE  IInv'
<1>0. w5' = "DHCPING" /\ chip' = chip
  BY ReturnsRunning
<1>1. /\ Request(dhcp') \in Messages /\ Request(dhcp').type = "REQUEST"
      /\ Request(dhcp').xid = dhcp'.xid /\ Request(dhcp').ip = dhcp'.requested
  BY Sent DEF Clients
<1>2. TypeOK'
  BY <1>0, <1>1 DEF IInv, TypeOK, Apart, Clients
<1>3. AcksGranted'
  BY <1>1 DEF IInv, AcksGranted, Apart
<1>4. OwnRequest'
  <2> SUFFICES ASSUME restarts = 0, NEW n \in net'
               PROVE  /\ n.xid <= dhcp'.xid
                      /\ n.type \in {"REQUEST", "ACK"} /\ n.xid = dhcp'.xid =>
                           n.ip = dhcp'.requested
    BY DEF OwnRequest, Apart, Clients
  <2>1. CASE n \in rest
    BY <2>1 DEF IInv, OwnRequest
  <2>2. CASE n = Request(dhcp')
    BY <2>2, <1>1 DEF Clients
  <2> QED BY <2>1, <2>2
<1>5. LeaseHeld'
  BY <1>0 DEF LeaseHeld, Clients
<1> QED BY <1>2, <1>3, <1>4, <1>5 DEF IInv

LEMMA OfferInv == ASSUME IInv, NEW m \in Replies, Offer(m) PROVE IInv'
<1>1. dhcp' \in Clients({"REQUESTING"}) /\ dhcp'.xid = dhcp.xid
  BY DEF IInv, TypeOK, Clients, Offer, Offered, Replies, Messages
<1>2. Takes("DISCOVERING", m, {Request(dhcp')}) /\ Returns("RUNNING")
  BY DEF Offer
<1>3. /\ Running /\ Apart /\ dhcp.state = "DISCOVERING"
      /\ \E rest \in SUBSET net : net' = rest \cup {Request(dhcp')}
  BY <1>2, TakesNet
<1> QED BY <1>1, <1>2, <1>3, RequestInv

LEMMA RenewInv == ASSUME IInv, Renew PROVE IInv'
<1>1. /\ dhcp' \in Clients({"REQUESTING"}) /\ dhcp'.xid = dhcp.xid
      /\ dhcp'.requested = dhcp.requested /\ Request(dhcp') = Request(dhcp)
  BY DEF IInv, TypeOK, Clients, Renew, Request
<1> QED BY <1>1, RequestInv DEF Renew

LEMMA TickInv == ASSUME IInv, Tick PROVE IInv'
<1>1. /\ dhcp' \in Clients({"IDLE", "DISCOVERING", "REQUESTING", "BOUND"})
      /\ dhcp'.xid = dhcp.xid /\ dhcp'.state = dhcp.state
      /\ dhcp'.requested = dhcp.requested /\ dhcp'.server = dhcp.server
      /\ dhcp'.ip = dhcp.ip
  BY DEF IInv, TypeOK, Clients, Tick
<1>2. UNCHANGED <<caller, w5, chip, net, granted, restarts>>
  BY DEF Tick
<1>3. LeaseHeld'
  BY <1>1, <1>2 DEF IInv, LeaseHeld
<1> QED BY <1>1, <1>2, <1>3, SameTransaction DEF IInv, TypeOK

(***************************************************************************)
(* Servers and network: every message they put in the place of another is  *)
(* of its transaction, and an ACK is granted.                              *)
(***************************************************************************)
LEMMA NetInv ==
  ASSUME IInv, Side, granted \subseteq granted', NEW m \in net,
         \A n \in net' \ net :
           /\ n \in Messages /\ n.xid = m.xid
           /\ n.type = "ACK" => m.type = "REQUEST" /\ n.ip = m.ip
                                /\ <<n.server, n.ip>> \in granted'
           /\ n.type # "REQUEST"
  PROVE  IInv'
<1>1. TypeOK'
  BY DEF IInv, TypeOK, Side
<1>2. AcksGranted'
  BY DEF IInv, AcksGranted
<1>3. OwnRequest'
  BY DEF IInv, OwnRequest, Side
<1>4. LeaseHeld'
  BY DEF IInv, LeaseHeld, Side
<1> QED BY <1>1, <1>2, <1>3, <1>4 DEF IInv

LEMMA NetworkInv == ASSUME IInv, Offers \/ Grants \/ Refuses \/ Loses PROVE IInv'
<1>0. net \subseteq Messages
  BY DEF IInv, TypeOK
<1>1. CASE Offers
  <2>1. PICK m \in net, who \in (SUBSET Servers) \ {{}} :
          net' = (net \ {m}) \cup {Message("OFFER", m.xid, s, s) : s \in who}
    BY <1>1 DEF Offers
  <2>2. \A n \in net' \ net : n \in Messages /\ n.xid = m.xid /\ n.type = "OFFER"
    BY <1>0, <2>1 DEF Message, Messages, Names
  <2> QED BY <1>1, <2>2, NetInv DEF Offers
<1>2. CASE Grants
  <2>1. PICK m \in net :
          /\ m.type = "REQUEST"
          /\ net' = (net \ {m}) \cup {Message("ACK", m.xid, m.server, m.ip)}
          /\ granted' = granted \cup {<<m.server, m.ip>>}
    BY <1>2 DEF Grants
  <2>2. \A n \in net' \ net :
          /\ n \in Messages /\ n.xid = m.xid /\ n.type = "ACK" /\ n.ip = m.ip
          /\ <<n.server, n.ip>> \in granted'
    BY <1>0, <2>1 DEF Message, Messages
  <2> QED BY <1>2, <2>1, <2>2, NetInv DEF Grants
<1>3. CASE Refuses
  <2>1. PICK m \in net : net' = (net \ {m}) \cup {Message("NAK", m.xid, m.server, "none")}
    BY <1>3 DEF Refuses
  <2>2. \A n \in net' \ net : n \in Messages /\ n.xid = m.xid /\ n.type = "NAK"
    BY <1>0, <2>1 DEF Message, Messages, Names
  <2> QED BY <1>3, <2>2, NetInv DEF Refuses
<1>4. CASE Loses
  <2>1. PICK m \in net : net' = net \ {m}
    BY <1>4 DEF Loses
  <2> QED BY <1>4, <2>1, NetInv DEF Loses
<1> QED BY <1>1, <1>2, <1>3, <1>4

LEMMA StepInv == IInv /\ [Next]_vars => IInv'
<1> SUFFICES ASSUME IInv, [Next]_vars PROVE IInv'
  OBVIOUS
<1>1. CASE Start
  BY <1>1, StartInv
<1>2. CASE DhcpRun
  BY <1>2, BeginRetryInv, GiveUpInv, RenewInv, ParsedInv, OfferInv, AckInv, NakInv
     DEF DhcpRun
<1>3. CASE Tick
  BY <1>3, TickInv
<1>4. CASE Offers \/ Grants \/ Refuses \/ Loses
  BY <1>4, NetworkInv
<1>5. CASE UNCHANGED vars
  BY <1>5 DEF vars, IInv, TypeOK, AcksGranted, OwnRequest, LeaseHeld
<1> QED BY <1>1, <1>2, <1>3, <1>4, <1>5 DEF Next

(***************************************************************************)
(* The address in use was granted, and until DHCP_init() is called again   *)
(* it is the one the client asked for (DHCP_run and its caller).           *)
(***************************************************************************)
THEOREM LeasesHeld == Spec => []LeaseHeld
<1>1. IInv => LeaseHeld
  BY DEF IInv
<1> QED BY InitInv, StepInv, <1>1, PTL DEF Spec

(***************************************************************************)
(* An ACK on its way was granted by the server it names, whatever happened *)
(* to the messages before it.                                              *)
(***************************************************************************)
THEOREM AcksAreGranted == Spec => []AcksGranted
<1>1. IInv => AcksGranted
  BY DEF IInv
<1> QED BY InitInv, StepInv, <1>1, PTL DEF Spec
=============================================================================
