------------------------- MODULE W5500Server_proofs -------------------------
(***************************************************************************)
(* The echo server over the W5500 keeps the order of what it echoes: for   *)
(* any number of clients and bytes, polite or not, any sizes of the chip's *)
(* and the runner's buffers, and every lag of the interrupt's coroutine.   *)
(***************************************************************************)
EXTENDS W5500Server, SequenceTheorems, TLAPS

(***************************************************************************)
(* The sequence of bytes between the client and itself, whichever places   *)
(* they are in.                                                            *)
(***************************************************************************)
LEMMA PrefixFollows ==
  ASSUME NEW s \in Seq(Bytes), NEW t \in Seq(Bytes),
         NEW n \in Nat, Follows(s \o t, n)
  PROVE  \E m \in 0 .. n : Follows(s, m)
<1> DEFINE old == Len(s \o t) - n
           c(i) == Byte(i)
<1>1. /\ Len(s) \in Nat /\ Len(t) \in Nat /\ Len(s \o t) = Len(s) + Len(t)
      /\ \A i \in 1 .. Len(s) : i \in 1 .. Len(s \o t) /\ (s \o t)[i] = s[i]
  BY ConcatProperties, LenProperties
<1>2. /\ old >= 0 /\ old \in Int /\ (env.polite => old = 0)
      /\ \A i \in 1 .. old : (s \o t)[i][1] # peer.conn
      /\ \A i \in old + 1 .. Len(s \o t) : (s \o t)[i] = Byte(i - old)
  BY <1>1 DEF Follows
<1> HIDE DEF old
<1>3. CASE Len(s) >= old
  <2> DEFINE m == Len(s) - old
  <2>1. m \in 0 .. n /\ Len(s) - m = old
    BY <1>1, <1>2, <1>3 DEF old
  <2>2. /\ \A i \in 1 .. old : s[i][1] # peer.conn
        /\ \A i \in old + 1 .. Len(s) : s[i] = Byte(i - old)
    BY <1>1, <1>2, <1>3
  <2> HIDE DEF m
  <2>3. Follows(s, m)
    BY <1>2, <2>1, <2>2 DEF Follows
  <2> QED BY <2>1, <2>3
<1>4. CASE Len(s) < old
  <2>1. Len(s) - 0 = Len(s) /\ Len(s) + 1 .. Len(s) = {}
    BY <1>1
  <2>2. \A i \in 1 .. Len(s) : s[i][1] # peer.conn
    BY <1>1, <1>2, <1>4
  <2>3. Follows(s, 0)
    BY <1>1, <1>2, <1>4, <2>1, <2>2 DEF Follows
  <2> QED BY <2>3
<1> QED BY <1>1, <1>2, <1>3, <1>4

\* Bytes of an earlier client may be left out wherever they are.
LEMMA LessFollows ==
  ASSUME NEW s \in Seq(Bytes), NEW d \in Seq(Bytes),
         NEW r \in Seq(Bytes), NEW n \in Nat,
         Follows((s \o d) \o r, n),
         \A i \in 1 .. Len(d) : d[i][1] # peer.conn
  PROVE  /\ Follows(s \o r, n)
         /\ env.polite => d = <<>>
<1> DEFINE l == (s \o d) \o r
           k == s \o r
           old == Len(l) - n
<1>1. /\ Len(s) \in Nat /\ Len(d) \in Nat /\ Len(r) \in Nat
      /\ s \o d \in Seq(Bytes) /\ Len(s \o d) = Len(s) + Len(d)
      /\ \A i \in 1 .. Len(s) : (s \o d)[i] = s[i]
      /\ \A i \in 1 .. Len(d) : (s \o d)[Len(s) + i] = d[i]
  BY ConcatProperties, LenProperties
<1>2. /\ Len(l) = Len(s) + Len(d) + Len(r)
      /\ \A i \in 1 .. Len(s) : l[i] = s[i]
      /\ \A i \in 1 .. Len(d) : l[Len(s) + i] = d[i]
      /\ \A i \in 1 .. Len(r) : l[Len(s) + Len(d) + i] = r[i]
  BY <1>1, ConcatProperties
<1>3. /\ Len(k) = Len(s) + Len(r)
      /\ \A i \in 1 .. Len(k) : k[i] = IF i <= Len(s) THEN s[i] ELSE r[i - Len(s)]
  BY ConcatProperties
<1>4. /\ old >= 0 /\ old \in Int /\ (env.polite => old = 0)
      /\ \A i \in 1 .. old : l[i][1] # peer.conn
      /\ \A i \in old + 1 .. Len(l) : l[i] = Byte(i - old)
  <2>1. Follows(l, n)
    OBVIOUS
  <2>2. Len(l) \in Nat
    BY <1>1, <1>2
  <2> HIDE DEF l
  <2> QED BY <2>1, <2>2 DEF Follows
<1>5. old = Len(s) + Len(d) + Len(r) - n
  BY <1>2
<1> HIDE DEF l, k, old
<1>6. CASE d = <<>>
  <2>1. Len(d) = 0
    BY <1>6
  <2>2. (s \o d) \o r = k
    BY <1>6, ConcatEmptySeq DEF k
  <2> QED BY <1>6, <2>2 DEF k
<1>7. CASE d # <<>>
  <2>1. Len(d) > 0
    BY <1>1, <1>7, EmptySeq
  <2>2. Len(s) + Len(d) <= old
    <3> SUFFICES ASSUME ~(Len(s) + Len(d) <= old) PROVE FALSE
      OBVIOUS
    <3> DEFINE i == Len(s) + Len(d)
    <3>1. i \in old + 1 .. Len(l) /\ Len(d) \in 1 .. Len(d)
      BY <1>1, <1>2, <1>4, <2>1
    <3>2. l[i][1] = peer.conn
      BY <1>4, <3>1 DEF Byte
    <3>3. l[i] = d[Len(d)]
      BY <1>2, <3>1
    <3> QED BY <3>1, <3>2, <3>3
  <2>3. ~env.polite
    BY <1>1, <1>4, <2>1, <2>2
  <2> DEFINE new == Len(k) - n
  <2>4. new = old - Len(d) /\ new >= Len(s) /\ new \in Int
    BY <1>1, <1>3, <1>4, <1>5, <2>2
  <2>7. Len(k) - n = new
    OBVIOUS
  <2> HIDE DEF new
  <2>5. ASSUME NEW i \in 1 .. new PROVE k[i][1] # peer.conn
    <3>1. CASE i <= Len(s)
      <4>1. i \in 1 .. Len(s) /\ i \in 1 .. old /\ i \in 1 .. Len(k)
        BY <1>1, <1>3, <1>4, <2>2, <2>4, <3>1
      <4> QED BY <1>2, <1>3, <1>4, <3>1, <4>1
    <3>2. CASE ~(i <= Len(s))
      <4>1. i - Len(s) \in 1 .. Len(r) /\ i \in 1 .. Len(k) /\ i + Len(d) \in 1 .. old
        BY <1>1, <1>3, <1>4, <1>5, <2>4, <3>2
      <4>2. k[i] = r[i - Len(s)] /\ r[i - Len(s)] = l[Len(s) + Len(d) + (i - Len(s))]
        BY <1>2, <1>3, <3>2, <4>1
      <4>3. Len(s) + Len(d) + (i - Len(s)) = i + Len(d)
        BY <1>1
      <4> QED BY <1>4, <4>1, <4>2, <4>3
    <3> QED BY <3>1, <3>2
  <2>6. ASSUME NEW i \in new + 1 .. Len(k) PROVE k[i] = Byte(i - new)
    <3>1. /\ i - Len(s) \in 1 .. Len(r) /\ i \in 1 .. Len(k) /\ ~(i <= Len(s))
          /\ i + Len(d) \in old + 1 .. Len(l)
      BY <1>1, <1>2, <1>3, <1>4, <1>5, <2>4
    <3>2. k[i] = r[i - Len(s)] /\ r[i - Len(s)] = l[Len(s) + Len(d) + (i - Len(s))]
      BY <1>2, <1>3, <3>1
    <3>3. Len(s) + Len(d) + (i - Len(s)) = i + Len(d) /\ i + Len(d) - old = i - new
      BY <1>1, <1>4, <2>4
    <3> QED BY <1>4, <3>1, <3>2, <3>3
  <2>8. Follows(k, n)
    <3>1. new >= 0
      BY <1>1, <2>4
    <3> QED BY <2>3, <2>5, <2>6, <2>7, <3>1 DEF Follows
  <2> QED BY <2>3, <2>8 DEF k
<1> QED BY <1>6, <1>7

\* The next byte of the client at the end.
LEMMA OneMoreFollows ==
  ASSUME NEW s \in Seq(Bytes), NEW n \in Nat, Follows(s, n)
  PROVE  Follows(Append(s, Byte(n + 1)), n + 1)
<1> DEFINE b == Byte(n + 1)
           a == Append(s, b)
           old == Len(s) - n
<1>1. /\ old >= 0 /\ (env.polite => old = 0)
      /\ \A i \in 1 .. old : s[i][1] # peer.conn
      /\ \A i \in old + 1 .. Len(s) : s[i] = Byte(i - old)
  BY DEF Follows
<1> HIDE DEF b
<1>2. /\ Len(s) \in Nat /\ Len(a) = Len(s) + 1
      /\ \A i \in 1 .. Len(s) : a[i] = s[i]
      /\ a[Len(s) + 1] = b
  OBVIOUS
<1> HIDE DEF a
<1>3. Len(a) - (n + 1) = old /\ old \in Int /\ Len(s) + 1 - old = n + 1
  BY <1>2
<1> HIDE DEF old
<1>4. \A i \in 1 .. old : a[i][1] # peer.conn
  <2>1. \A i \in 1 .. old : i \in 1 .. Len(s)
    BY <1>2, <1>3
  <2> QED BY <1>1, <1>2, <2>1
<1>5. ASSUME NEW i \in old + 1 .. Len(a) PROVE a[i] = Byte(i - old)
  <2>1. CASE i \in 1 .. Len(s)
    BY <1>1, <1>2, <1>3, <2>1
  <2>2. CASE i = Len(s) + 1
    BY <1>2, <1>3, <2>2 DEF b
  <2> QED BY <1>1, <1>2, <1>3, <2>1, <2>2
<1>6. Follows(a, n + 1)
  BY <1>1, <1>3, <1>4, <1>5 DEF Follows
<1> QED BY <1>6 DEF a, b

\* Who the client is, how much it sent and whether it is polite: all that
\* Follows looks at but the bytes.
LEMMA SameFollows ==
  ASSUME peer'.conn = peer.conn, env' = env, NEW s, NEW n, Follows(s, n)
  PROVE  Follows(s, n)'
BY DEF Follows, Byte

LEMMA Associative ==
  \A s, t, u \in Seq(Bytes) : (s \o t) \o u = s \o (t \o u)
BY ConcatAssociative

\* The places, as sequences; a line is what is back and what is to come.
LEMMA LineValue ==
  ASSUME Typed
  PROVE  /\ peer.got \in Seq(Bytes) /\ chip.tx \in Seq(Bytes)
         /\ app.data \in Seq(Bytes) /\ chip.rx \in Seq(Bytes)
         /\ Back \in Seq(Bytes) /\ peer.sent \in Nat /\ peer.conn \in Nat
         /\ Line = Back \o (app.data \o chip.rx)
         /\ app.data = <<>> => Line = Back \o chip.rx
<1>1. /\ peer.got \in Seq(Bytes) /\ chip.tx \in Seq(Bytes)
      /\ app.data \in Seq(Bytes) /\ chip.rx \in Seq(Bytes)
      /\ peer.sent \in Nat /\ peer.conn \in Nat
  BY DEF Typed, AppStates, ChipStates, Peers
<1>2. Back \in Seq(Bytes)
  BY <1>1, ConcatProperties DEF Back
<1>3. Line = Back \o (app.data \o chip.rx)
  BY <1>1, <1>2, Associative DEF Line
<1>4. ASSUME app.data = <<>> PROVE Line = Back \o chip.rx
  BY <1>2, <1>4, ConcatEmptySeq DEF Line
<1> QED BY <1>1, <1>2, <1>3, <1>4

\* What a step leaves of the line: all of it, ...
LEMMA LineStays ==
  ASSUME IInv, Back' = Back, peer'.conn = peer.conn,
         peer'.sent = peer.sent, env' = env,
         chip'.sr \in Open => chip.sr \in Open /\ Line' = Line
  PROVE  InLine'
<1>1. Typed /\ InLine /\ peer.sent \in Nat
  BY LineValue DEF IInv
<1>2. CASE chip'.sr \in Open
  <2>1. Follows(Line, peer.sent)
    BY <1>1, <1>2 DEF InLine
  <2>2. Follows(Line, peer.sent)'
    BY <1>2, <2>1 DEF Follows, Byte
  <2> QED BY <1>2, <2>2 DEF InLine, Open
<1>3. CASE chip'.sr \notin Open
  <2>1. \E n \in 0 .. peer.sent : Follows(Back, n)
    <3>1. CASE chip.sr \in Open
      <4>1. Follows(Back \o (app.data \o chip.rx), peer.sent)
        BY <1>1, <3>1, LineValue DEF InLine
      <4>2. app.data \o chip.rx \in Seq(Bytes) /\ Back \in Seq(Bytes)
        BY <1>1, LineValue, ConcatProperties
      <4> QED BY <1>1, <4>1, <4>2, PrefixFollows
    <3>2. CASE chip.sr \notin Open
      BY <1>1, <3>2 DEF InLine
    <3> QED BY <3>1, <3>2
  <2>2. PICK n \in 0 .. peer.sent : Follows(Back, n)
    BY <2>1
  <2>3. Follows(Back, n)'
    BY <2>2 DEF Follows, Byte
  <2>4. \E m \in 0 .. peer'.sent : Follows(Back, m)'
    BY <2>3
  <2> QED BY <1>3, <2>4 DEF InLine, Open
<1> QED BY <1>2, <1>3

\* ... or what is back of it, or less, once the connection is not open.
LEMMA LineEnds ==
  ASSUME IInv, chip'.sr \notin Open, Back' = peer.got,
         peer'.conn = peer.conn, peer'.sent = peer.sent, env' = env
  PROVE  InLine'
<1>1. /\ Typed /\ InLine /\ peer.sent \in Nat
      /\ peer.got \in Seq(Bytes) /\ chip.tx \in Seq(Bytes)
      /\ app.data \in Seq(Bytes) /\ chip.rx \in Seq(Bytes)
  BY LineValue DEF IInv
<1>2. \E n \in 0 .. peer.sent : Follows(Back, n)
  <2>1. CASE chip.sr \in Open
    <3>1. Follows(Back \o (app.data \o chip.rx), peer.sent)
      BY <1>1, <2>1, LineValue DEF InLine
    <3>2. app.data \o chip.rx \in Seq(Bytes) /\ Back \in Seq(Bytes)
      BY <1>1, LineValue, ConcatProperties
    <3> QED BY <1>1, <3>1, <3>2, PrefixFollows
  <2>2. CASE chip.sr \notin Open
    BY <1>1, <2>2 DEF InLine
  <2> QED BY <2>1, <2>2
<1>3. PICK n \in 0 .. peer.sent : Follows(Back, n)
  BY <1>2
<1>4. n \in Nat /\ Follows(peer.got \o chip.tx, n)
  BY <1>1, <1>3 DEF Back
<1>5. PICK m \in 0 .. n : Follows(peer.got, m)
  BY <1>1, <1>4, PrefixFollows
<1>6. m \in 0 .. peer'.sent
  BY <1>1, <1>3
<1>7. Follows(Back, m)'
  BY <1>5 DEF Follows, Byte
<1>8. \E k \in 0 .. peer'.sent : Follows(Back, k)'
  BY <1>6, <1>7
<1> QED BY <1>8 DEF InLine, Open
-----------------------------------------------------------------------------
(***************************************************************************)
(* Steps of the server over the W5500 that move no byte, or lose those in  *)
(* hand.                                                                   *)
(***************************************************************************)
Calls == [had : BOOLEAN, n : Nat]
OtherTypes ==
  /\ events \in SUBSET Flags /\ connected \in BOOLEAN /\ sending \in BOOLEAN
  /\ app \in AppStates /\ chip \in ChipStates /\ co \in CoStates
  /\ call \in Calls
  /\ state \in {"none", "listening", "connected", "closing", "error"}

LEMMA TypesSuffice ==
  ASSUME Typed, OtherTypes', env' = env, peer' \in Peers
  PROVE  Typed'
BY DEF Typed, OtherTypes, Calls

\* The application's: a call begins only on a connection the driver knows of,
\* and bytes are lost only before it does.
LEMMA AppKeeps ==
  ASSUME IInv, OtherTypes', UNCHANGED <<env, peer, state, co>>,
         chip'.sr = chip.sr, chip'.rx = chip.rx, chip'.tx = chip.tx,
         \/ app'.data = app.data
         \/ app'.data = <<>> /\ (chip.sr \in Open => state = "listening"),
         app'.at \notin Holding => app'.data = <<>>,
         InCall' => InCall \/ state = "connected",
         app'.at = "fetch" => call'.n <= Len(chip.rx),
         app'.at = "send" => call'.n <= Len(app'.data)
  PROVE  IInv'
<1>1. Typed'
  BY TypesSuffice DEF IInv, Typed
<1>2. Believes'
  BY DEF IInv, Believes, InCall, Open
<1>3. InHand'
  BY DEF InHand, Holding
<1>4. Len(<<>>) = 0 /\ 1 .. 0 = {}
  OBVIOUS
<1>5. Known'
  <2>1. CASE app'.data = app.data
    BY <2>1 DEF IInv, Known
  <2>2. CASE app'.data = <<>>
    BY <1>4, <2>2 DEF IInv, Known
  <2> QED BY <2>1, <2>2
<1>6. Back' = Back
  BY DEF Back
<1>7. InLine'
  <2>1. CASE app'.data = app.data
    <3>1. Line' = Line
      BY <1>6, <2>1 DEF Line
    <3> QED BY <1>6, <3>1, LineStays
  <2>2. CASE app'.data = <<>> /\ (chip.sr \in Open => state = "listening")
    <3>1. CASE chip.sr \notin Open
      BY <1>6, <3>1, LineStays
    <3>2. CASE chip.sr \in Open
      <4>1. /\ app.data \in Seq(Bytes) /\ chip.rx \in Seq(Bytes)
            /\ Back \in Seq(Bytes) /\ peer.sent \in Nat
            /\ Typed
        BY LineValue DEF IInv
      <4>2. \A i \in 1 .. Len(app.data) : app.data[i][1] # peer.conn
        <5>1. state = "listening" /\ chip.sr # "listen"
          BY <2>2, <3>2 DEF Open
        <5>2. ASSUME NEW i \in 1 .. Len(app.data) PROVE app.data[i][1] # peer.conn
          <6>1. app.data[i] \in Bytes
            BY <4>1
          <6>2. app.data[i][1] \in Nat /\ peer.conn \in Nat
            BY <4>1, <6>1, LineValue DEF Bytes
          <6>3. app.data[i][1] < peer.conn
            BY <5>1 DEF IInv, Known
          <6> QED BY <6>2, <6>3
        <5> QED BY <5>2
      <4>3. Follows((Back \o app.data) \o chip.rx, peer.sent)
        BY <3>2 DEF IInv, InLine, Line
      <4>4. Follows(Back \o chip.rx, peer.sent)
        BY <4>1, <4>2, <4>3, LessFollows
      <4>5. Line' = Back \o chip.rx
        BY <1>1, <1>6, <2>2, <4>1, ConcatEmptySeq DEF Line
      <4>6. Follows(Line, peer.sent)'
        BY <4>4, <4>5 DEF Follows, Byte
      <4> QED BY <3>2, <4>6 DEF InLine, Open
    <3> QED BY <3>1, <3>2
  <2> QED BY <2>1, <2>2
<1> QED BY <1>1, <1>2, <1>3, <1>5, <1>7 DEF IInv

\* The others': the connection does not open, and what is sent stays.
LEMMA OthersKeep ==
  ASSUME IInv, OtherTypes', UNCHANGED <<env, peer, app, call>>,
         chip'.rx = chip.rx, chip'.tx = chip.tx,
         chip'.sr \in Open => chip.sr \in Open,
         chip'.sr = "listen" <=> chip.sr = "listen",
         state' = "listening" => state = "listening",
         Believes'
  PROVE  IInv'
<1>1. Typed'
  BY TypesSuffice DEF IInv, Typed
<1>2. InHand'
  BY DEF IInv, InHand, Holding
<1>3. Known'
  BY DEF IInv, Known
<1>4. Back' = Back
  BY DEF Back
<1>5. Line' = Line
  BY <1>4 DEF Line
<1>6. InLine'
  BY <1>4, <1>5, LineStays
<1> QED BY <1>1, <1>2, <1>3, <1>6 DEF IInv

\* listen(): the chip forgets, the bytes in hand stay.
LEMMA ListenKeeps ==
  ASSUME IInv, Listen, UNCHANGED <<env, peer, call>>,
         OtherTypes', ~InCall', app'.data = app.data,
         app'.at \notin Holding => app'.data = <<>>
  PROVE  IInv'
<1>1. /\ chip' = [sr |-> "listen", ir |-> {}, rx |-> <<>>, tx |-> <<>>, held |-> 0]
      /\ state' = "listening"
  BY DEF Listen
<1>2. /\ chip'.sr = "listen" /\ chip'.rx = <<>> /\ chip'.tx = <<>>
      /\ chip'.sr \notin Open /\ Len(<<>>) = 0 /\ 1 .. 0 = {}
  BY <1>1 DEF Open
<1>3. Typed'
  BY TypesSuffice DEF IInv, Typed
<1>4. Believes'
  BY <1>1, <1>2 DEF Believes, Open
<1>5. InHand'
  BY DEF IInv, InHand, InCall, Holding
<1>6. Known'
  BY <1>2 DEF IInv, Known
<1>7. Back' = peer.got
  <2>1. peer.got \in Seq(Bytes)
    BY LineValue DEF IInv
  <2> QED BY <1>2, <2>1, ConcatEmptySeq DEF Back
<1>8. InLine'
  BY <1>2, <1>7, LineEnds
<1> QED BY <1>3, <1>4, <1>5, <1>6, <1>8 DEF IInv

\* What process_events() does next is one of the flags it was given.
LEMMA ProcessShape ==
  ASSUME NEW batch
  PROVE  /\ \/ Process(batch) = Waiting
            \/ \E h \in Handlers \cap batch :
                 Process(batch) = [at |-> h, batch |-> batch, data |-> <<>>, direct |-> FALSE]
         /\ "Down" \in batch /\ "Up" \notin batch => Process(batch).at = "Down"
<1> DEFINE todo  == {i \in 1 .. 5 : Order[i] \in batch}
           first == CHOOSE i \in todo : \A j \in todo : i <= j
<1>1. /\ Order[1] = "Up" /\ Order[2] = "Down" /\ Order[3] = "Disconnected"
      /\ Order[4] = "Connected" /\ Order[5] = "DataAvailable"
  BY DEF Order
<1>2. \A i \in 1 .. 5 : Order[i] \in Handlers
  <2> SUFFICES ASSUME NEW i \in 1 .. 5 PROVE Order[i] \in Handlers
    OBVIOUS
  <2>1. i = 1 \/ i = 2 \/ i = 3 \/ i = 4 \/ i = 5
    OBVIOUS
  <2> QED BY <1>1, <2>1 DEF Handlers
<1>3. ASSUME todo # {}
      PROVE  first \in todo /\ \A j \in todo : first <= j
  <2>1. \E i \in todo : \A j \in todo : i <= j
    <3>1. CASE 1 \in todo
      BY <3>1
    <3>2. CASE 1 \notin todo /\ 2 \in todo
      BY <3>2
    <3>3. CASE 1 \notin todo /\ 2 \notin todo /\ 3 \in todo
      BY <3>3
    <3>4. CASE 1 \notin todo /\ 2 \notin todo /\ 3 \notin todo /\ 4 \in todo
      BY <3>4
    <3>5. CASE todo \subseteq {5}
      BY <1>3, <3>5
    <3>6. \A i \in todo : i = 1 \/ i = 2 \/ i = 3 \/ i = 4 \/ i = 5
      OBVIOUS
    <3> QED BY <3>1, <3>2, <3>3, <3>4, <3>5, <3>6
  <2> QED BY <2>1
<1>4. CASE todo = {}
  <2>1. Process(batch) = Waiting
    BY <1>4 DEF Process
  <2>2. ~("Down" \in batch)
    BY <1>1, <1>4
  <2> QED BY <2>1, <2>2
<1>5. CASE todo # {}
  <2>1. Process(batch) = [Waiting EXCEPT !.at = Order[first], !.batch = batch]
    BY <1>5 DEF Process
  <2>2. first \in 1 .. 5 /\ Order[first] \in Handlers /\ Order[first] \in batch
    BY <1>2, <1>3, <1>5
  <2>3. "Down" \in batch /\ "Up" \notin batch => first = 2
    <3> SUFFICES ASSUME "Down" \in batch, "Up" \notin batch PROVE first = 2
      OBVIOUS
    <3>1. 2 \in todo /\ 1 \notin todo
      BY <1>1
    <3> QED BY <1>3, <1>5, <3>1
  <2> HIDE DEF first, todo
  <2>4. Process(batch) =
          [at |-> Order[first], batch |-> batch, data |-> <<>>, direct |-> FALSE]
    BY <2>1 DEF Waiting
  <2>5. Process(batch).at = Order[first]
    BY <2>4
  <2> QED BY <1>1, <2>2, <2>3, <2>4, <2>5
<1> QED BY <1>4, <1>5

\* The flags of the two runners are the same, but for "Error".
LEMMA ProcessFlags ==
  ASSUME NEW batch \in SUBSET Flags
  PROVE  /\ Process(batch) \in AppStates
         /\ Process(batch).data = <<>>
         /\ Process(batch).at \in {"wait"} \cup Handlers
<1>1. Process(batch) = Process(batch)
  BY DEF Process, Process, Order, Order, Waiting, Waiting
<1>2. /\ Waiting \in AppStates /\ Waiting.data = <<>> /\ Waiting.at = "wait"
  BY DEF Waiting, AppStates, Places, Bytes
<1>3. CASE Process(batch) = Waiting
  BY <1>1, <1>2, <1>3
<1>4. ASSUME NEW h \in Handlers \cap batch,
             Process(batch) = [at |-> h, batch |-> batch, data |-> <<>>, direct |-> FALSE]
      PROVE  /\ Process(batch) \in AppStates /\ Process(batch).data = <<>>
             /\ Process(batch).at \in Handlers
  BY <1>4 DEF AppStates, Places, Handlers, Handlers
<1> QED BY <1>1, <1>3, <1>4, ProcessShape

LEMMA HandledValue ==
  ASSUME Typed, NEW e, Handled(e)
  PROVE  /\ app' \in AppStates /\ app'.data = <<>>
         /\ app'.at \in {"wait"} \cup Handlers
<1> DEFINE b == app.batch \ {e}
<1>1. b \in SUBSET Flags
  BY DEF Typed, AppStates
<1>2. app' = Process(b)
  BY DEF Handled
<1> HIDE DEF b
<1> QED BY <1>1, <1>2, ProcessFlags

\* The handler of a flag holds no bytes and is in no call.
LEMMA HandlersHoldNothing ==
  /\ \A p \in {"wait", "read", "release", "quit"} \cup Handlers :
       /\ p \notin Holding
       /\ p \notin {"fetch", "space", "send", "abort"}
  /\ Holding \subseteq Places
  /\ {"wait", "read", "fetch", "release", "quit"} \subseteq Places
BY DEF Holding, Handlers, Places

\* A step of the runner that holds no bytes, before and after.
LEMMA EmptyHandedKeeps ==
  ASSUME IInv, UNCHANGED <<env, peer, state, co, chip, sending, call>>,
         events' \in SUBSET Flags, connected' \in BOOLEAN, app' \in AppStates,
         app.data = <<>>, app'.data = <<>>,
         app'.at \in {"wait", "read", "release", "quit"} \cup Handlers
  PROVE  IInv'
<1>1. OtherTypes'
  BY DEF IInv, Typed, OtherTypes, Calls
<1>2. ~InCall' /\ app'.at # "fetch" /\ app'.at # "send" /\ app'.at \notin Holding
  BY HandlersHoldNothing DEF InCall
<1> QED BY <1>1, <1>2, AppKeeps

LEMMA RunnerKeeps ==
  ASSUME IInv, Run \/ Release
  PROVE  IInv'
<1>1. /\ UNCHANGED <<env, peer, state, co, chip, sending, call>>
      /\ Typed /\ InHand
  BY DEF Run, Release, Quiet, Apart, IInv
<1>2. CASE Wake
  <2>1. /\ app.at = "wait" /\ app' = Process(events)
        /\ events' = {} /\ connected' = connected
    BY <1>2 DEF Wake
  <2>2. /\ app' \in AppStates /\ app'.data = <<>>
        /\ app'.at \in {"wait"} \cup Handlers
    BY <1>1, <2>1, ProcessFlags DEF Typed
  <2>3. events' \in SUBSET Flags /\ connected' \in BOOLEAN /\ app.data = <<>>
    BY <1>1, <2>1, HandlersHoldNothing DEF Typed, InHand
  <2> QED BY <1>1, <2>2, <2>3, EmptyHandedKeeps
<1>3. CASE HandleConnected \/ HandleData \/ Release
  <2>1. /\ app.at \in {"Connected", "DataAvailable", "release", "quit"}
        /\ events' = events /\ connected' \in {connected, TRUE}
        /\ \/ \E e \in {"Connected", "DataAvailable"} : Handled(e)
           \/ app' = [app EXCEPT !.at = "read"]
    BY <1>3 DEF HandleConnected, HandleData, Release, Released,
                GoTo
  <2>2. app.data = <<>>
    BY <1>1, <2>1, HandlersHoldNothing DEF InHand, Handlers
  <2>3. /\ app' \in AppStates /\ app'.data = <<>>
        /\ app'.at \in {"wait", "read"} \cup Handlers
    <3>1. CASE \E e \in {"Connected", "DataAvailable"} : Handled(e)
      BY <1>1, <3>1, HandledValue
    <3>2. CASE app' = [app EXCEPT !.at = "read"]
      <4>1. app \in AppStates /\ "read" \in Places
        BY <1>1, HandlersHoldNothing DEF Typed
      <4> QED BY <2>2, <3>2, <4>1 DEF AppStates
    <3> QED BY <2>1, <3>1, <3>2
  <2>4. events' \in SUBSET Flags /\ connected' \in BOOLEAN
    BY <1>1, <2>1 DEF Typed
  <2> QED BY <1>1, <2>2, <2>3, <2>4, EmptyHandedKeeps
<1>4. CASE WaitForWrite
  <2>1. /\ app.at = "canWrite" /\ app' = [app EXCEPT !.at = "write"]
        /\ events' = events \ {"CanWrite"} /\ connected' = connected
    BY <1>4 DEF WaitForWrite, GoTo
  <2>2. app' \in AppStates /\ app'.data = app.data /\ app'.at = "write"
    <3>1. app \in AppStates /\ "write" \in Places
      BY <1>1 DEF Typed, Places, Holding
    <3> QED BY <2>1, <3>1 DEF AppStates
  <2>3. OtherTypes'
    BY <1>1, <2>1, <2>2 DEF Typed, OtherTypes, Calls
  <2> QED BY <1>1, <2>2, <2>3, AppKeeps DEF InCall, Holding
<1> QED BY <1>2, <1>3, <1>4 DEF Run

LEMMA ListenValue ==
  ASSUME Listen
  PROVE  chip' \in ChipStates /\ state' = "listening" /\ sending' = FALSE
<1> DEFINE none == <<>>
<1>1. none \in Seq(Bytes)
  OBVIOUS
<1>2. chip' = [sr |-> "listen", ir |-> {}, rx |-> none, tx |-> none, held |-> 0]
  BY DEF Listen
<1> HIDE DEF none
<1> QED BY <1>1, <1>2 DEF Listen, ChipStates

\* disconnectClient(); link up.
LEMMA LinkHandlersKeep ==
  ASSUME IInv, HandleUp \/ HandleDisconnected
  PROVE  IInv'
<1>1. Typed /\ InHand /\ Believes
  BY DEF IInv
<1>2. /\ app.at \in {"Up", "Disconnected"} /\ app.data = <<>>
      /\ \E e \in {"Up", "Disconnected"} : Handled(e)
      /\ UNCHANGED <<events, call, env, co, peer>> /\ connected' = FALSE
  BY <1>1, HandlersHoldNothing
  DEF HandleUp, HandleDisconnected, Apart, InHand, Handlers
<1>3. /\ app' \in AppStates /\ app'.data = <<>>
      /\ app'.at \in {"wait"} \cup Handlers
  BY <1>1, <1>2, HandledValue
<1>4. ~InCall' /\ app'.at # "fetch" /\ app'.at # "send" /\ app'.at \notin Holding
  BY <1>3, HandlersHoldNothing DEF InCall
<1>5. CASE HandleUp
  <2>1. Listen
    BY <1>5 DEF HandleUp
  <2>2. OtherTypes'
    BY <1>1, <1>2, <1>3, <2>1, ListenValue DEF Typed, OtherTypes, Calls
  <2> QED BY <1>2, <1>3, <1>4, <2>1, <2>2, ListenKeeps
<1>6. CASE HandleDisconnected
  <2>1. /\ sending' = sending
        /\ \/ /\ state = "connected" /\ state' = "closing"
              /\ chip' = [chip EXCEPT !.sr = Disconnect(@)]
           \/ UNCHANGED <<state, chip>>
    BY <1>6 DEF HandleDisconnected
  <2>2. CASE UNCHANGED <<state, chip>>
    <3>1. events' \in SUBSET Flags /\ connected' \in BOOLEAN
      BY <1>1, <1>2 DEF Typed
    <3> QED BY <1>2, <1>3, <2>1, <2>2, <3>1, EmptyHandedKeeps
  <2>3. CASE /\ state = "connected" /\ state' = "closing"
             /\ chip' = [chip EXCEPT !.sr = Disconnect(@)]
    <3>1. chip \in ChipStates /\ chip.sr # "listen"
      BY <1>1, <2>3 DEF Typed, Believes
    <3>2. /\ chip' \in ChipStates /\ chip'.rx = chip.rx /\ chip'.tx = chip.tx
          /\ chip'.sr \in {"closing", "closed"}
      BY <2>3, <3>1 DEF ChipStates, Disconnect, Open
    <3>3. chip'.sr \notin Open /\ chip'.sr # "listen"
      BY <3>2 DEF Open
    <3>4. OtherTypes'
      BY <1>1, <1>2, <1>3, <2>1, <2>3, <3>2 DEF Typed, OtherTypes, Calls
    <3>5. Typed'
      BY <1>1, <1>2, <3>4, TypesSuffice DEF Typed
    <3>6. Believes' /\ InHand' /\ Known'
      BY <1>2, <1>3, <1>4, <2>3, <3>2, <3>3
      DEF IInv, Believes, InHand, Known
    <3>7. Back' = Back
      BY <1>2, <3>2 DEF Back
    <3>8. InLine'
      BY <1>2, <3>3, <3>7, LineStays
    <3> QED BY <3>5, <3>6, <3>8 DEF IInv
  <2> QED BY <2>1, <2>2, <2>3
<1> QED BY <1>5, <1>6
-----------------------------------------------------------------------------
(***************************************************************************)
(* read() and write().                                                     *)
(***************************************************************************)
LEMMA ReadSizeKeeps ==
  ASSUME IInv, ReadSize
  PROVE  IInv'
<1> DEFINE n == IF state = "connected" THEN Lesser(Len(chip.rx), RxBuf) ELSE 0
<1>1. Typed /\ app.at = "read" /\ app.data = <<>>
  BY HandlersHoldNothing DEF IInv, InHand, ReadSize
<1>2. UNCHANGED <<chip, state, sending, env, co, peer, events, connected>>
  BY DEF ReadSize, ReadReturns, Apart
<1>3. \/ n = 0 /\ Handled("DataAvailable") /\ UNCHANGED call
      \/ n # 0 /\ app' = [app EXCEPT !.at = "fetch"] /\ call' = [call EXCEPT !.n = n]
  BY DEF ReadSize, ReadReturns, GoTo
<1>4. CASE n = 0 /\ Handled("DataAvailable") /\ UNCHANGED call
  <2>1. /\ app' \in AppStates /\ app'.data = <<>>
        /\ app'.at \in {"wait"} \cup Handlers
    BY <1>1, <1>4, HandledValue
  <2>2. events' \in SUBSET Flags /\ connected' \in BOOLEAN
    BY <1>1, <1>2 DEF Typed
  <2> QED BY <1>1, <1>2, <1>4, <2>1, <2>2, EmptyHandedKeeps
<1>5. CASE n # 0 /\ app' = [app EXCEPT !.at = "fetch"] /\ call' = [call EXCEPT !.n = n]
  <2>1. RxBuf \in Nat /\ Len(chip.rx) \in Nat
    BY <1>1, LineValue, LenProperties, W5500Assumption
  <2>2. n \in Nat /\ n <= Len(chip.rx) /\ state = "connected"
    BY <1>5, <2>1 DEF Lesser
  <2> HIDE DEF n
  <2>3. app \in AppStates /\ call \in Calls /\ "fetch" \in Places
    BY <1>1, HandlersHoldNothing DEF Typed, Calls
  <2>4. app' \in AppStates /\ app'.data = app.data /\ app'.at = "fetch"
    BY <1>5, <2>3 DEF AppStates
  <2>5. call' \in Calls /\ call'.n <= Len(chip.rx)
    BY <1>5, <2>2, <2>3 DEF Calls
  <2>6. OtherTypes'
    BY <1>1, <1>2, <2>4, <2>5 DEF Typed, OtherTypes
  <2> QED BY <1>1, <1>2, <2>2, <2>4, <2>5, <2>6, AppKeeps
<1> QED BY <1>3, <1>4, <1>5

\* Bytes taken from the front of a sequence.
LEMMA SplitValue ==
  ASSUME NEW s \in Seq(Bytes), NEW n \in Nat, n <= Len(s)
  PROVE  /\ SubSeq(s, 1, n) \in Seq(Bytes)
         /\ SubSeq(s, n + 1, Len(s)) \in Seq(Bytes)
         /\ Len(SubSeq(s, 1, n)) = n /\ Len(SubSeq(s, n + 1, Len(s))) = Len(s) - n
         /\ \A i \in 1 .. n : SubSeq(s, 1, n)[i] = s[i] /\ i \in 1 .. Len(s)
         /\ \A i \in 1 .. Len(s) - n :
              SubSeq(s, n + 1, Len(s))[i] = s[n + i] /\ n + i \in 1 .. Len(s)
         /\ [i \in 1 .. n |-> s[i]] = SubSeq(s, 1, n)
         /\ SubSeq(s, 1, n) \o SubSeq(s, n + 1, Len(s)) = s
<1> DEFINE h == SubSeq(s, 1, n)
           r == SubSeq(s, n + 1, Len(s))
<1>1. Len(s) \in Nat /\ n \in 0 .. Len(s) /\ \A i \in 1 .. Len(s) : s[i] \in Bytes
  BY LenProperties, ElementOfSeq
<1>2. h \in Seq(Bytes) /\ Len(h) = n /\ \A i \in 1 .. n : h[i] = s[i]
  <2>1. \A i \in 1 .. n : s[i] \in Bytes /\ 1 + i - 1 = i
    BY <1>1
  <2>2. n - 1 + 1 = n /\ (1 <= n \/ n = 0)
    OBVIOUS
  <2> QED BY <2>1, <2>2, SubSeqProperties
<1>3. /\ r \in Seq(Bytes) /\ Len(r) = Len(s) - n
      /\ \A i \in 1 .. Len(s) - n : r[i] = s[n + i]
  <2> DEFINE m == n + 1
             k == Len(s)
  <2>1. m \in Int /\ k \in Int /\ (\A i \in m .. k : s[i] \in Bytes)
    BY <1>1
  <2>2. /\ k - m + 1 = Len(s) - n /\ (m <= k => Len(s) - n = k - m + 1)
        /\ (~(m <= k) => Len(s) - n = 0)
        /\ \A i \in 1 .. Len(s) - n : m + i - 1 = n + i
    BY <1>1
  <2> HIDE DEF m, k
  <2>3. /\ SubSeq(s, m, k) \in Seq(Bytes)
        /\ Len(SubSeq(s, m, k)) = (IF m <= k THEN k - m + 1 ELSE 0)
        /\ \A i \in 1 .. k - m + 1 : SubSeq(s, m, k)[i] = s[m + i - 1]
    BY <2>1, SubSeqProperties
  <2>4. Len(SubSeq(s, m, k)) = Len(s) - n
    BY <2>1, <2>2, <2>3
  <2>5. \A i \in 1 .. Len(s) - n : SubSeq(s, m, k)[i] = s[n + i]
    BY <2>2, <2>3
  <2> QED BY <2>3, <2>4, <2>5 DEF m, k
<1>4. [i \in 1 .. n |-> s[i]] = h
  BY <1>2 DEF h
<1>5. h \o r = s
  <2>1. 1 \in 1 .. Len(s) + 1 /\ n \in 1 - 1 .. Len(s) /\ Len(s) \in n .. Len(s)
    BY <1>1
  <2> QED BY <1>1, <2>1, ConcatAdjacentSubSeq, SubSeqFull
<1>6. \A i \in 1 .. n : i \in 1 .. Len(s)
  BY <1>1
<1>7. \A i \in 1 .. Len(s) - n : n + i \in 1 .. Len(s)
  BY <1>1
<1> HIDE DEF h, r
<1>8. \A i \in 1 .. n : h[i] = s[i] /\ i \in 1 .. Len(s)
  BY <1>2, <1>6
<1>9. \A i \in 1 .. Len(s) - n : r[i] = s[n + i] /\ n + i \in 1 .. Len(s)
  BY <1>3, <1>7
<1> QED BY <1>2, <1>3, <1>4, <1>5, <1>8, <1>9, Zenon DEF h, r

\* read() takes the front of the chip's buffer in hand: the line is the same.
LEMMA ReadFetchKeeps ==
  ASSUME IInv, ReadFetch
  PROVE  IInv'
<1> DEFINE n == call.n
           h == SubSeq(chip.rx, 1, n)
           r == SubSeq(chip.rx, n + 1, Len(chip.rx))
<1>1. /\ Typed /\ app.at = "fetch" /\ app.data = <<>>
      /\ n \in Nat /\ n <= Len(chip.rx)
      /\ state # "listening" /\ chip.sr # "listen"
  <2>1. "fetch" \notin Holding
    BY DEF Holding
  <2> QED BY <2>1 DEF IInv, Typed, InHand, ReadFetch,
                      Believes, InCall
<1>2. /\ chip.rx \in Seq(Bytes) /\ Back \in Seq(Bytes)
      /\ Line = Back \o chip.rx
  BY <1>1, LineValue
<1>3. /\ h \in Seq(Bytes) /\ r \in Seq(Bytes)
      /\ Len(h) = n /\ Len(r) = Len(chip.rx) - n
      /\ \A i \in 1 .. n : h[i] = chip.rx[i] /\ i \in 1 .. Len(chip.rx)
      /\ \A i \in 1 .. Len(chip.rx) - n :
           r[i] = chip.rx[n + i] /\ n + i \in 1 .. Len(chip.rx)
      /\ [i \in 1 .. n |-> chip.rx[i]] = h
      /\ h \o r = chip.rx
  BY <1>1, <1>2, SplitValue
<1>4. /\ ReadReturns(h)
      /\ chip' = [chip EXCEPT !.rx = r] /\ call' = NoCall
      /\ UNCHANGED <<state, sending, env, co, peer>>
  <2>1. ReadReturns([i \in 1 .. n |-> chip.rx[i]])
    BY DEF ReadFetch
  <2> QED BY <1>3, <2>1 DEF ReadFetch, AfterRecv, Apart
<1> HIDE DEF h, r, n
<1>5. /\ UNCHANGED <<events, connected>>
      /\ \/ h = <<>> /\ Handled("DataAvailable")
         \/ /\ h # <<>>
            /\ app' = [app EXCEPT !.at = "write", !.data = h,
                                  !.direct = Len(h) >= WriteBuffer]
  BY <1>4 DEF ReadReturns
<1>6. /\ app' \in AppStates /\ app'.data = h
      /\ app'.at \in {"wait", "write"} \cup Handlers
      /\ app'.at = "write" \/ app'.data = <<>>
  <2>1. CASE h = <<>> /\ Handled("DataAvailable")
    BY <1>1, <2>1, HandledValue
  <2>2. CASE app' = [app EXCEPT !.at = "write", !.data = h,
                                !.direct = Len(h) >= WriteBuffer]
    <3>1. /\ app \in AppStates /\ "write" \in Places
          /\ (Len(h) >= WriteBuffer) \in BOOLEAN
      BY <1>1, HandlersHoldNothing DEF Typed, Holding
    <3> DEFINE b == Len(h) >= WriteBuffer
    <3> HIDE DEF b
    <3>2. app' = [app EXCEPT !.at = "write", !.data = h, !.direct = b] /\ b \in BOOLEAN
      BY <2>2, <3>1 DEF b
    <3> QED BY <1>3, <3>1, <3>2 DEF AppStates
  <2> QED BY <1>5, <2>1, <2>2
<1>7. ~InCall' /\ app'.at # "fetch" /\ app'.at # "send"
      /\ (app'.at \notin Holding => app'.data = <<>>)
  BY <1>6, HandlersHoldNothing DEF InCall, Holding
<1>8. chip' \in ChipStates /\ chip'.rx = r /\ chip'.sr = chip.sr /\ chip'.tx = chip.tx
  <2>1. chip \in ChipStates
    BY <1>1 DEF Typed
  <2> QED BY <1>3, <1>4, <2>1 DEF ChipStates
<1>9. Typed'
  <2>1. call' \in Calls
    BY <1>4 DEF NoCall, Calls
  <2>2. OtherTypes'
    BY <1>1, <1>4, <1>5, <1>6, <1>8, <2>1 DEF Typed, OtherTypes
  <2> QED BY <1>1, <1>4, <2>2, TypesSuffice DEF Typed
<1>10. Believes' /\ InHand'
  BY <1>1, <1>4, <1>7, <1>8 DEF IInv, Believes, InHand
<1>11. Known'
  <2>1. \A i \in 1 .. Len(chip.rx) : chip.rx[i][1] <= peer.conn
    BY DEF IInv, Known
  <2>2. \A i \in 1 .. Len(h) : h[i][1] <= peer.conn
    BY <1>3, <2>1
  <2>3. \A i \in 1 .. Len(r) : r[i][1] <= peer.conn
    BY <1>3, <2>1
  <2> QED BY <1>1, <1>4, <1>6, <1>8, <2>2, <2>3 DEF Known
<1>12. Back' = Back
  BY <1>4, <1>8 DEF Back
<1>13. Line' = Line
  <2>1. Line' = (Back \o h) \o r
    BY <1>6, <1>8, <1>12 DEF Line
  <2>2. (Back \o h) \o r = Back \o (h \o r)
    BY <1>2, <1>3, Associative
  <2> QED BY <1>2, <1>3, <2>1, <2>2
<1>14. InLine'
  BY <1>4, <1>8, <1>12, <1>13, LineStays
<1> QED BY <1>9, <1>10, <1>11, <1>14 DEF IInv

\* write() is told that nothing was taken, or begins.
LEMMA WaitsOrStartsKeeps ==
  ASSUME IInv,
         \/ WriteBusy \/ WriteStarts \/ WriteTimedOut \/ WriteFull
  PROVE  IInv'
<1>1. /\ Typed
      /\ UNCHANGED <<chip, state, env, co, peer, events, connected>>
      /\ sending' \in {sending, TRUE, FALSE}
      /\ call' \in {call, NoCall, [call EXCEPT !.had = sending]}
      /\ app.at \in {"write", "space"}
      /\ \E p \in {"canWrite", "space", "abort"} : app' = [app EXCEPT !.at = p]
      /\ app'.at \in {"space", "abort"} => state = "connected"
  <2>1. Typed
    BY DEF IInv
  <2>2. app \in AppStates
    BY <2>1 DEF Typed
  <2>3. CASE WriteBusy \/ WriteFull
    BY <2>1, <2>2, <2>3
    DEF WriteBusy, WriteFull, WriteReturns, Quiet, Apart,
        AppStates
  <2>4. CASE WriteStarts \/ WriteTimedOut
    BY <2>1, <2>2, <2>4
    DEF WriteStarts, WriteTimedOut, GoTo, Quiet, Apart,
        AppStates
  <2> QED BY <2>3, <2>4
<1>2. /\ app' \in AppStates /\ app'.data = app.data
      /\ app'.at \in {"canWrite", "space", "abort"}
  <2>1. app \in AppStates /\ {"canWrite", "space", "abort"} \subseteq Places
    BY <1>1 DEF Typed, Places, Holding
  <2> QED BY <1>1, <2>1 DEF AppStates
<1>3. call' \in Calls
  <2>1. call \in Calls /\ sending \in BOOLEAN /\ NoCall \in Calls
    BY <1>1 DEF Typed, Calls, NoCall
  <2> QED BY <1>1, <2>1 DEF Calls
<1>4. OtherTypes'
  BY <1>1, <1>2, <1>3 DEF Typed, OtherTypes
<1>5. /\ app'.at \in Holding /\ app'.at # "fetch" /\ app'.at # "send"
      /\ InCall' => state = "connected"
  BY <1>1, <1>2 DEF Holding, InCall
<1> QED BY <1>1, <1>2, <1>4, <1>5, AppKeeps

\* write() drops the bytes in hand: it is refused, or closes the socket.
LEMMA WriteFailsKeeps ==
  ASSUME IInv, WriteRefused \/ WriteAborts
  PROVE  IInv'
<1> DEFINE none == <<>>
<1>1. /\ Typed /\ none \in Seq(Bytes) /\ Len(none) = 0 /\ 1 .. 0 = {}
      /\ UNCHANGED <<events, connected, state, sending, call, env, co, peer>>
      /\ WriteFails
  BY EmptySeq DEF IInv, WriteRefused, WriteAborts, WriteFails,
                  Quiet, Apart
<1> HIDE DEF none
<1>2. /\ app' \in AppStates /\ app'.data = none /\ app'.at \in {"quit", "release"}
  <2>1. /\ app \in AppStates /\ {"quit", "release"} \subseteq Places
    BY <1>1, HandlersHoldNothing DEF Typed
  <2> DEFINE p == IF app.direct THEN "quit" ELSE "release"
  <2>2. p \in {"quit", "release"}
    OBVIOUS
  <2>3. app' = [app EXCEPT !.at = p, !.data = none]
    BY <1>1 DEF WriteFails, none
  <2> HIDE DEF p
  <2> QED BY <1>1, <2>1, <2>2, <2>3 DEF AppStates
<1>3. ~InCall' /\ app'.at # "fetch" /\ app'.at # "send" /\ app'.at \notin Holding
  BY <1>2, HandlersHoldNothing DEF InCall
<1>4. CASE WriteRefused
  <2>1. chip' = chip /\ (chip.sr \in Open => state = "listening")
    BY <1>4 DEF WriteRefused, Quiet, IInv, Believes
  <2>2. OtherTypes'
    BY <1>1, <1>2, <2>1 DEF Typed, OtherTypes, Calls
  <2> QED BY <1>1, <1>2, <1>3, <2>1, <2>2, AppKeeps DEF none
<1>5. CASE WriteAborts
  <2>1. chip \in ChipStates /\ chip' = [chip EXCEPT !.sr = "closed"]
    BY <1>1, <1>5 DEF WriteAborts, Typed
  <2>2. /\ chip' \in ChipStates /\ chip'.sr = "closed"
        /\ chip'.rx = chip.rx /\ chip'.tx = chip.tx
        /\ chip'.sr \notin Open /\ chip'.sr # "listen"
    BY <2>1 DEF ChipStates, Open
  <2>3. Typed'
    <3>1. OtherTypes'
      BY <1>1, <1>2, <2>2 DEF Typed, OtherTypes, Calls
    <3> QED BY <1>1, <3>1, TypesSuffice DEF Typed
  <2>4. Believes' /\ InHand'
    BY <1>2, <1>3, <2>2 DEF Believes, InHand, none
  <2>5. Known'
    BY <1>1, <1>2, <2>2 DEF IInv, Known
  <2>6. Back' = Back
    BY <1>1, <2>2 DEF Back
  <2>7. InLine'
    BY <1>1, <2>2, <2>6, LineStays
  <2> QED BY <2>3, <2>4, <2>5, <2>7 DEF IInv
<1> QED BY <1>4, <1>5

\* How much there is room for.
LEMMA WriteFitsKeeps ==
  ASSUME IInv, WriteFits
  PROVE  IInv'
<1> DEFINE n == Lesser(FreeSpace, Len(app.data))
<1>1. /\ Typed /\ app.at = "space"
      /\ chip \in ChipStates /\ app \in AppStates /\ call \in Calls
      /\ UNCHANGED <<events, connected, state, sending, env, co, peer>>
      /\ app' = [app EXCEPT !.at = "send"] /\ call' = [call EXCEPT !.n = n]
      /\ chip' \in {chip, [chip EXCEPT !.ir = @ \ {"SENDOK"}]}
  BY DEF IInv, Typed, WriteFits, GoTo, Apart, Calls
<1>2. n \in Nat /\ n <= Len(app.data)
  <2>1. TxSize \in Nat /\ Len(chip.tx) \in Nat /\ chip.held \in Nat /\ Len(app.data) \in Nat
    BY <1>1, LineValue, LenProperties, W5500Assumption DEF ChipStates
  <2>2. FreeSpace \in Int /\ FreeSpace > 0
    BY <2>1 DEF FreeSpace, WriteFits
  <2> QED BY <2>1, <2>2 DEF Lesser
<1> HIDE DEF n
<1>3. app' \in AppStates /\ app'.data = app.data /\ app'.at = "send"
  BY <1>1, HandlersHoldNothing DEF AppStates, Holding
<1>4. call' \in Calls /\ call'.n = n
  BY <1>1, <1>2 DEF Calls
<1>5. /\ chip' \in ChipStates /\ chip'.sr = chip.sr
      /\ chip'.rx = chip.rx /\ chip'.tx = chip.tx
  BY <1>1 DEF ChipStates
<1>6. OtherTypes'
  BY <1>1, <1>3, <1>4, <1>5 DEF Typed, OtherTypes
<1>7. app'.at \in Holding /\ app'.at # "fetch" /\ InCall
  BY <1>1, <1>3 DEF Holding, InCall
<1> QED BY <1>1, <1>2, <1>3, <1>4, <1>5, <1>6, <1>7, AppKeeps

\* The bytes move from the hand to the chip, or a connection that is not open
\* any more loses them.
LEMMA WriteSendsKeeps ==
  ASSUME IInv, WriteSends
  PROVE  IInv'
<1> DEFINE n == call.n
           h == SubSeq(app.data, 1, n)
           r == SubSeq(app.data, n + 1, Len(app.data))
<1>1. /\ Typed /\ app.at = "send" /\ n \in Nat /\ n <= Len(app.data)
      /\ WriteReturns(n) /\ call' = NoCall /\ sending' = TRUE
      /\ UNCHANGED <<events, connected, state, env, co, peer>>
      /\ chip \in ChipStates /\ app \in AppStates
  BY DEF IInv, Typed, InHand, WriteSends, WriteReturns,
         Apart
<1>2. /\ app.data \in Seq(Bytes) /\ Back \in Seq(Bytes)
      /\ peer.got \in Seq(Bytes) /\ chip.tx \in Seq(Bytes)
      /\ Len(app.data) \in Nat
  BY <1>1, LineValue, LenProperties
<1>3. /\ h \in Seq(Bytes) /\ r \in Seq(Bytes)
      /\ Len(h) = n /\ Len(r) = Len(app.data) - n
      /\ \A i \in 1 .. Len(app.data) - n :
           r[i] = app.data[n + i] /\ n + i \in 1 .. Len(app.data)
      /\ h \o r = app.data
  BY <1>1, <1>2, SplitValue
<1>4. chip' = IF chip.sr \in Open THEN [chip EXCEPT !.tx = @ \o h] ELSE chip
  BY DEF WriteSends, Open
<1>5. /\ app' \in AppStates /\ app'.data = r
      /\ app'.at \in {"canWrite", "write", "release"}
      /\ app'.at = "release" => app'.data = <<>>
  <2>1. {"canWrite", "write", "release"} \subseteq Places
    BY HandlersHoldNothing DEF Holding
  <2>2. CASE n = 0
    <3>1. r = app.data
      BY <1>2, <2>2, SubSeqFull
    <3> HIDE DEF r, h, n
    <3>2. app' = [app EXCEPT !.at = "canWrite"]
      BY <1>1, <2>2 DEF WriteReturns
    <3> QED BY <1>1, <2>1, <3>1, <3>2 DEF AppStates
  <2>3. CASE n # 0
    <3>1. app' = [app EXCEPT !.data = r,
                             !.at = IF n = Len(app.data) THEN "release" ELSE "write"]
      BY <1>1, <2>3 DEF WriteReturns
    <3> HIDE DEF r, h, n
    <3>2. CASE n = Len(app.data)
      <4>1. r = <<>>
        BY <1>2, <1>3, <3>2, EmptySeq
      <4>2. app' = [app EXCEPT !.data = r, !.at = "release"]
        BY <3>1, <3>2
      <4>3. app' \in AppStates /\ app'.data = r /\ app'.at = "release"
        BY <1>1, <1>3, <2>1, <4>2 DEF AppStates
      <4> QED BY <4>1, <4>3
    <3>3. CASE n # Len(app.data)
      <4>1. app' = [app EXCEPT !.data = r, !.at = "write"]
        BY <3>1, <3>3
      <4> QED BY <1>1, <1>3, <2>1, <4>1 DEF AppStates
    <3> QED BY <3>2, <3>3
  <2> QED BY <2>2, <2>3
<1> HIDE DEF h, r, n
<1>6. /\ chip' \in ChipStates /\ chip'.sr = chip.sr /\ chip'.rx = chip.rx
      /\ chip.sr \in Open => chip'.tx = chip.tx \o h
      /\ chip.sr \notin Open => chip'.tx = chip.tx
  <2>1. chip.tx \o h \in Seq(Bytes)
    BY <1>2, <1>3, ConcatProperties
  <2> DEFINE t == chip.tx \o h
  <2>2. chip' = IF chip.sr \in Open THEN [chip EXCEPT !.tx = t] ELSE chip
    BY <1>4
  <2> HIDE DEF t
  <2>3. t \in Seq(Bytes)
    BY <2>1 DEF t
  <2>4. /\ chip' \in ChipStates /\ chip'.sr = chip.sr /\ chip'.rx = chip.rx
        /\ chip.sr \in Open => chip'.tx = t
        /\ chip.sr \notin Open => chip'.tx = chip.tx
    BY <1>1, <2>2, <2>3 DEF ChipStates
  <2> QED BY <2>4 DEF t
<1>7. ~InCall' /\ app'.at # "fetch" /\ app'.at # "send"
      /\ (app'.at \notin Holding => app'.data = <<>>)
  BY <1>5 DEF InCall, Holding
<1>8. Typed'
  <2>1. call' \in Calls
    BY <1>1 DEF NoCall, Calls
  <2>2. OtherTypes'
    BY <1>1, <1>5, <1>6, <2>1 DEF Typed, OtherTypes
  <2> QED BY <1>1, <2>2, TypesSuffice DEF Typed
<1>9. Believes' /\ InHand'
  BY <1>1, <1>6, <1>7 DEF IInv, Believes, InHand, Open
<1>10. Known'
  <2>1. Known
    BY DEF IInv
  <2>2. \A i \in 1 .. Len(r) : r[i][1] <= peer.conn
    BY <1>3, <2>1 DEF Known
  <2>3. state = "listening" /\ chip.sr # "listen" =>
          \A i \in 1 .. Len(r) : r[i][1] < peer.conn
    BY <1>3, <2>1 DEF Known
  <2> QED BY <1>1, <1>5, <1>6, <2>1, <2>2, <2>3 DEF Known
<1>11. InLine'
  <2>1. CASE chip.sr \notin Open
    <3>1. Back' = Back
      BY <1>1, <1>6, <2>1 DEF Back
    <3> QED BY <1>1, <1>6, <2>1, <3>1, LineStays
  <2>2. CASE chip.sr \in Open
    <3>1. Back' = Back \o h
      <4>1. Back' = peer.got \o (chip.tx \o h)
        BY <1>1, <1>6, <2>2 DEF Back
      <4> QED BY <1>2, <1>3, <4>1, Associative DEF Back
    <3>2. (Back \o h) \o r = Back \o app.data
      <4>1. (Back \o h) \o r = Back \o (h \o r)
        BY <1>2, <1>3, Associative
      <4> QED BY <1>3, <4>1
    <3>3. Line' = Line
      BY <1>5, <1>6, <3>1, <3>2 DEF Line
    <3>4. Follows(Line, peer.sent)
      BY <2>2 DEF IInv, InLine
    <3>5. Follows(Line, peer.sent)'
      BY <1>1, <3>3, <3>4 DEF Follows, Byte
    <3> QED BY <1>6, <2>2, <3>5 DEF InLine, Open
  <2> QED BY <2>1, <2>2
<1> QED BY <1>8, <1>9, <1>10, <1>11 DEF IInv
-----------------------------------------------------------------------------
(***************************************************************************)
(* The client and the chip.                                                *)
(***************************************************************************)
\* A new client: whatever is still in hand is of one before it, and there is
\* none if the client is polite.
LEMMA PeerConnectsKeeps ==
  ASSUME IInv, PeerConnects
  PROVE  IInv'
<1> DEFINE none == <<>>
<1>1. /\ Typed /\ InHand /\ Known
      /\ none \in Seq(Bytes) /\ Len(none) = 0 /\ 1 .. 0 = {}
      /\ chip.sr = "listen" /\ state = "listening" /\ chip.rx = none /\ chip.tx = none
      /\ ~InCall
      /\ chip' = [chip EXCEPT !.sr = "established"]
      /\ peer' = [conn |-> peer.conn + 1, sent |-> 0, got |-> none]
      /\ UNCHANGED <<events, connected, app, env, state, sending, co, call>>
  BY EmptySeq DEF IInv, Believes, PeerConnects, runnerVars
<1>2. env.polite => app.data = none
  BY <1>1, HandlersHoldNothing DEF PeerConnects, Settled, InHand
<1> HIDE DEF none
<1>3. /\ chip \in ChipStates /\ peer \in Peers /\ peer.conn \in Nat
      /\ app.data \in Seq(Bytes)
  BY <1>1, LineValue DEF Typed
<1>4. /\ chip' \in ChipStates /\ chip'.sr = "established"
      /\ chip'.rx = none /\ chip'.tx = none
  BY <1>1, <1>3 DEF ChipStates, Open
<1>5. /\ peer' \in Peers /\ peer'.got = none /\ peer'.sent = 0
      /\ peer'.conn = peer.conn + 1
  BY <1>1, <1>3 DEF Peers
<1>6. Typed'
  <2>1. OtherTypes'
    BY <1>1, <1>4 DEF Typed, OtherTypes, Calls
  <2> QED BY <1>1, <1>5, <2>1, TypesSuffice
<1>7. Believes'
  BY <1>1, <1>4 DEF Believes, InCall, Open
<1>8. InHand'
  BY <1>1, <1>4 DEF InHand, InCall
<1>9. \A i \in 1 .. Len(app.data) :
        /\ app.data[i][1] <= peer.conn + 1 /\ app.data[i][1] < peer.conn + 1
        /\ app.data[i][1] # peer.conn + 1
  <2> SUFFICES ASSUME NEW i \in 1 .. Len(app.data)
               PROVE  /\ app.data[i][1] <= peer.conn + 1
                      /\ app.data[i][1] < peer.conn + 1
                      /\ app.data[i][1] # peer.conn + 1
    OBVIOUS
  <2>1. app.data[i] \in Bytes
    BY <1>3, ElementOfSeq
  <2>2. app.data[i][1] \in Nat /\ app.data[i][1] <= peer.conn
    BY <1>1, <2>1 DEF Bytes, Known
  <2> QED BY <1>3, <2>2
<1>10. Known'
  <2>1. \A i \in 1 .. Len(none) : none[i][1] <= peer.conn + 1
    BY <1>1
  <2> QED BY <1>1, <1>4, <1>5, <1>9, <2>1 DEF Known
<1>11. InLine'
  <2>1. Line' = app.data
    <3>1. Line' = ((none \o none) \o app.data) \o none
      BY <1>1, <1>4, <1>5 DEF Line, Back
    <3>2. none \o none = none /\ none \o app.data = app.data /\ app.data \o none = app.data
      BY <1>1, <1>3, ConcatEmptySeq DEF none
    <3> QED BY <3>1, <3>2
  <2>2. /\ Len(app.data) \in Nat /\ Len(app.data) - 0 = Len(app.data)
        /\ Len(app.data) >= 0 /\ Len(app.data) + 1 .. Len(app.data) = {}
    BY <1>3, LenProperties
  <2>3. env'.polite => Len(app.data) = 0
    BY <1>1, <1>2
  <2>4. Follows(Line, peer.sent)'
    BY <1>5, <1>9, <2>1, <2>2, <2>3 DEF Follows
  <2> QED BY <1>4, <2>4 DEF InLine, Open
<1> QED BY <1>6, <1>7, <1>8, <1>10, <1>11 DEF IInv

\* The client's next byte is the next of the line.
LEMMA PeerSendsKeeps ==
  ASSUME IInv, PeerSends
  PROVE  IInv'
<1> DEFINE b == Byte(peer.sent + 1)
           r == Append(chip.rx, b)
<1>1. /\ Typed /\ Known /\ chip.sr = "established"
      /\ chip' = [chip EXCEPT !.rx = r, !.ir = @ \cup {"RECV"}]
      /\ peer' = [peer EXCEPT !.sent = @ + 1]
      /\ UNCHANGED <<events, connected, app, env, state, sending, co, call>>
  BY DEF IInv, PeerSends, runnerVars
<1>2. /\ chip \in ChipStates /\ peer \in Peers
      /\ peer.conn \in Nat /\ peer.sent \in Nat
      /\ chip.rx \in Seq(Bytes) /\ app.data \in Seq(Bytes)
      /\ Back \in Seq(Bytes)
  BY <1>1, LineValue DEF Typed
<1>3. b \in Bytes /\ b[1] = peer.conn
  BY <1>2 DEF Byte, Bytes
<1> HIDE DEF b
<1>4. /\ r \in Seq(Bytes) /\ Len(r) = Len(chip.rx) + 1
      /\ \A i \in 1 .. Len(chip.rx) : r[i] = chip.rx[i]
      /\ r[Len(chip.rx) + 1] = b
      /\ r = chip.rx \o <<b>> /\ <<b>> \in Seq(Bytes) /\ Len(chip.rx) \in Nat
  BY <1>2, <1>3, AppendProperties, AppendIsConcat, LenProperties
<1> HIDE DEF r
<1>5. /\ chip' \in ChipStates /\ chip'.sr = "established"
      /\ chip'.rx = r /\ chip'.tx = chip.tx
  BY <1>1, <1>2, <1>4 DEF ChipStates, Bits
<1>6. /\ peer' \in Peers /\ peer'.got = peer.got /\ peer'.conn = peer.conn
      /\ peer'.sent = peer.sent + 1
  BY <1>1, <1>2 DEF Peers
<1>7. Typed'
  <2>1. OtherTypes'
    BY <1>1, <1>5 DEF Typed, OtherTypes, Calls
  <2> QED BY <1>1, <1>6, <2>1, TypesSuffice
<1>8. Believes'
  BY <1>1, <1>5 DEF IInv, Believes, InCall, Open
<1>9. InHand'
  <2>1. InHand /\ call.n \in Nat
    BY <1>1 DEF IInv, Typed
  <2>2. app.at = "fetch" => call.n <= Len(r)
    BY <1>4, <2>1 DEF InHand
  <2> QED BY <1>1, <1>5, <2>1, <2>2 DEF InHand
<1>10. Known'
  <2>1. \A i \in 1 .. Len(r) : r[i][1] <= peer.conn
    <3> SUFFICES ASSUME NEW i \in 1 .. Len(r) PROVE r[i][1] <= peer.conn
      OBVIOUS
    <3>1. CASE i \in 1 .. Len(chip.rx)
      BY <1>1, <1>4, <3>1 DEF Known
    <3>2. CASE i = Len(chip.rx) + 1
      BY <1>2, <1>3, <1>4, <3>2
    <3> QED BY <1>4, <3>1, <3>2
  <2> QED BY <1>1, <1>5, <1>6, <2>1 DEF Known
<1>11. InLine'
  <2>1. Back \o app.data \in Seq(Bytes) /\ Line \in Seq(Bytes)
    BY <1>2, ConcatProperties DEF Line
  <2>2. Line' = Append(Line, b)
    <3> DEFINE front == Back \o app.data
               last == <<b>>
    <3>1. Line' = front \o (chip.rx \o last)
      BY <1>1, <1>4, <1>5, <1>6 DEF Line, Back
    <3>2. Line = front \o chip.rx
      BY DEF Line
    <3>3. front \in Seq(Bytes) /\ last \in Seq(Bytes)
      BY <1>4, <2>1
    <3>4. Append(Line, b) = Line \o last
      BY <1>3, <2>1, AppendIsConcat
    <3> HIDE DEF front, last
    <3>5. (front \o chip.rx) \o last = front \o (chip.rx \o last)
      <4>1. chip.rx \in Seq(Bytes)
        BY <1>2
      <4> QED BY <3>3, <4>1, Associative, Zenon
    <3> QED BY <3>1, <3>2, <3>4, <3>5
  <2>3. Follows(Line, peer.sent)
    BY <1>1 DEF IInv, InLine, Open
  <2>4. Follows(Append(Line, b), peer.sent + 1)
    BY <1>2, <2>1, <2>3, OneMoreFollows DEF b
  <2>5. Follows(Line, peer.sent)'
    BY <1>1, <1>6, <2>2, <2>4 DEF Follows, Byte
  <2> QED BY <1>5, <2>5 DEF InLine, Open
<1> QED BY <1>7, <1>8, <1>9, <1>10, <1>11 DEF IInv

\* The connection is half open, closed, or has room again.
LEMMA LeavesKeep ==
  ASSUME IInv,
         PeerLeaves \/ ChipFrees \/ ChipCloses
  PROVE  IInv'
<1>1. /\ Typed /\ chip \in ChipStates
      /\ UNCHANGED <<events, connected, app, env, state, sending, co, call, peer>>
  BY DEF IInv, Typed, runnerVars,
         PeerLeaves, ChipFrees, ChipCloses
<1>2. /\ chip' \in ChipStates /\ chip'.rx = chip.rx /\ chip'.tx = chip.tx
      /\ chip'.sr \in Open => chip.sr \in Open
      /\ chip'.sr = "listen" <=> chip.sr = "listen"
  <2>1. CASE PeerLeaves
    <3>1. PICK sr \in {"closeWait", "closed"} : chip' = [chip EXCEPT !.sr = sr]
      BY <2>1 DEF PeerLeaves
    <3> QED BY <1>1, <2>1, <3>1 DEF PeerLeaves, ChipStates, Open
  <2>2. CASE ChipFrees
    BY <1>1, <2>2 DEF ChipFrees, ChipStates
  <2>3. CASE ChipCloses
    BY <1>1, <2>3 DEF ChipCloses, ChipStates, Open
  <2> QED BY <2>1, <2>2, <2>3
<1>3. OtherTypes'
  BY <1>1, <1>2 DEF Typed, OtherTypes, Calls
<1>4. Believes'
  BY <1>1, <1>2 DEF IInv, Believes, InCall
<1> QED BY <1>1, <1>2, <1>3, <1>4, OthersKeep

\* What is on its way when the connection times out never comes.
LEMMA PeerVanishesKeeps ==
  ASSUME IInv, PeerVanishes
  PROVE  IInv'
<1> DEFINE none == <<>>
<1>1. /\ Typed /\ chip \in ChipStates /\ chip.sr # "listen"
      /\ none \in Seq(Bytes) /\ peer.got \in Seq(Bytes)
      /\ chip' = [chip EXCEPT !.sr = "closed", !.tx = none, !.ir = @ \cup {"TIMEOUT"}]
      /\ UNCHANGED <<events, connected, app, env, state, sending, co, call, peer>>
  BY LineValue, EmptySeq DEF IInv, Typed, runnerVars, PeerVanishes
<1>2. peer.got \o none = peer.got
  BY <1>1, ConcatEmptySeq
<1> HIDE DEF none
<1>3. /\ chip' \in ChipStates /\ chip'.sr = "closed"
      /\ chip'.rx = chip.rx /\ chip'.tx = none
      /\ chip'.sr \notin Open
  BY <1>1 DEF ChipStates, Bits, Open
<1>4. Typed'
  <2>1. OtherTypes'
    BY <1>1, <1>3 DEF Typed, OtherTypes, Calls
  <2> QED BY <1>1, <2>1, TypesSuffice DEF Typed
<1>5. Believes' /\ InHand' /\ Known'
  BY <1>1, <1>3
  DEF IInv, Believes, InHand, Known, InCall
<1>6. Back' = peer.got
  BY <1>1, <1>2, <1>3 DEF Back
<1>7. InLine'
  BY <1>1, <1>3, <1>6, LineEnds
<1> QED BY <1>4, <1>5, <1>7 DEF IInv

\* Bytes go from the chip to the client.
LEMMA ChipSendsKeeps ==
  ASSUME IInv, ChipSends
  PROVE  IInv'
<1> DEFINE none == <<>>
           g == peer.got \o chip.tx
           k == IF env.lags THEN Len(chip.tx) ELSE 0
<1>1. /\ Typed /\ chip \in ChipStates /\ peer \in Peers
      /\ chip.sr # "listen" /\ none \in Seq(Bytes)
      /\ peer' = [peer EXCEPT !.got = g]
      /\ chip' = [chip EXCEPT !.tx = none, !.ir = @ \cup {"SENDOK"}, !.held = k]
      /\ UNCHANGED <<events, connected, app, env, state, sending, co, call>>
  BY EmptySeq DEF IInv, Typed, runnerVars, ChipSends
<1>2. peer.got \in Seq(Bytes) /\ chip.tx \in Seq(Bytes) /\ Back = g
  BY <1>1, LineValue DEF Back
<1>3. g \in Seq(Bytes) /\ g \o none = g /\ k \in Nat
  <2>1. g \in Seq(Bytes)
    BY <1>2, ConcatProperties
  <2> QED BY <1>2, <2>1, ConcatEmptySeq, LenProperties
<1> HIDE DEF none, g, k
<1>4. /\ chip' \in ChipStates /\ chip'.sr = chip.sr
      /\ chip'.rx = chip.rx /\ chip'.tx = none
  BY <1>1, <1>3 DEF ChipStates, Bits
<1>5. /\ peer' \in Peers /\ peer'.got = g
      /\ peer'.conn = peer.conn /\ peer'.sent = peer.sent
  BY <1>1, <1>3 DEF Peers
<1>6. Typed'
  <2>1. OtherTypes'
    BY <1>1, <1>4 DEF Typed, OtherTypes, Calls
  <2> QED BY <1>1, <1>5, <2>1, TypesSuffice DEF Typed
<1>7. Believes' /\ InHand' /\ Known'
  BY <1>1, <1>4, <1>5
  DEF IInv, Believes, InHand, Known, InCall
<1>8. Back' = Back
  BY <1>2, <1>3, <1>4, <1>5 DEF Back
<1>9. Line' = Line
  BY <1>1, <1>4, <1>8 DEF Line
<1>10. InLine'
  BY <1>1, <1>4, <1>5, <1>8, <1>9, LineStays
<1> QED BY <1>6, <1>7, <1>10 DEF IInv
-----------------------------------------------------------------------------
(***************************************************************************)
(* The coordinator.                                                        *)
(***************************************************************************)
\* It wakes outside of a call; it clears and reports what it read.
LEMMA InterruptsKeep ==
  ASSUME IInv,
         CoWakes \/ CoClears \/ CoDispatches
  PROVE  IInv'
<1>1. /\ Typed /\ chip \in ChipStates /\ co \in CoStates
      /\ UNCHANGED <<connected, app, env, state, call, peer>>
  BY DEF IInv, Typed, runnerVars,
         CoWakes, CoClears, CoDispatches
<1>2. /\ chip' \in ChipStates /\ chip'.sr = chip.sr
      /\ chip'.rx = chip.rx /\ chip'.tx = chip.tx
  <2>1. chip' = chip \/ chip' = [chip EXCEPT !.ir = @ \ co.ir]
    BY DEF CoWakes, CoClears, CoDispatches
  <2> QED BY <1>1, <2>1 DEF ChipStates
<1>3. co' \in CoStates
  <2>1. chip.ir \in SUBSET Bits
    BY <1>1 DEF ChipStates
  <2>2. CASE CoWakes
    <3>1. \E p \in {"poll", "clear"} : co' = [at |-> p, ir |-> chip.ir]
      BY <2>2 DEF CoWakes
    <3> QED BY <2>1, <3>1 DEF CoStates
  <2>3. CASE CoClears
    BY <1>1, <2>3 DEF CoClears, CoStates
  <2>4. CASE CoDispatches
    BY <1>1, <2>4 DEF CoDispatches, CoStates
  <2> QED BY <2>2, <2>3, <2>4
<1>4. events' \in SUBSET Flags /\ sending' \in BOOLEAN
  <2>1. events \in SUBSET Flags /\ sending \in BOOLEAN
    BY <1>1 DEF Typed
  <2>2. CASE UNCHANGED <<events, sending>>
    BY <2>1, <2>2
  <2>3. CASE CoDispatches
    <3>1. co.ir \in SUBSET Bits
      BY <1>1 DEF CoStates
    <3>2. \A bit \in Bits : EventOf(bit) \in Flags
      BY DEF Bits, EventOf, Flags, Handlers
    <3>3. events' = events \cup {EventOf(bit) : bit \in co.ir}
      BY <2>3 DEF CoDispatches, Post
    <3>4. sending' \in BOOLEAN
      BY <2>3 DEF CoDispatches
    <3> QED BY <2>1, <3>1, <3>2, <3>3, <3>4
  <2> QED BY <2>2, <2>3 DEF CoWakes, CoClears, runnerVars
<1>5. OtherTypes'
  BY <1>1, <1>2, <1>3, <1>4 DEF Typed, OtherTypes, Calls
<1>6. Believes'
  <2>1. InCall => state = "connected"
    BY DEF IInv, Believes, CoWakes, CoClears, CoDispatches
  <2> QED BY <1>1, <1>2, <2>1 DEF IInv, Believes, InCall
<1> QED BY <1>1, <1>2, <1>5, <1>6, OthersKeep

\* poll(): the driver hears of the connection, of its end, and listens again.
LEMMA PollKeeps ==
  ASSUME IInv, Poll
  PROVE  IInv'
<1>1. /\ Typed /\ chip \in ChipStates /\ co \in CoStates
      /\ InCall => state = "connected"
      /\ co' = [co EXCEPT !.at = "asleep"]
      /\ UNCHANGED <<connected, app, env, call, peer>>
  BY DEF IInv, Believes, Typed, Poll
<1>2. co' \in CoStates /\ co'.at = "asleep"
  BY <1>1 DEF CoStates
<1>3. CASE /\ state = "closing" /\ Relisten /\ UNCHANGED events
  <2>1. Listen
    BY <1>3 DEF Relisten
  <2>2. OtherTypes'
    BY <1>1, <1>2, <1>3, <2>1, ListenValue DEF Typed, OtherTypes, Calls
  <2>3. ~InCall' /\ (app.at \notin Holding => app.data = <<>>)
    BY <1>1, <1>3 DEF InCall, IInv, InHand
  <2> QED BY <1>1, <2>1, <2>2, <2>3, ListenKeeps
<1>4. ASSUME /\ sending' = sending
             /\ \/ /\ state = "listening" /\ chip.sr = "established"
                   /\ state' = "connected" /\ Post({"Connected"})
                   /\ chip' = chip
                \/ /\ state = "listening" /\ chip.sr = "closed"
                   /\ state' = "error" /\ Post({"Error"})
                   /\ chip' = chip
                \/ /\ state = "connected" /\ chip.sr \in {"closeWait", "closed"}
                   /\ state' = "closing" /\ Post({"Disconnected"})
                   /\ chip' = [chip EXCEPT !.sr = Disconnect(@)]
                \/ UNCHANGED <<events, chip, state>>
      PROVE  IInv'
  <2>1. events' \in SUBSET Flags
    BY <1>1, <1>4 DEF Typed, Post, Flags, Handlers
  <2>2. /\ chip' \in ChipStates /\ chip'.rx = chip.rx /\ chip'.tx = chip.tx
        /\ chip'.sr \in Open => chip'.sr = chip.sr
        /\ chip'.sr = "listen" <=> chip.sr = "listen"
        /\ state' = "closing" /\ state # "closing" => chip'.sr \in {"closing", "closed"}
    BY <1>1, <1>4 DEF ChipStates, Disconnect, Open
  <2>3. /\ state' \in {"none", "listening", "connected", "closing", "error"}
        /\ state' = "listening" => state = "listening"
        /\ state = "listening" /\ chip.sr = "listen" => state' = "listening"
        /\ chip'.sr \in Open => state' \in {"listening", "connected"}
        /\ state = "connected" => state' \in {"connected", "closing"}
    BY <1>1, <1>4, <2>2 DEF Typed, IInv, Believes, Open
  <2>4. OtherTypes'
    BY <1>1, <1>2, <1>4, <2>1, <2>2, <2>3 DEF Typed, OtherTypes, Calls
  <2>5. Believes'
    BY <1>1, <1>2, <2>2, <2>3 DEF IInv, Believes, InCall
  <2> QED BY <1>1, <2>2, <2>3, <2>4, <2>5, OthersKeep
<1> QED BY <1>3, <1>4 DEF Poll
-----------------------------------------------------------------------------
LEMMA Starts ==
  ASSUME Init
  PROVE  IInv
<1> DEFINE none == <<>>
<1>1. /\ none \in Seq(Bytes) /\ Len(none) = 0 /\ 1 .. 0 = {} /\ none \o none = none
  BY EmptySeq, ConcatEmptySeq
<1>2. /\ events = {"Up"} /\ connected = FALSE
      /\ app = [at |-> "wait", batch |-> {}, data |-> none, direct |-> FALSE]
      /\ chip = [sr |-> "closed", ir |-> {}, rx |-> none, tx |-> none, held |-> 0]
      /\ peer = [conn |-> 0, sent |-> 0, got |-> none]
      /\ co = [at |-> "asleep", ir |-> {}] /\ call = [had |-> FALSE, n |-> 0]
      /\ state = "none" /\ sending = FALSE
      /\ env \in [polite : BOOLEAN, lags : BOOLEAN]
  BY W5500Assumption
  DEF Init, RunnerInit, SocketInit, Waiting, NoCall
<1> HIDE DEF none
<1>3. Typed
  <2>1. app \in AppStates /\ chip \in ChipStates
    BY <1>1, <1>2 DEF AppStates, Places, ChipStates
  <2>2. peer \in Peers /\ co \in CoStates
    BY <1>1, <1>2 DEF Peers, CoStates
  <2> QED BY <1>2, <2>1, <2>2 DEF Typed, Flags, Handlers
<1>4. Believes /\ InHand
  BY <1>2 DEF Believes, InHand, InCall, Open, Holding, none
<1>5. Known
  BY <1>1, <1>2 DEF Known
<1>6. InLine
  <2>1. Back = none /\ chip.sr \notin Open
    BY <1>1, <1>2 DEF Back, Open
  <2>2. /\ Len(none) - 0 = 0 /\ 1 .. 0 = {} /\ 0 + 1 .. Len(none) = {}
        /\ 0 \in 0 .. peer.sent /\ 0 >= 0
    BY <1>1, <1>2
  <2>3. Follows(Back, 0)
    BY <2>1, <2>2 DEF Follows
  <2> QED BY <2>1, <2>2, <2>3 DEF InLine
<1> QED BY <1>3, <1>4, <1>5, <1>6 DEF IInv

LEMMA StepKeeps ==
  ASSUME IInv, [Next]_vars
  PROVE  IInv'
<1>1. CASE AppNext
  BY <1>1, RunnerKeeps, LinkHandlersKeep, ReadSizeKeeps, ReadFetchKeeps, WaitsOrStartsKeeps,
     WriteFailsKeeps, WriteFitsKeeps, WriteSendsKeeps
  DEF AppNext
<1>2. CASE CoNext
  BY <1>2, InterruptsKeep, PollKeeps DEF CoNext
<1>3. CASE ChipNext \/ PeerNext
  BY <1>3, ChipSendsKeeps, LeavesKeep, PeerConnectsKeeps, PeerSendsKeeps, PeerVanishesKeeps
  DEF ChipNext, PeerNext
<1>4. CASE UNCHANGED vars
  <2>1. UNCHANGED <<events, connected, app, env, chip, state, sending, co, call, peer>>
    BY <1>4 DEF vars, runnerVars, socketVars
  <2>2. Typed' /\ Believes'
    BY <2>1 DEF IInv, Typed, Believes, InCall
  <2>3. InHand' /\ Known'
    BY <2>1 DEF IInv, InHand, Known
  <2>4. Back' = Back /\ Line' = Line
    BY <2>1 DEF Back, Line
  <2>5. InLine'
    BY <2>1, <2>4, LineStays
  <2> QED BY <2>2, <2>3, <2>5 DEF IInv
<1> QED BY <1>1, <1>2, <1>3, <1>4 DEF Next

(***************************************************************************)
(* The bytes of a client, in the chip, in hand and back, are a line with   *)
(* no byte missing while its connection is open; what the driver believes  *)
(* agrees with what the chip may have done since.                          *)
(***************************************************************************)
THEOREM Invariance == Spec => []IInv
<1>1. Init => IInv
  BY Starts
<1>2. IInv /\ [Next]_vars => IInv'
  BY StepKeeps
<1> QED BY <1>1, <1>2, PTL DEF Spec

(***************************************************************************)
(* A client of the server over the W5500 gets its own bytes back in order, *)
(* each once, across short writes, a full buffer and lost connections;     *)
(* only one that connects while the server still writes may get bytes of   *)
(* an earlier client first (socket_w5500.cpp:297).                         *)
(***************************************************************************)
THEOREM EchoKeepsOrder == Spec => []EchoInOrder
<1>1. ASSUME IInv PROVE EchoInOrder
  <2>1. /\ peer.got \in Seq(Bytes) /\ chip.tx \in Seq(Bytes)
        /\ app.data \o chip.rx \in Seq(Bytes) /\ Back \in Seq(Bytes)
        /\ peer.sent \in Nat
        /\ Line = Back \o (app.data \o chip.rx)
    BY <1>1, LineValue, ConcatProperties DEF IInv
  <2>2. \E n \in 0 .. peer.sent : Follows(Back, n)
    <3>1. CASE chip.sr \in Open
      <4>1. Follows(Back \o (app.data \o chip.rx), peer.sent)
        BY <1>1, <2>1, <3>1 DEF IInv, InLine
      <4> QED BY <2>1, <4>1, PrefixFollows
    <3>2. CASE chip.sr \notin Open
      BY <1>1, <3>2 DEF IInv, InLine
    <3> QED BY <3>1, <3>2
  <2>3. PICK n \in 0 .. peer.sent : Follows(Back, n)
    BY <2>2
  <2>4. n \in Nat /\ Follows(peer.got \o chip.tx, n)
    BY <2>1, <2>3 DEF Back
  <2>5. PICK m \in 0 .. n : Follows(peer.got, m)
    BY <2>1, <2>4, PrefixFollows
  <2>6. m \in 0 .. peer.sent
    BY <2>1, <2>3
  <2> QED BY <2>5, <2>6 DEF EchoInOrder
<1> QED BY <1>1, Invariance, PTL
=============================================================================
