----------------------------- MODULE Nvm_proofs -----------------------------
(***************************************************************************)
(* The flash store loses nothing it acknowledged, a reset mounts the       *)
(* newest sector, flash is programmed where it is blank, and the store     *)
(* implements NvmStore: for any number of ids, sectors, slots, writes,     *)
(* power losses, and programming errors outside format() and the           *)
(* collector's copies, in a store that is not full.  It never is, with a   *)
(* slot for every id, cut and failed write.                                *)
(***************************************************************************)
EXTENDS NvmInv, NvmHistory, FiniteSetTheorems, SequenceTheorems, WellFoundedInduction, TLAPS

LEMMA MinValue ==
  ASSUME NEW S \in SUBSET Nat, S # {}
  PROVE  Min(S) \in S /\ \A y \in S : Min(S) <= y
<1>1. PICK x \in S : \A y \in S : ~ <<y, x>> \in OpToRel(<, Nat)
  BY NatLessThanWellFounded, WFMin
<1>2. \A y \in S : ~(y < x)
  BY <1>1 DEF OpToRel
<1>3. \A y \in S : x <= y
  BY <1>2
<1> QED BY <1>1, <1>3 DEF Min

\* The constants, and the sectors a collection goes between.
LEMMA Constants ==
  /\ NbSectors \in Nat /\ NbSectors >= 2 /\ NoSector \notin Sectors /\ 0 \in Sectors
  /\ ScanEnd \in Nat /\ ScanEnd >= 2 /\ LastSlot = ScanEnd + 1 /\ LastSlot \in Slots
  /\ GcAt \in Nat /\ GcAt <= ScanEnd /\ 1 \in Slots
  /\ Slots = 1 .. ScanEnd + 1 /\ Slots \subseteq Nat /\ Sectors \subseteq Nat
  /\ NoId \notin Ids
BY NvmAssumption DEF Sectors, NoSector, LastSlot, Slots, NoId

LEMMA Remainder ==
  \A i \in 0 .. 2 * NbSectors - 1 :
    i % NbSectors = IF i < NbSectors THEN i ELSE i - NbSectors
<1> SUFFICES ASSUME NEW i \in 0 .. 2 * NbSectors - 1
             PROVE  i % NbSectors = IF i < NbSectors THEN i ELSE i - NbSectors
  OBVIOUS
<1>1. NbSectors \in Nat \ {0}
  BY Constants
<1>2. CASE i < NbSectors
  BY <1>1, <1>2
<1>3. CASE i >= NbSectors
  <2>1. (i - NbSectors) % NbSectors = i - NbSectors
    BY <1>1, <1>3
  <2>2. i % NbSectors = (i - NbSectors) % NbSectors
    BY <1>1, <1>3
  <2> QED BY <2>1, <2>2, <1>1, <1>3
<1> QED BY <1>1, <1>2, <1>3

LEMMA Neighbours ==
  ASSUME NEW s \in Sectors
  PROVE  /\ Other(s) \in Sectors /\ Other(s) # s
         /\ Other(s) = IF s + 1 < NbSectors THEN s + 1 ELSE 0
         /\ Previous(s) \in Sectors /\ Previous(s) # s
         /\ Previous(Other(s)) = s
<1>1. /\ NbSectors \in Nat /\ NbSectors >= 2 /\ s \in Nat /\ s < NbSectors
      /\ Sectors = 0 .. NbSectors - 1
  BY Constants DEF Sectors
<1>2. Other(s) = IF s + 1 < NbSectors THEN s + 1 ELSE 0
  <2>1. s + 1 \in 0 .. 2 * NbSectors - 1
    BY <1>1
  <2> DEFINE i == s + 1
  <2>2. ~(i < NbSectors) => i - NbSectors = 0
    BY <1>1
  <2> HIDE DEF i
  <2>3. i % NbSectors = IF i < NbSectors THEN i ELSE i - NbSectors
    BY <2>1, Remainder DEF i
  <2>4. i % NbSectors = IF i < NbSectors THEN i ELSE 0
    BY <2>2, <2>3
  <2> QED BY <2>4 DEF Other, i
<1>3. ASSUME NEW u \in Sectors
      PROVE  Previous(u) = IF u = 0 THEN NbSectors - 1 ELSE u - 1
  <2>1. u + NbSectors - 1 \in 0 .. 2 * NbSectors - 1 /\ u \in 0 .. NbSectors - 1
    BY <1>1
  <2> DEFINE i == u + NbSectors - 1
  <2>2. i % NbSectors = IF i < NbSectors THEN i ELSE i - NbSectors
    BY <2>1, Remainder
  <2>3. i = IF u = 0 THEN NbSectors - 1 ELSE u - 1 + NbSectors
    BY <1>1, <2>1
  <2>4. (i < NbSectors <=> u = 0) /\ (u # 0 => i - NbSectors = u - 1)
    BY <1>1, <2>1
  <2> HIDE DEF i
  <2>5. i % NbSectors = IF u = 0 THEN NbSectors - 1 ELSE u - 1
    BY <2>2, <2>3, <2>4
  <2> QED BY <2>5 DEF Previous, i
<1> QED BY <1>1, <1>2, <1>3
-----------------------------------------------------------------------------
\* A sector with an entry programmed to slot n.
Put(sec, n, e) == [sec EXCEPT !.slot[n] = e]

LEMMA PutValue ==
  ASSUME NEW sec \in SectorStates, NEW n \in Slots, NEW e \in Entries
  PROVE  /\ Put(sec, n, e) \in SectorStates
         /\ Put(sec, n, e).hdr = sec.hdr
         /\ Put(sec, n, e).slot[n] = e
         /\ \A k \in Slots : k # n => Put(sec, n, e).slot[k] = sec.slot[k]
BY DEF Put, SectorStates

LEMMA BlankEntry ==
  /\ Blank \in Entries /\ Blank.st = "blank" /\ Blank.id = NoId
  /\ Zero \in Entries /\ Zero.st = "zero"
  /\ NoData \in 0 .. MaxWrites
BY NvmAssumption DEF Blank, Zero, Entry, Entries, NoId, NoData

\* What an erase leaves.
LEMMA Erased ==
  /\ ErasedSector \in SectorStates /\ ErasedSector.hdr = "erased"
  /\ \A k \in Slots : ErasedSector.slot[k] = Blank
  /\ ZeroedSector \in SectorStates /\ ZeroedSector.hdr = "active"
  /\ \A k \in Slots : ZeroedSector.slot[k] = Zero
<1>1. Blank \in Entries /\ Zero \in Entries
  BY BlankEntry
<1>2. \A k \in Slots : ErasedSector.slot[k] = Blank /\ ZeroedSector.slot[k] = Zero
  BY DEF ErasedSector, ZeroedSector, Fill
<1>3. ErasedSector.hdr = "erased" /\ ZeroedSector.hdr = "active"
  BY DEF ErasedSector, ZeroedSector, Fill
<1>4. ErasedSector \in SectorStates /\ ZeroedSector \in SectorStates
  BY <1>1 DEF ErasedSector, ZeroedSector, Fill, SectorStates
<1> QED BY <1>2, <1>3, <1>4

\* An entry that is a live one of an application's id, or not live.
Proper(e) == e.st = "valid" => e.id \in Ids /\ e.val # NoData

\* Programming the slot at the end of a log, or the last one of it.
LEMMA PutAtEnd ==
  ASSUME NEW sec \in SectorStates, LogSector(sec), NEW n \in 1 .. ScanEnd,
         Log(sec, n) \/ Log(sec, n + 1),
         NEW e \in Entries, Proper(e), e.st \in {"raw", "valid", "dead", "torn"} \/ e = Blank
  PROVE  /\ LogSector(Put(sec, n, e))
         /\ e.st \in {"raw", "valid", "dead"} => Log(Put(sec, n, e), n + 1)
<1> DEFINE new == Put(sec, n, e)
<1>1. /\ n \in Slots /\ n # LastSlot /\ LastSlot \in Slots /\ Slots \subseteq Nat
      /\ \A k \in Slots : k # n => new.slot[k] = sec.slot[k]
      /\ new.slot[n] = e
  BY Constants, PutValue
<1> HIDE DEF new
<1>2. /\ \A k \in Slots : k < n => sec.slot[k].st \in {"raw", "valid", "dead"}
      /\ \A k \in Slots : k > n => sec.slot[k] = Blank
  BY <1>1 DEF Log
<1>3. \A k \in Slots : k # n => /\ new.slot[k].st # "zero"
                                /\ new.slot[k].st = "blank" => new.slot[k] = Blank
                                /\ Proper(new.slot[k])
  BY <1>1 DEF LogSector, Proper
<1>4. e.st # "zero" /\ (e.st = "blank" => e = Blank)
  BY BlankEntry
<1>5. \A j, k \in Slots :
        j < k /\ new.slot[j].st \in {"blank", "torn"} => new.slot[k] = Blank
  <2> SUFFICES ASSUME NEW j \in Slots, NEW k \in Slots, j < k,
                      new.slot[j].st \in {"blank", "torn"}
               PROVE  new.slot[k] = Blank
    OBVIOUS
  <2>1. ~(j < n)
    BY <1>1, <1>2
  <2>2. k > n
    BY <1>1, <2>1
  <2> QED BY <1>1, <1>2, <2>2
<1>6. LogSector(new)
  <2>1. \A k \in Slots : /\ new.slot[k].st # "zero"
                         /\ new.slot[k].st = "blank" => new.slot[k] = Blank
                         /\ Proper(new.slot[k])
    BY <1>1, <1>3, <1>4
  <2>2. new.slot[LastSlot] = Blank
    BY <1>1 DEF LogSector
  <2> QED BY <1>5, <2>1, <2>2 DEF LogSector, Proper
<1>7. e.st \in {"raw", "valid", "dead"} => Log(new, n + 1)
  BY <1>1, <1>2 DEF Log
<1> QED BY <1>6, <1>7 DEF new

LEMMA BlankSector ==
  ASSUME NEW sec, \A k \in Slots : sec.slot[k] = Blank
  PROVE  LogSector(sec) /\ Log(sec, 1) /\ \A id \in Ids : Valid(sec, id) = {}
<1>1. /\ Blank.st = "blank" /\ LastSlot \in Slots /\ Slots \subseteq Nat
      /\ \A k \in Slots : ~(k < 1)
      /\ \A k \in 1 .. ScanEnd : k \in Slots
  BY BlankEntry, Constants
<1>2. LogSector(sec)
  BY <1>1 DEF LogSector
<1>3. Log(sec, 1)
  BY <1>1 DEF Log
<1>4. \A id \in Ids : Valid(sec, id) = {}
  BY <1>1 DEF Valid
<1> QED BY <1>2, <1>3, <1>4
-----------------------------------------------------------------------------
\* findEntry and read, on a log: nothing before a live entry stops the walk.
LEMMA FindValue ==
  ASSUME NEW sec \in SectorStates, LogSector(sec), NEW id \in Ids
  PROVE  /\ FindEntry(sec, id) \in 0 .. ScanEnd
         /\ Valid(sec, id) = {} => FindEntry(sec, id) = 0 /\ Read(sec, id) = NoData
         /\ Valid(sec, id) # {} =>
              /\ FindEntry(sec, id) \in Valid(sec, id)
              /\ \A k \in Valid(sec, id) : FindEntry(sec, id) <= k
              /\ Read(sec, id) = sec.slot[FindEntry(sec, id)].val
              /\ Read(sec, id) # NoData
<1> DEFINE stops == {k \in 1 .. ScanEnd : sec.slot[k].st \in {"blank", "zero", "torn"}}
           hits  == {k \in 1 .. ScanEnd : /\ k < WalkStop(sec)
                                          /\ sec.slot[k].id = id
                                          /\ sec.slot[k].st = "valid"}
           v     == Valid(sec, id)
<1>1. /\ ScanEnd \in Nat /\ Slots = 1 .. ScanEnd + 1
      /\ stops \in SUBSET Nat /\ v \in SUBSET Nat
  BY Constants DEF Valid
<1>2. ASSUME NEW k \in v PROVE k < WalkStop(sec)
  <2>1. k \in 1 .. ScanEnd /\ sec.slot[k].st = "valid" /\ k \in Slots
    BY <1>1, <1>2 DEF Valid
  <2>2. CASE stops = {}
    BY <1>1, <2>1, <2>2 DEF WalkStop
  <2>3. CASE stops # {}
    <3> DEFINE m == Min(stops)
    <3>1. WalkStop(sec) = m
      BY <2>3 DEF WalkStop
    <3>2. m \in stops
      BY <1>1, <2>3, MinValue
    <3> HIDE DEF m
    <3>6. m \in 1 .. ScanEnd /\ sec.slot[m].st \in {"blank", "zero", "torn"}
      BY <3>2
    <3>3. m \in Slots /\ sec.slot[m].st \in {"blank", "torn"} /\ m \in Nat
      BY <1>1, <3>6 DEF LogSector
    <3>4. m < k => sec.slot[k] = Blank
      BY <2>1, <3>3 DEF LogSector
    <3>5. ~(m < k) /\ m # k
      BY <2>1, <3>3, <3>4, BlankEntry
    <3> QED BY <1>1, <2>1, <3>1, <3>3, <3>5
  <2> QED BY <2>2, <2>3
<1>3. hits = v
  BY <1>2 DEF Valid
<1>4. FindEntry(sec, id) = IF v = {} THEN 0 ELSE Min(v)
  BY <1>3 DEF FindEntry
<1>5. v # {} => Min(v) \in v /\ \A y \in v : Min(v) <= y
  BY <1>1, MinValue
<1>6. v \subseteq 1 .. ScanEnd /\ \A k \in v : sec.slot[k].val # NoData /\ k # 0
  BY <1>1 DEF Valid, LogSector
<1> HIDE DEF v
<1> QED BY <1>1, <1>4, <1>5, <1>6 DEF Read, v

\* Two sectors that hold the same live entries of an id answer alike.
LEMMA SameAnswers ==
  ASSUME NEW sec \in SectorStates, LogSector(sec),
         NEW new \in SectorStates, LogSector(new), NEW id \in Ids,
         \A k \in 1 .. ScanEnd :
           \/ new.slot[k] = sec.slot[k]
           \/ /\ ~(sec.slot[k].id = id /\ sec.slot[k].st = "valid")
              /\ ~(new.slot[k].id = id /\ new.slot[k].st = "valid")
  PROVE  /\ Valid(new, id) = Valid(sec, id)
         /\ FindEntry(new, id) = FindEntry(sec, id)
         /\ Read(new, id) = Read(sec, id)
<1>1. Valid(new, id) = Valid(sec, id)
  BY DEF Valid
<1>2. \A k \in Valid(sec, id) : new.slot[k] = sec.slot[k]
  BY DEF Valid
<1>3. CASE Valid(sec, id) = {}
  BY <1>1, <1>3, FindValue
<1>4. CASE Valid(sec, id) # {}
  <2> DEFINE a == FindEntry(sec, id)
             b == FindEntry(new, id)
  <2>1. a \in Valid(sec, id) /\ \A k \in Valid(sec, id) : a <= k
    BY <1>4, FindValue
  <2>2. b \in Valid(sec, id) /\ \A k \in Valid(sec, id) : b <= k
    BY <1>1, <1>4, FindValue
  <2>3. a \in Nat /\ b \in Nat
    BY <2>1, <2>2, Constants DEF Valid
  <2> HIDE DEF a, b
  <2>4. a = b
    BY <2>1, <2>2, <2>3
  <2>5. Read(sec, id) = sec.slot[a].val /\ Read(new, id) = new.slot[b].val
    BY <1>1, <1>4, FindValue DEF a, b
  <2> QED BY <1>1, <1>2, <2>1, <2>4, <2>5 DEF a, b
<1> QED BY <1>3, <1>4

\* Programming a slot that was not and is not live changes no answer.
LEMMA Unread ==
  ASSUME NEW sec \in SectorStates, LogSector(sec), NEW n \in Slots, NEW e \in Entries,
         LogSector(Put(sec, n, e)), sec.slot[n].st # "valid", e.st # "valid"
  PROVE  \A id \in Ids : /\ Valid(Put(sec, n, e), id) = Valid(sec, id)
                         /\ FindEntry(Put(sec, n, e), id) = FindEntry(sec, id)
                         /\ Read(Put(sec, n, e), id) = Read(sec, id)
<1> DEFINE new == Put(sec, n, e)
<1>1. /\ new \in SectorStates /\ new.slot[n] = e
      /\ \A k \in Slots : k # n => new.slot[k] = sec.slot[k]
  BY PutValue
<1>2. \A k \in 1 .. ScanEnd : new.slot[k] = sec.slot[k] \/ k = n
  BY <1>1, Constants
<1> HIDE DEF new
<1>3. LogSector(new)
  BY DEF new
<1>4. \A id \in Ids : /\ Valid(new, id) = Valid(sec, id)
                      /\ FindEntry(new, id) = FindEntry(sec, id)
                      /\ Read(new, id) = Read(sec, id)
  BY <1>1, <1>2, <1>3, SameAnswers
<1> QED BY <1>4 DEF new

\* Where the walk of sanityCheck leaves _writeIndex.
LEMMA WalkValue ==
  ASSUME NEW sec \in SectorStates, LogSector(sec), NEW old
  PROVE  LET w == WriteIndexAfter(sec, old)
         IN  \/ w \in 1 .. ScanEnd /\ Log(sec, w)
             \/ w = old /\ \/ \E k \in 1 .. ScanEnd : sec.slot[k].st = "torn"
                           \/ Log(sec, LastSlot)
<1> DEFINE stops == {k \in 1 .. ScanEnd : sec.slot[k].st \in {"blank", "zero", "torn"}}
           w == WriteIndexAfter(sec, old)
<1>1. /\ ScanEnd \in Nat /\ Slots = 1 .. ScanEnd + 1 /\ stops \in SUBSET Nat
      /\ LastSlot = ScanEnd + 1
  BY Constants
<1>2. \A k \in Slots : /\ sec.slot[k].st \in {"blank", "torn", "raw", "valid", "dead"}
                       /\ sec.slot[k].st = "blank" => sec.slot[k] = Blank
  BY DEF LogSector, SectorStates, Entries
<1>3. CASE stops = {}
  <2>1. WalkStop(sec) = ScanEnd + 1
    BY <1>3 DEF WalkStop
  <2>2. w = old
    BY <1>1, <2>1 DEF WriteIndexAfter
  <2>3. Log(sec, LastSlot)
    <3>1. \A k \in Slots : k < LastSlot => sec.slot[k].st \in {"raw", "valid", "dead"}
      BY <1>1, <1>2, <1>3
    <3>2. \A k \in Slots : k >= LastSlot => k = LastSlot
      BY <1>1
    <3> QED BY <3>1, <3>2 DEF Log, LogSector
  <2> QED BY <2>2, <2>3
<1>4. CASE stops # {}
  <2> DEFINE m == Min(stops)
  <2>1. m \in stops /\ \A k \in stops : m <= k
    BY <1>1, <1>4, MinValue
  <2>2. WalkStop(sec) = m
    BY <1>4 DEF WalkStop
  <2> HIDE DEF m
  <2>6. m \in 1 .. ScanEnd /\ sec.slot[m].st \in {"blank", "zero", "torn"}
    BY <2>1
  <2>3. m \in 1 .. ScanEnd /\ m \in Slots /\ sec.slot[m].st \in {"blank", "torn"}
    BY <1>1, <1>2, <2>6
  <2>4. CASE sec.slot[m].st = "torn"
    <3>1. w = old
      BY <2>2, <2>4 DEF WriteIndexAfter
    <3> QED BY <2>3, <2>4, <3>1
  <2>5. CASE sec.slot[m].st = "blank"
    <3>1. w = m
      BY <2>2, <2>3, <2>5, <1>1 DEF WriteIndexAfter
    <3>2. \A k \in Slots : k < m => sec.slot[k].st \in {"raw", "valid", "dead"}
      <4> SUFFICES ASSUME NEW k \in Slots, k < m
                   PROVE  sec.slot[k].st \in {"raw", "valid", "dead"}
        OBVIOUS
      <4>1. k \in 1 .. ScanEnd /\ ~(m <= k)
        BY <1>1, <2>3
      <4>2. k \notin stops
        BY <2>1, <4>1
      <4> QED BY <1>2, <4>1, <4>2
    <3>3. \A k \in Slots : k >= m => sec.slot[k] = Blank
      BY <1>1, <1>2, <2>3, <2>5 DEF LogSector
    <3>4. Log(sec, m)
      BY <3>2, <3>3 DEF Log
    <3> QED BY <2>3, <3>1, <3>4
  <2> QED BY <2>3, <2>4, <2>5
<1> QED BY <1>3, <1>4

\* Two places in one log.
LEMMA LogEnds ==
  ASSUME NEW sec, NEW m \in Slots, NEW n \in Slots, Log(sec, m), Log(sec, n)
  PROVE  m = n
<1>1. m \in Nat /\ n \in Nat /\ Blank.st = "blank"
  BY Constants, BlankEntry
<1>2. ~(m < n)
  BY <1>1 DEF Log
<1>3. ~(n < m)
  BY <1>1 DEF Log
<1> QED BY <1>1, <1>2, <1>3

\* The header of a sector says nothing about its entries.
LEMMA SameSlots ==
  ASSUME NEW sec, NEW new, new.slot = sec.slot
  PROVE  /\ \A n : Log(new, n) = Log(sec, n)
         /\ LogSector(new) = LogSector(sec)
         /\ \A id : Valid(new, id) = Valid(sec, id)
         /\ \A old, m, n : IsCopy(new, m, old, n) = IsCopy(sec, m, old, n)
<1>1. \A n : Log(new, n) = Log(sec, n)
  BY DEF Log
<1>2. LogSector(new) = LogSector(sec)
  BY DEF LogSector
<1>3. \A id : Valid(new, id) = Valid(sec, id)
  BY DEF Valid
<1>4. \A old, m, n : IsCopy(new, m, old, n) = IsCopy(sec, m, old, n)
  BY DEF IsCopy
<1> QED BY <1>1, <1>2, <1>3, <1>4
-----------------------------------------------------------------------------
\* The collector's copy: what a turn of the loop does to it, and its end.
LEMMA CopyStart ==
  ASSUME NEW new, NEW old
  PROVE  IsCopy(new, 0, old, 0)
<1> DEFINE f == [k \in 1 .. 0 |-> k]
<1>1. f \in [1 .. 0 -> 1 .. 0] /\ \A k \in 1 .. 0 : FALSE
  OBVIOUS
<1> HIDE DEF f
<1> QED BY <1>1 DEF IsCopy

LEMMA CopyStep ==
  ASSUME NEW new \in SectorStates, NEW old \in SectorStates,
         NEW m \in 0 .. ScanEnd - 1, NEW n \in 0 .. ScanEnd - 1,
         IsCopy(new, m, old, n)
  PROVE  /\ old.slot[n + 1].st # "valid" => IsCopy(new, m, old, n + 1)
         /\ old.slot[n + 1].st = "valid" =>
              IsCopy(Put(new, m + 1, old.slot[n + 1]), m + 1, old, n + 1)
<1> DEFINE dst == m + 1
           src == n + 1
<1>1. /\ dst \in Slots /\ src \in Slots /\ 1 .. m \subseteq Slots
      /\ old.slot[src] \in Entries /\ dst \in 1 .. dst /\ src \in 1 .. src
      /\ 1 .. m \subseteq 1 .. dst /\ 1 .. n \subseteq 1 .. src
      /\ \A k \in 1 .. dst : k = dst \/ k \in 1 .. m
      /\ \A j \in 1 .. src : j = src \/ j \in 1 .. n
      /\ \A k \in 1 .. m : k < dst
      /\ \A j \in 1 .. n : j < src
      /\ \A k, j \in 1 .. dst : j < k => j # dst
      /\ \A k \in 1 .. m : k # dst
  BY Constants DEF SectorStates
<1>2. PICK f \in [1 .. m -> 1 .. n] :
        /\ \A j, k \in 1 .. m : j < k => f[j] < f[k]
        /\ \A k \in 1 .. m : /\ new.slot[k] = old.slot[f[k]]
                             /\ old.slot[f[k]].st = "valid"
        /\ \A j \in 1 .. n : old.slot[j].st = "valid" => \E k \in 1 .. m : f[k] = j
  BY DEF IsCopy
<1> HIDE DEF dst, src
<1>3. ASSUME old.slot[src].st # "valid"
      PROVE  IsCopy(new, m, old, src)
  <2>1. f \in [1 .. m -> 1 .. src]
    BY <1>1, <1>2
  <2>2. \A j \in 1 .. src : old.slot[j].st = "valid" => \E k \in 1 .. m : f[k] = j
    BY <1>1, <1>2, <1>3
  <2> QED BY <1>2, <2>1, <2>2 DEF IsCopy
<1>4. ASSUME old.slot[src].st = "valid"
      PROVE  IsCopy(Put(new, dst, old.slot[src]), dst, old, src)
  <2> DEFINE put == Put(new, dst, old.slot[src])
             g   == [k \in 1 .. dst |-> IF k = dst THEN src ELSE f[k]]
  <2>1. /\ put.slot[dst] = old.slot[src]
        /\ \A k \in 1 .. m : put.slot[k] = new.slot[k]
    <3>1. /\ put.slot[dst] = old.slot[src]
          /\ \A k \in Slots : k # dst => put.slot[k] = new.slot[k]
      BY <1>1, PutValue
    <3> QED BY <1>1, <3>1
  <2>2. /\ g \in [1 .. dst -> 1 .. src] /\ g[dst] = src
        /\ \A k \in 1 .. m : g[k] = f[k] /\ g[k] < src
    BY <1>1, <1>2
  <2> HIDE DEF put, g
  <2>3. \A j, k \in 1 .. dst : j < k => g[j] < g[k]
    <3> SUFFICES ASSUME NEW j \in 1 .. dst, NEW k \in 1 .. dst, j < k
                 PROVE  g[j] < g[k]
      OBVIOUS
    <3>1. j \in 1 .. m
      BY <1>1
    <3>2. CASE k = dst
      BY <2>2, <3>1, <3>2
    <3>3. CASE k \in 1 .. m
      BY <1>2, <2>2, <3>1, <3>3
    <3> QED BY <1>1, <3>2, <3>3
  <2>4. \A k \in 1 .. dst : /\ put.slot[k] = old.slot[g[k]]
                            /\ old.slot[g[k]].st = "valid"
    BY <1>1, <1>2, <1>4, <2>1, <2>2
  <2>5. \A j \in 1 .. src :
          old.slot[j].st = "valid" => \E k \in 1 .. dst : g[k] = j
    <3> SUFFICES ASSUME NEW j \in 1 .. src, old.slot[j].st = "valid"
                 PROVE  \E k \in 1 .. dst : g[k] = j
      OBVIOUS
    <3>1. CASE j = src
      BY <1>1, <2>2, <3>1
    <3>2. CASE j \in 1 .. n
      <4>1. PICK k \in 1 .. m : f[k] = j
        BY <1>2, <3>2
      <4>2. k \in 1 .. dst
        BY <1>1
      <4> QED BY <2>2, <4>1, <4>2
    <3> QED BY <1>1, <3>1, <3>2
  <2>6. IsCopy(put, dst, old, src)
    BY <2>2, <2>3, <2>4, <2>5 DEF IsCopy
  <2> QED BY <2>6 DEF put
<1> QED BY <1>3, <1>4 DEF dst, src

LEMMA CopyDone ==
  ASSUME NEW new, NEW old, NEW m \in Nat, NEW n \in 0 .. LastSlot,
         IsCopy(new, m, old, n),
         \A k \in Slots : k > n => old.slot[k].st # "valid"
  PROVE  IsCopy(new, m, old, LastSlot)
<1>1. /\ 1 .. n \subseteq 1 .. LastSlot
      /\ \A j \in 1 .. LastSlot : j \in Slots /\ (j \in 1 .. n \/ j > n)
  BY Constants
<1>2. PICK f \in [1 .. m -> 1 .. n] :
        /\ \A j, k \in 1 .. m : j < k => f[j] < f[k]
        /\ \A k \in 1 .. m : /\ new.slot[k] = old.slot[f[k]]
                             /\ old.slot[f[k]].st = "valid"
        /\ \A j \in 1 .. n : old.slot[j].st = "valid" => \E k \in 1 .. m : f[k] = j
  BY DEF IsCopy
<1>3. f \in [1 .. m -> 1 .. LastSlot]
  BY <1>1, <1>2
<1>4. \A j \in 1 .. LastSlot : old.slot[j].st = "valid" => \E k \in 1 .. m : f[k] = j
  BY <1>1, <1>2
<1> QED BY <1>2, <1>3, <1>4 DEF IsCopy

\* A finished copy is a log of its own ...
LEMMA CopySector ==
  ASSUME NEW new \in SectorStates, NEW old \in SectorStates, LogSector(old),
         NEW n \in 1 .. LastSlot, Log(new, n), IsCopy(new, n - 1, old, LastSlot)
  PROVE  LogSector(new) /\ \A k \in 1 .. n - 1 : new.slot[k].st = "valid"
<1>1. /\ LastSlot \in Slots /\ Slots = 1 .. LastSlot /\ LastSlot \in Nat
      /\ n \in Nat /\ Blank.st = "blank"
  BY Constants, BlankEntry
<1>2. \A k \in 1 .. n - 1 : new.slot[k].st = "valid" /\ Proper(new.slot[k])
  <2>1. PICK f \in [1 .. n - 1 -> 1 .. LastSlot] :
          \A k \in 1 .. n - 1 : /\ new.slot[k] = old.slot[f[k]]
                                /\ old.slot[f[k]].st = "valid"
    BY <1>1 DEF IsCopy
  <2> QED BY <1>1, <2>1 DEF LogSector, Proper
<1>3. \A k \in Slots : k \in 1 .. n - 1 \/ k >= n
  BY <1>1
<1>4. \A k \in Slots : k >= n => new.slot[k] = Blank
  BY DEF Log
<1>5. \A k \in Slots : /\ new.slot[k].st # "zero"
                       /\ new.slot[k].st = "blank" => new.slot[k] = Blank
                       /\ Proper(new.slot[k])
  BY <1>1, <1>2, <1>3, <1>4 DEF Proper
<1>6. ASSUME NEW j \in Slots, NEW k \in Slots, j < k,
             new.slot[j].st \in {"blank", "torn"}
      PROVE  new.slot[k] = Blank
  <2>1. j >= n
    BY <1>2, <1>3, <1>6
  <2>2. k >= n
    BY <1>1, <1>6, <2>1
  <2> QED BY <1>4, <2>2
<1>7. new.slot[LastSlot] = Blank
  BY <1>1, <1>4
<1> QED BY <1>2, <1>5, <1>6, <1>7 DEF LogSector, Proper

\* ... and answers as the sector it was made from.
LEMMA CopyReads ==
  ASSUME NEW new \in SectorStates, NEW old \in SectorStates, LogSector(old),
         NEW n \in 1 .. LastSlot, Log(new, n), IsCopy(new, n - 1, old, LastSlot),
         NEW id \in Ids
  PROVE  /\ Read(new, id) = Read(old, id)
         /\ Valid(old, id) # {} => Valid(new, id) # {}
         /\ (\A j, k \in Valid(old, id) : j = k) => \A j, k \in Valid(new, id) : j = k
         /\ \A k \in Valid(new, id) : \E j \in Valid(old, id) : new.slot[k] = old.slot[j]
         /\ \A j \in Valid(old, id) : \E k \in Valid(new, id) : new.slot[k] = old.slot[j]
<1> DEFINE v == Valid(old, id)
           w == Valid(new, id)
<1>1. /\ LastSlot \in Slots /\ Slots = 1 .. LastSlot /\ LastSlot = ScanEnd + 1
      /\ ScanEnd \in Nat /\ n \in Nat
      /\ Blank.st = "blank"
  BY Constants, BlankEntry
<1>2. PICK f \in [1 .. n - 1 -> 1 .. LastSlot] :
        /\ \A j, k \in 1 .. n - 1 : j < k => f[j] < f[k]
        /\ \A k \in 1 .. n - 1 : /\ new.slot[k] = old.slot[f[k]]
                                 /\ old.slot[f[k]].st = "valid"
        /\ \A j \in 1 .. LastSlot :
             old.slot[j].st = "valid" => \E k \in 1 .. n - 1 : f[k] = j
  BY <1>1 DEF IsCopy
<1>3. ASSUME NEW k \in w
      PROVE  k \in 1 .. n - 1 /\ f[k] \in v /\ k \in Nat /\ f[k] \in Nat
  <2>1. k \in 1 .. ScanEnd /\ k \in Slots
        /\ new.slot[k].id = id /\ new.slot[k].st = "valid"
    BY <1>1 DEF Valid
  <2>2. ~(k >= n)
    BY <1>1, <2>1 DEF Log
  <2>3. k \in 1 .. n - 1
    BY <1>1, <2>1, <2>2
  <2>4. f[k] \in 1 .. LastSlot /\ new.slot[k] = old.slot[f[k]]
    BY <1>2, <2>3
  <2>5. f[k] # LastSlot
    BY <1>1, <2>1, <2>4 DEF LogSector
  <2>6. f[k] \in 1 .. ScanEnd
    BY <1>1, <2>4, <2>5
  <2> QED BY <2>1, <2>3, <2>4, <2>6 DEF Valid
<1>4. ASSUME NEW j \in v
      PROVE  \E k \in w : f[k] = j
  <2>1. j \in 1 .. LastSlot /\ old.slot[j].id = id /\ old.slot[j].st = "valid"
    BY <1>1 DEF Valid
  <2>2. PICK k \in 1 .. n - 1 : f[k] = j
    BY <1>2, <2>1
  <2>3. k \in 1 .. ScanEnd /\ new.slot[k] = old.slot[j]
    BY <1>1, <1>2, <2>2
  <2> QED BY <2>1, <2>2, <2>3 DEF Valid
<1>5. \A j, k \in w : f[j] = f[k] => j = k
  <2> SUFFICES ASSUME NEW j \in w, NEW k \in w, f[j] = f[k]
               PROVE  j = k
    OBVIOUS
  <2>1. ~(j < k) /\ ~(k < j)
    BY <1>2, <1>3
  <2> QED BY <1>3, <2>1
<1>6. LogSector(new)
  BY CopySector
<1>7. Read(new, id) = Read(old, id)
  <2>1. CASE v = {}
    <3>1. w = {}
      BY <1>3, <2>1
    <3> QED BY <1>6, <2>1, <3>1, FindValue
  <2>2. CASE v # {}
    <3> DEFINE a == FindEntry(old, id)
               b == FindEntry(new, id)
    <3>1. w # {}
      BY <1>4, <2>2
    <3>2. a \in v /\ (\A k \in v : a <= k) /\ Read(old, id) = old.slot[a].val
      BY <2>2, FindValue
    <3>3. b \in w /\ (\A k \in w : b <= k) /\ Read(new, id) = new.slot[b].val
      BY <1>6, <3>1, FindValue
    <3> HIDE DEF a, b, v, w
    <3>4. PICK k \in w : f[k] = a
      BY <1>4, <3>2
    <3>5. a <= f[b] /\ b <= k
      BY <1>3, <3>2, <3>3
    <3>6. ~(b < k)
      BY <1>2, <1>3, <3>3, <3>4, <3>5
    <3>7. f[b] = a
      BY <1>3, <3>3, <3>4, <3>5, <3>6
    <3> QED BY <1>2, <1>3, <3>2, <3>3, <3>7
  <2> QED BY <2>1, <2>2
<1>8. v # {} => w # {}
  BY <1>4
<1>9. (\A j, k \in v : j = k) => \A j, k \in w : j = k
  BY <1>3, <1>5
<1>10. \A k \in w : \E j \in v : new.slot[k] = old.slot[j]
  BY <1>2, <1>3
<1>11. \A j \in v : \E k \in w : new.slot[k] = old.slot[j]
  BY <1>2, <1>3, <1>4
<1> QED BY <1>7, <1>8, <1>9, <1>10, <1>11
-----------------------------------------------------------------------------
\* The sector a reset mounts.
LEMMA BootSector ==
  ASSUME NEW s, IsBoot(s)
  PROVE  /\ s \in Sectors /\ s \in Bootable /\ Bootable # {}
         /\ \A id : AtBoot(id) = Read(flash[s], id)
         /\ \A u \in Sectors : IsBoot(u) => u = s
<1>1. Bootable \in SUBSET Nat /\ Sectors \subseteq Nat
  BY Constants DEF Bootable
<1>2. s \in Bootable /\ \A u \in Bootable : s <= u
  BY DEF IsBoot
<1>3. Min(Bootable) \in Bootable /\ \A u \in Bootable : Min(Bootable) <= u
  BY <1>1, <1>2, MinValue
<1>4. Min(Bootable) = s
  <2> DEFINE m == Min(Bootable)
  <2>1. m \in Bootable /\ m <= s
    BY <1>2, <1>3
  <2> HIDE DEF m
  <2>2. s <= m /\ m \in Nat /\ s \in Nat
    BY <1>1, <1>2, <2>1
  <2>3. m = s
    BY <2>1, <2>2
  <2> QED BY <2>3 DEF m
<1>5. \A id : AtBoot(id) = Read(flash[s], id)
  BY <1>2, <1>4 DEF AtBoot
<1>6. \A u \in Sectors : IsBoot(u) => u = s
  BY <1>1, <1>2 DEF IsBoot
<1>7. s \in Sectors
  BY <1>2 DEF Bootable
<1> QED BY <1>2, <1>5, <1>6, <1>7

LEMMA BootExists ==
  ASSUME Bootable # {}
  PROVE  \E s \in Sectors : IsBoot(s)
<1>1. Bootable \in SUBSET Nat /\ Bootable \subseteq Sectors
  BY Constants DEF Bootable
<1>2. Min(Bootable) \in Bootable /\ \A u \in Bootable : Min(Bootable) <= u
  BY <1>1, MinValue
<1> QED BY <1>1, <1>2 DEF IsBoot

LEMMA InUse ==
  ASSUME flash \in [Sectors -> SectorStates], Sound, NEW s \in Bootable
  PROVE  /\ s \in Sectors /\ flash[s] \in SectorStates /\ LogSector(flash[s])
         /\ flash[s].hdr = "active"
<1>1. s \in Sectors /\ flash[s].hdr = "active" /\ flash[s].slot[1].st # "zero"
  BY DEF Bootable, Sane
<1>2. flash[s] # ZeroedSector
  BY <1>1, Erased, BlankEntry, Constants
<1> QED BY <1>1, <1>2 DEF Sound

\* A step that changes one sector.
LEMMA OneSector ==
  ASSUME flash \in [Sectors -> SectorStates], NEW x \in Sectors,
         NEW new \in SectorStates, flash' = [flash EXCEPT ![x] = new]
  PROVE  /\ flash' \in [Sectors -> SectorStates] /\ flash'[x] = new
         /\ \A s \in Sectors : s # x => flash'[s] = flash[s]
         /\ \A s \in Sectors : s # x => (s \in Bootable' <=> s \in Bootable)
         /\ x \in Bootable' <=> new.hdr = "active" /\ new.slot[1].st # "zero"
         /\ Bootable \subseteq Sectors /\ Bootable' \subseteq Sectors
<1>1. /\ flash' \in [Sectors -> SectorStates] /\ flash'[x] = new
      /\ \A s \in Sectors : s # x => flash'[s] = flash[s]
  OBVIOUS
<1>2. \A s \in Sectors : s # x => (s \in Bootable' <=> s \in Bootable)
  BY <1>1 DEF Bootable, Sane
<1>3. x \in Bootable' <=> new.hdr = "active" /\ new.slot[1].st # "zero"
  BY <1>1 DEF Bootable, Sane
<1>4. Bootable \subseteq Sectors /\ Bootable' \subseteq Sectors
  BY DEF Bootable
<1> QED BY <1>1, <1>2, <1>3, <1>4

\* Programming a sector in use ...
LEMMA Programmed ==
  ASSUME flash \in [Sectors -> SectorStates], Sound, NEW x \in Bootable,
         NEW new \in SectorStates, LogSector(new), new.hdr = "active",
         flash' = [flash EXCEPT ![x] = new]
  PROVE  Bootable' = Bootable /\ Sound'
<1>1. x \in Sectors /\ new.slot[1].st # "zero"
  BY Constants DEF Bootable, LogSector
<1>2. Bootable' = Bootable
  <2>1. \A s \in Sectors : s \in Bootable' <=> s \in Bootable
    BY <1>1, OneSector
  <2>2. Bootable' \subseteq Sectors /\ Bootable \subseteq Sectors
    BY <1>1, OneSector
  <2> QED BY <2>1, <2>2
<1>3. Sound'
  BY <1>1, OneSector DEF Sound
<1> QED BY <1>2, <1>3

\* ... and one that a reset would not mount afterwards.
LEMMA Hidden ==
  ASSUME flash \in [Sectors -> SectorStates], Sound, NEW x \in Sectors,
         NEW new \in SectorStates, new.hdr # "active" \/ new = ZeroedSector,
         flash' = [flash EXCEPT ![x] = new]
  PROVE  Bootable' = Bootable \ {x} /\ Sound'
<1>1. new = ZeroedSector => new.slot[1].st = "zero"
  BY Erased, BlankEntry, Constants
<1>2. x \notin Bootable'
  BY <1>1, OneSector
<1>3. Bootable' = Bootable \ {x}
  <2>1. \A s \in Sectors : s \in Bootable' <=> s \in Bootable /\ s # x
    BY <1>2, OneSector
  <2>2. Bootable' \subseteq Sectors /\ Bootable \subseteq Sectors
    BY OneSector
  <2> QED BY <2>1, <2>2
<1>4. Sound'
  BY OneSector DEF Sound
<1> QED BY <1>3, <1>4

Mark(sec, state) == [sec EXCEPT !.hdr = state]

LEMMA FlashSteps ==
  ASSUME flash \in [Sectors -> SectorStates], NEW x \in Sectors
  PROVE  /\ \A k, e : Program(x, k, e) => flash' = [flash EXCEPT ![x] = Put(flash[x], k, e)]
         /\ \A state : SetSectorState(x, state) =>
                         flash' = [flash EXCEPT ![x] = Mark(flash[x], state)]
         /\ EraseSector(x) => flash' = [flash EXCEPT ![x] = ErasedSector]
         /\ \A state \in {"erased", "prep", "active"} :
              /\ Mark(flash[x], state) \in SectorStates
              /\ Mark(flash[x], state).hdr = state
              /\ Mark(flash[x], state).slot = flash[x].slot
BY DEF Program, SetSectorState, EraseSector, Put, Mark, SectorStates
-----------------------------------------------------------------------------
\* A step that leaves flash alone.
LEMMA FlashKept ==
  ASSUME flash' = flash
  PROVE  Bootable' = Bootable /\ Sound' = Sound
BY DEF Bootable, Sane, Sound

LEMMA NoRequest ==
  NoReq \in [id : Ids \cup {NoId}, val : 0 .. MaxWrites, old : 0 .. ScanEnd]
BY Constants, BlankEntry DEF NoReq

LEMMA Idle ==
  ASSUME IInv, UNCHANGED vars
  PROVE  IInv'
BY DEF vars, ram, counts, ghost, IInv, Typed, Control, Sound, Newest, Position,
       Preparing, Replacing, Kept, IsBoot, Bootable, Serving, Settled

LEMMA KeepBegin ==
  ASSUME IInv, Begin
  PROVE  IInv'
<1> USE DEF IInv, Begin, Step, counts, ghost
<1>1. Bootable' = Bootable /\ Sound' /\ Bootable \subseteq Sectors
  BY FlashKept DEF Bootable
<1>2. Typed'
  BY DEF Typed
<1>3. Control'
  BY DEF Control, FormatSteps, WriteSteps, CollectSteps
<1>4. Newest'
  BY <1>1, Constants DEF Newest, Sectors
<1>5. Position' /\ Preparing' /\ Replacing'
  BY <1>1 DEF Position, Preparing, Replacing, IsBoot, FormatSteps, WriteSteps
<1>6. Kept'
  <2>1. Settled' = Settled
    BY DEF Settled
  <2> QED BY <1>1, <2>1 DEF Kept, Serving, IsBoot
<1> QED BY <1>1, <1>2, <1>3, <1>4, <1>5, <1>6

LEMMA KeepBeginSkip ==
  ASSUME IInv, BeginSkip
  PROVE  IInv'
<1> USE DEF IInv, BeginSkip, counts, ghost
<1>1. Bootable' = Bootable /\ Sound' /\ Bootable \subseteq Sectors
      /\ scan.src \notin Bootable
  BY FlashKept DEF Bootable
<1>2. Typed'
  BY DEF Typed
<1>3. Control'
  BY DEF Control
<1>4. Newest'
  <2>1. scan.src \in Nat /\ scan'.src = scan.src + 1 /\ Bootable \subseteq Nat
    BY <1>1, Constants DEF Typed
  <2>2. \A s \in Bootable : scan.src <= s /\ s # scan.src
    BY <1>1 DEF Newest
  <2> QED BY <1>1, <2>1, <2>2, Constants DEF Newest
<1>5. Position' /\ Preparing' /\ Replacing'
  BY <1>1 DEF Position, Preparing, Replacing, IsBoot, FormatSteps, WriteSteps
<1>6. Kept'
  <2>1. Settled' = Settled
    BY DEF Settled
  <2> QED BY <1>1, <2>1 DEF Kept, Serving, IsBoot
<1> QED BY <1>1, <1>2, <1>3, <1>4, <1>5, <1>6

LEMMA KeepBeginMount ==
  ASSUME IInv, BeginMount
  PROVE  IInv'
<1> USE DEF IInv, BeginMount, counts, ghost
<1> DEFINE cur == scan.src
           w   == WriteIndexAfter(flash[cur], writeIndex)
<1>1. /\ Bootable' = Bootable /\ Sound' /\ Bootable \subseteq Sectors
      /\ scan.src \in Sectors
  BY FlashKept, Constants DEF Bootable, Typed, Sectors
<1>2. cur \in Bootable /\ IsBoot(cur)
  BY <1>1 DEF Bootable, IsBoot, Newest
<1>3. /\ cur \in Sectors /\ flash[cur] \in SectorStates /\ LogSector(flash[cur])
      /\ cur # NoSector
  BY <1>2, InUse, Constants DEF Typed
<1>4. \/ w \in 1 .. ScanEnd /\ Log(flash[cur], w)
      \/ w = writeIndex
  BY <1>3, WalkValue
<1>5. writeIndex # 0 => Log(flash[cur], writeIndex)
  BY <1>2, <1>3 DEF Position
<1>6. w \in 0 .. LastSlot /\ (w # 0 => Log(flash[cur], w))
  BY <1>4, <1>5, Constants DEF Typed
<1>7. currentSector' = cur /\ writeIndex' = w
  OBVIOUS
<1> HIDE DEF w, cur
<1>8. Typed'
  BY <1>3, <1>6, <1>7 DEF Typed, NoScan
<1>9. Control' /\ Preparing' /\ Replacing'
  BY DEF Control, Preparing, Replacing, FormatSteps, WriteSteps, CollectSteps
<1>10. Newest'
  BY <1>1, <1>2, <1>7 DEF Newest, IsBoot
<1>11. Position'
  <2>1. \A s \in Sectors : IsBoot(s)' => s = cur
    BY <1>1, <1>2, BootSector DEF IsBoot
  <2>2. \A s \in Sectors : IsBoot(s)' /\ writeIndex' # 0 => Log(flash'[s], writeIndex')
    BY <1>6, <1>7, <2>1
  <2>3. Bootable' # {}
    BY <1>1, <1>2
  <2> QED BY <2>2, <2>3 DEF Position
<1>12. Kept'
  <2>1. Settled' = Settled
    BY DEF Settled
  <2> QED BY <1>1, <2>1 DEF Kept, Serving, IsBoot
<1> QED BY <1>1, <1>8, <1>9, <1>10, <1>11, <1>12

LEMMA KeepBeginNone ==
  ASSUME IInv, BeginNone
  PROVE  IInv'
<1> USE DEF IInv, BeginNone, Step, counts, ghost
<1>1. Bootable' = Bootable /\ Sound'
  BY FlashKept
<1>2. Typed'
  BY DEF Typed, NoScan
<1>3. Control'
  BY DEF Control, FormatSteps, WriteSteps, CollectSteps
<1>4. Newest'
  BY DEF Newest
<1>5. Position' /\ Preparing' /\ Replacing'
  BY <1>1 DEF Position, Preparing, Replacing, IsBoot, FormatSteps, WriteSteps
<1>6. Kept'
  <2>1. Settled' = Settled
    BY DEF Settled
  <2> QED BY <1>1, <2>1 DEF Kept, Serving, IsBoot
<1> QED BY <1>1, <1>2, <1>3, <1>4, <1>5, <1>6

LEMMA KeepFormat ==
  ASSUME IInv, Format
  PROVE  IInv'
<1> USE DEF IInv, Format, Step, counts, ghost
<1>1. Bootable' = Bootable /\ Sound'
  BY FlashKept
<1>2. Typed'
  BY BlankEntry DEF Typed
<1>3. Control'
  BY DEF Control, FormatSteps, WriteSteps, CollectSteps
<1>4. Newest' /\ Position' /\ Replacing'
  BY DEF Newest, Position, Replacing, WriteSteps
<1>5. Preparing'
  BY DEF Preparing
<1>6. Kept'
  <2>1. Settled' = {} /\ \A id \in Ids : acked'[id] = NoData
    BY DEF Settled
  <2> QED BY <2>1 DEF Kept, Holds
<1> QED BY <1>1, <1>2, <1>3, <1>4, <1>5, <1>6
-----------------------------------------------------------------------------
LEMMA KeepWrite ==
  ASSUME IInv, NEW id \in Ids, Write(id)
  PROVE  IInv'
<1> USE DEF IInv, Write
<1>1. Bootable' = Bootable /\ Sound'
  BY FlashKept
<1>2. IsBoot(currentSector) /\ currentSector \in Sectors
  BY DEF Newest, Typed
<1>3. /\ flash[currentSector] \in SectorStates /\ LogSector(flash[currentSector])
      /\ Log(flash[currentSector], writeIndex)
  BY <1>2, InUse DEF Typed, Position, IsBoot
<1>4. FindEntry(flash[currentSector], id) \in 0 .. ScanEnd
  BY <1>3, FindValue
<1>5. /\ writes \in 0 .. MaxWrites /\ writes < MaxWrites /\ MaxWrites \in Nat
      /\ writes' \in 0 .. MaxWrites /\ writes' # NoData
  BY NvmAssumption DEF Typed, NoData
<1>6. req' \in [id : Ids \cup {NoId}, val : 0 .. MaxWrites, old : 0 .. ScanEnd]
      /\ req'.id = id /\ req'.val = writes'
  <2>1. CASE writeIndex >= GcAt
    <3>1. req' = [id |-> id, val |-> writes', old |-> 0]
      BY <2>1 DEF NoReq
    <3> QED BY <1>5, <3>1, Constants
  <2>2. CASE ~(writeIndex >= GcAt)
    <3>1. req' = [id |-> id, val |-> writes', old |-> FindEntry(flash[currentSector], id)]
      BY <2>2
    <3> QED BY <1>4, <1>5, <3>1
  <2> QED BY <2>1, <2>2
<1>7. Typed'
  BY <1>5, <1>6 DEF Typed, ghost
<1>8. writeIndex < GcAt => writeIndex <= ScanEnd
  BY Constants DEF Typed
<1>9. writeIndex >= GcAt \/ writeIndex < GcAt
  BY Constants DEF Typed
<1>10. Control'
  BY <1>2, <1>5, <1>6, <1>8, <1>9 DEF Control, FormatSteps, WriteSteps, CollectSteps
<1>11. Newest'
  BY <1>1, <1>2 DEF Newest, IsBoot
<1>12. Position'
  BY <1>3, <1>9 DEF Position
<1>13. Preparing'
  BY DEF Preparing, FormatSteps
<1>14. Replacing'
  BY DEF Replacing, WriteSteps
<1>15. Kept'
  <2>1. Settled' = Settled
    BY DEF Settled, ghost
  <2> QED BY <1>1, <2>1 DEF Kept, Serving, IsBoot, ghost
<1> QED BY <1>1, <1>7, <1>10, <1>11, <1>12, <1>13, <1>14, <1>15

\* The controller refuses nothing: the slot is blank.
LEMMA NotRefused ==
  ASSUME IInv, pc = "header"
  PROVE  /\ writeIndex \in 1 .. ScanEnd /\ writeIndex \in Slots
         /\ flash[currentSector].slot[writeIndex] = Blank
<1>1. writeIndex \in 1 .. ScanEnd /\ writeIndex \in Slots
  BY Constants DEF IInv, Typed, Control, WriteSteps
<1>2. Log(flash[currentSector], writeIndex)
  BY DEF IInv, Position
<1> QED BY <1>1, <1>2, Constants DEF Log

LEMMA KeepWriteRefused ==
  ASSUME IInv, WriteRefused
  PROVE  IInv'
BY NotRefused DEF WriteRefused, Step

LEMMA KeepWriteRetireFails ==
  ASSUME IInv, WriteRetireFails
  PROVE  IInv'
<1> USE DEF IInv, WriteRetireFails, Step, Failure
<1>1. Bootable' = Bootable /\ Sound'
  BY FlashKept
<1>2. IsBoot(currentSector) /\ currentSector \in Sectors /\ currentSector # NoSector
  BY Constants DEF Newest, Control, WriteSteps
<1>3. Log(flash[currentSector], writeIndex)
  BY DEF Position
<1>4. Typed'
  <2>1. dirty' \in [Ids -> BOOLEAN]
    BY DEF Typed
  <2> QED BY <2>1, NoRequest DEF Typed
<1>5. Control' /\ Preparing' /\ Replacing'
  BY DEF Control, Preparing, Replacing, FormatSteps, WriteSteps, CollectSteps
<1>6. Newest'
  BY <1>1, <1>2 DEF Newest, IsBoot
<1>7. Position'
  <2>1. \A s \in Sectors : IsBoot(s)' => s = currentSector
    BY <1>1, <1>2, BootSector DEF IsBoot
  <2>2. Bootable' # {}
    BY <1>1, <1>2 DEF IsBoot
  <2> QED BY <1>3, <2>1, <2>2 DEF Position
<1>8. Kept'
  <2>1. Settled' = Settled
    BY DEF Settled, Typed
  <2> QED BY <1>1, <2>1 DEF Kept, Serving, IsBoot
<1> QED BY <1>1, <1>4, <1>5, <1>6, <1>7, <1>8
-----------------------------------------------------------------------------
\* What a write, or a collection, that is under way works on.
LEMMA Working ==
  ASSUME IInv, pc \in WriteSteps \cup CollectSteps
  PROVE  /\ currentSector \in Sectors /\ currentSector # NoSector
         /\ currentSector \in Bootable
         /\ pc # "gcDrop" => IsBoot(currentSector)
         /\ flash[currentSector] \in SectorStates /\ LogSector(flash[currentSector])
         /\ flash[currentSector].hdr = "active"
         /\ writeIndex \in 1 .. LastSlot /\ writeIndex \in Slots
         /\ req.id \in Ids /\ req.val # NoData /\ req.val \in 0 .. MaxWrites
<1> USE DEF IInv
<1>1. currentSector \in Sectors /\ currentSector # NoSector
  BY Constants DEF Control
<1>2. pc # "gcDrop" => IsBoot(currentSector)
  BY <1>1 DEF Newest, WriteSteps, CollectSteps
<1>3. currentSector \in Bootable
  BY <1>2 DEF Newest, IsBoot
<1>4. writeIndex \in 1 .. LastSlot /\ writeIndex \in Slots
  BY Constants DEF Control, Typed
<1>5. req.id \in Ids /\ req.val # NoData /\ req.val \in 0 .. MaxWrites
  BY DEF Control, Typed
<1> QED BY <1>1, <1>2, <1>3, <1>4, <1>5, InUse DEF Typed

\* What programming one slot of the current sector leaves as it was.
LEMMA CurrentProgrammed ==
  ASSUME IInv, pc \in WriteSteps, NEW n \in Slots, NEW e \in Entries,
         LogSector(Put(flash[currentSector], n, e)), Program(currentSector, n, e)
  PROVE  /\ flash' \in [Sectors -> SectorStates]
         /\ flash'[currentSector] = Put(flash[currentSector], n, e)
         /\ \A s \in Sectors : s # currentSector => flash'[s] = flash[s]
         /\ Bootable' = Bootable /\ Sound' /\ Bootable # {}
         /\ \A s \in Sectors : IsBoot(s)' <=> s = currentSector
         /\ \A s \in Sectors : IsBoot(s) <=> s = currentSector
         /\ \A u \in Bootable : currentSector <= u
         /\ currentSector \in Bootable
<1> DEFINE new == Put(flash[currentSector], n, e)
<1>1. /\ currentSector \in Bootable /\ currentSector \in Sectors
      /\ IsBoot(currentSector) /\ flash[currentSector] \in SectorStates
      /\ flash[currentSector].hdr = "active"
      /\ flash \in [Sectors -> SectorStates]
  BY Working DEF WriteSteps, CollectSteps, IInv, Typed
<1>2. new \in SectorStates /\ new.hdr = "active"
  BY <1>1, PutValue
<1>3. flash' = [flash EXCEPT ![currentSector] = new]
  BY <1>1, FlashSteps
<1> HIDE DEF new
<1>4. LogSector(new) /\ Sound
  BY DEF new, IInv
<1>5. Bootable' = Bootable /\ Sound'
  BY <1>1, <1>2, <1>3, <1>4, Programmed
<1>6. /\ flash' \in [Sectors -> SectorStates] /\ flash'[currentSector] = new
      /\ \A s \in Sectors : s # currentSector => flash'[s] = flash[s]
  BY <1>1, <1>2, <1>3
<1>7. \A s \in Sectors : IsBoot(s) <=> s = currentSector
  BY <1>1, BootSector
<1>8. \A s \in Sectors : IsBoot(s)' <=> IsBoot(s)
  BY <1>5 DEF IsBoot
<1> QED BY <1>1, <1>5, <1>6, <1>7, <1>8 DEF new, IsBoot

LEMMA KeepWriteHeader ==
  ASSUME IInv, WriteHeader
  PROVE  IInv'
<1> USE DEF IInv, WriteHeader, Step, ram, counts, ghost
<1> DEFINE cur == currentSector
           n   == writeIndex
           e   == Entry(req.id, NoData, "raw")
           sec == flash[cur]
           new == Put(sec, n, e)
<1>1. /\ cur \in Sectors /\ cur # NoSector /\ sec \in SectorStates /\ LogSector(sec)
      /\ req.id \in Ids
  BY Working DEF WriteSteps, CollectSteps
<1>2. n \in 1 .. ScanEnd /\ n \in Slots /\ sec.slot[n] = Blank /\ Log(sec, n)
  BY NotRefused DEF Position
<1>3. e \in Entries /\ e.st = "raw" /\ Proper(e)
  BY <1>1, BlankEntry DEF Entry, Entries, Proper
<1> HIDE DEF e
<1>4. LogSector(new) /\ Log(new, n + 1)
  BY <1>1, <1>2, <1>3, PutAtEnd
<1>5. new \in SectorStates /\ new.slot[n] = e
      /\ \A k \in Slots : k # n => new.slot[k] = sec.slot[k]
  BY <1>1, <1>2, <1>3, PutValue
<1>6. \A id \in Ids : /\ Valid(new, id) = Valid(sec, id)
                      /\ FindEntry(new, id) = FindEntry(sec, id)
                      /\ Read(new, id) = Read(sec, id)
  BY <1>1, <1>2, <1>3, <1>4, BlankEntry, Unread
<1>7. /\ flash' \in [Sectors -> SectorStates] /\ flash'[cur] = new
      /\ Bootable' = Bootable /\ Sound'
      /\ \A s \in Sectors : IsBoot(s)' <=> s = cur
      /\ \A s \in Sectors : IsBoot(s) <=> s = cur
      /\ \A u \in Bootable : cur <= u
      /\ cur \in Bootable
  BY <1>2, <1>3, <1>4, CurrentProgrammed DEF WriteSteps, e
<1> HIDE DEF new
<1>8. Typed'
  BY <1>7 DEF Typed
<1>9. Control' /\ Preparing'
  BY DEF Control, Preparing, FormatSteps, WriteSteps, CollectSteps
<1>10. Newest'
  BY <1>7 DEF Newest, IsBoot
<1>11. Position'
  BY <1>3, <1>4, <1>5, <1>7 DEF Position
<1>12. Replacing'
  BY <1>1, <1>6, <1>7 DEF Replacing, WriteSteps
<1>13. Kept'
  <2>1. Settled' = Settled
    BY DEF Settled
  <2>2. Holds(new, acked, Settled)
    BY <1>1, <1>6, <1>7 DEF Kept, Serving, Holds
  <2> QED BY <1>7, <2>1, <2>2 DEF Kept, Serving
<1> QED BY <1>7, <1>8, <1>9, <1>10, <1>11, <1>12, <1>13

LEMMA KeepWritePayload ==
  ASSUME IInv, WritePayload
  PROVE  IInv'
<1> USE DEF IInv, WritePayload, Step, ram, counts, ghost
<1> DEFINE cur == currentSector
           n   == writeIndex
           e   == Entry(req.id, req.val, "raw")
           sec == flash[cur]
           new == Put(sec, n, e)
<1>1. /\ cur \in Sectors /\ cur # NoSector /\ sec \in SectorStates /\ LogSector(sec)
      /\ req.id \in Ids /\ req.val \in 0 .. MaxWrites
      /\ n \in 1 .. ScanEnd /\ n \in Slots
  BY Working, Constants DEF WriteSteps, CollectSteps, Control
<1>2. Log(sec, n + 1) /\ sec.slot[n].st = "raw"
  BY DEF Position
<1>3. e \in Entries /\ e.st = "raw" /\ Proper(e)
  BY <1>1 DEF Entry, Entries, Proper
<1> HIDE DEF e
<1>4. LogSector(new) /\ Log(new, n + 1)
  BY <1>1, <1>2, <1>3, PutAtEnd
<1>5. new.slot[n] = e
  BY <1>1, <1>3, PutValue
<1>6. \A id \in Ids : /\ Valid(new, id) = Valid(sec, id)
                      /\ FindEntry(new, id) = FindEntry(sec, id)
                      /\ Read(new, id) = Read(sec, id)
  BY <1>1, <1>2, <1>3, <1>4, Unread
<1>7. /\ flash' \in [Sectors -> SectorStates] /\ flash'[cur] = new
      /\ Bootable' = Bootable /\ Sound'
      /\ \A s \in Sectors : IsBoot(s)' <=> s = cur
      /\ \A s \in Sectors : IsBoot(s) <=> s = cur
      /\ \A u \in Bootable : cur <= u
      /\ cur \in Bootable
  BY <1>1, <1>3, <1>4, CurrentProgrammed DEF WriteSteps, e
<1> HIDE DEF new
<1>8. Typed'
  BY <1>7 DEF Typed
<1>9. Control' /\ Preparing'
  BY DEF Control, Preparing, FormatSteps, WriteSteps, CollectSteps
<1>10. Newest'
  BY <1>7 DEF Newest, IsBoot
<1>11. Position'
  BY <1>3, <1>4, <1>5, <1>7 DEF Position
<1>12. Replacing'
  BY <1>1, <1>6, <1>7 DEF Replacing, WriteSteps
<1>13. Kept'
  <2>1. Settled' = Settled
    BY DEF Settled
  <2>2. Holds(new, acked, Settled)
    BY <1>1, <1>6, <1>7 DEF Kept, Serving, Holds
  <2> QED BY <1>7, <2>1, <2>2 DEF Kept, Serving
<1> QED BY <1>7, <1>8, <1>9, <1>10, <1>11, <1>12, <1>13

\* The live entries after the end of the log was made valid.
LEMMA Validated ==
  ASSUME NEW sec \in SectorStates, LogSector(sec), NEW n \in 1 .. ScanEnd,
         Log(sec, n + 1), sec.slot[n].st = "raw",
         NEW e \in Entries, Proper(e), e.st = "valid"
  PROVE  /\ Valid(Put(sec, n, e), e.id) = Valid(sec, e.id) \cup {n}
         /\ \A k \in Valid(sec, e.id) : k < n
         /\ FindEntry(sec, e.id) = 0 =>
              Valid(sec, e.id) = {} /\ Read(Put(sec, n, e), e.id) = e.val
         /\ FindEntry(sec, e.id) # 0 =>
              /\ FindEntry(sec, e.id) \in Valid(sec, e.id)
              /\ FindEntry(Put(sec, n, e), e.id) = FindEntry(sec, e.id)
         /\ \A id \in Ids : id # e.id =>
              /\ Valid(Put(sec, n, e), id) = Valid(sec, id)
              /\ Read(Put(sec, n, e), id) = Read(sec, id)
<1> DEFINE new == Put(sec, n, e)
<1>1. /\ n \in Slots /\ new \in SectorStates /\ new.slot[n] = e
      /\ \A k \in 1 .. ScanEnd : k # n => new.slot[k] = sec.slot[k]
      /\ e.id \in Ids
  BY PutValue, Constants DEF Proper
<1>2. LogSector(new)
  BY PutAtEnd
<1> HIDE DEF new
<1>3. Valid(new, e.id) = Valid(sec, e.id) \cup {n}
  BY <1>1 DEF Valid
<1>4. \A k \in Valid(sec, e.id) : k < n
  <2> SUFFICES ASSUME NEW k \in Valid(sec, e.id) PROVE k < n
    OBVIOUS
  <2>1. k \in 1 .. ScanEnd /\ sec.slot[k].st = "valid" /\ k \in Slots
    BY Constants DEF Valid
  <2>2. ~(k >= n + 1) /\ k # n
    BY <2>1, BlankEntry DEF Log
  <2> QED BY <2>1, <2>2
<1>5. ASSUME FindEntry(sec, e.id) = 0
      PROVE  Valid(sec, e.id) = {} /\ Read(new, e.id) = e.val
  <2>1. Valid(sec, e.id) = {}
    BY <1>1, <1>5, FindValue, Constants DEF Valid
  <2>2. FindEntry(new, e.id) = n
    BY <1>1, <1>2, <1>3, <2>1, FindValue
  <2>3. Read(new, e.id) = new.slot[n].val
    BY <1>1, <1>2, <1>3, <2>2, FindValue
  <2> QED BY <1>1, <2>1, <2>3
<1>6. ASSUME FindEntry(sec, e.id) # 0
      PROVE  /\ FindEntry(sec, e.id) \in Valid(sec, e.id)
             /\ FindEntry(new, e.id) = FindEntry(sec, e.id)
  <2> DEFINE a == FindEntry(sec, e.id)
             b == FindEntry(new, e.id)
  <2>1. a \in Valid(sec, e.id) /\ \A k \in Valid(sec, e.id) : a <= k
    BY <1>1, <1>6, FindValue
  <2>2. b \in Valid(new, e.id) /\ \A k \in Valid(new, e.id) : b <= k
    BY <1>1, <1>2, <1>3, FindValue
  <2>3. a \in Nat /\ b \in Nat
    BY <2>1, <2>2, Constants DEF Valid
  <2> HIDE DEF a, b
  <2>4. b <= a /\ a < n
    BY <1>3, <1>4, <2>1, <2>2
  <2>5. b \in Valid(sec, e.id)
    BY <1>3, <2>2, <2>3, <2>4
  <2>6. a = b
    BY <2>1, <2>3, <2>4, <2>5
  <2> QED BY <2>1, <2>6 DEF a, b
<1>7. \A id \in Ids : id # e.id =>
        /\ Valid(new, id) = Valid(sec, id)
        /\ Read(new, id) = Read(sec, id)
  <2> SUFFICES ASSUME NEW id \in Ids, id # e.id
               PROVE  /\ Valid(new, id) = Valid(sec, id)
                      /\ Read(new, id) = Read(sec, id)
    OBVIOUS
  <2>1. \A k \in 1 .. ScanEnd :
          \/ new.slot[k] = sec.slot[k]
          \/ /\ ~(sec.slot[k].id = id /\ sec.slot[k].st = "valid")
             /\ ~(new.slot[k].id = id /\ new.slot[k].st = "valid")
    BY <1>1
  <2> QED BY <1>1, <1>2, <2>1, SameAnswers
<1> QED BY <1>3, <1>4, <1>5, <1>6, <1>7 DEF new

LEMMA KeepWriteValidate ==
  ASSUME IInv, WriteValidate
  PROVE  IInv'
<1> USE DEF IInv, WriteValidate, counts
<1> DEFINE cur == currentSector
           n   == writeIndex
           id  == req.id
           e   == Entry(id, req.val, "valid")
           sec == flash[cur]
           new == Put(sec, n, e)
<1>1. /\ cur \in Sectors /\ cur # NoSector /\ sec \in SectorStates /\ LogSector(sec)
      /\ id \in Ids /\ req.val \in 0 .. MaxWrites /\ req.val # NoData
      /\ n \in 1 .. ScanEnd /\ n \in Slots
  BY Working, Constants DEF WriteSteps, CollectSteps, Control
<1>2. Log(sec, n + 1) /\ sec.slot[n].st = "raw"
  BY DEF Position
<1>3. /\ e \in Entries /\ e.st = "valid" /\ Proper(e) /\ e.id = id /\ e.val = req.val
  BY <1>1 DEF Entry, Entries, Proper
<1>4. LogSector(new) /\ Log(new, n + 1) /\ new.slot[n] = e
  BY <1>1, <1>2, <1>3, PutAtEnd, PutValue
<1>5. /\ flash' \in [Sectors -> SectorStates] /\ flash'[cur] = new
      /\ Bootable' = Bootable /\ Sound' /\ Bootable # {}
      /\ \A s \in Sectors : IsBoot(s)' <=> s = cur
      /\ \A s \in Sectors : IsBoot(s) <=> s = cur
      /\ \A u \in Bootable : cur <= u
      /\ cur \in Bootable
  BY <1>1, <1>3, <1>4, CurrentProgrammed DEF WriteSteps
<1>6. /\ Valid(new, id) = Valid(sec, id) \cup {n}
      /\ \A k \in Valid(sec, id) : k < n
      /\ req.old = 0 => Valid(sec, id) = {} /\ Read(new, id) = req.val
      /\ req.old # 0 => /\ req.old \in Valid(sec, id)
                        /\ FindEntry(new, id) = req.old
      /\ \A i \in Ids : i # id => /\ Valid(new, i) = Valid(sec, i)
                                  /\ Read(new, i) = Read(sec, i)
  <2>1. req.old = FindEntry(sec, id)
    BY DEF Replacing, WriteSteps
  <2> HIDE DEF e, sec, id, n, cur, IInv, WriteValidate
  <2>2. /\ Valid(new, e.id) = Valid(sec, e.id) \cup {n}
        /\ \A k \in Valid(sec, e.id) : k < n
        /\ FindEntry(sec, e.id) = 0 =>
             Valid(sec, e.id) = {} /\ Read(new, e.id) = e.val
        /\ FindEntry(sec, e.id) # 0 =>
             /\ FindEntry(sec, e.id) \in Valid(sec, e.id)
             /\ FindEntry(new, e.id) = FindEntry(sec, e.id)
        /\ \A i \in Ids : i # e.id => /\ Valid(new, i) = Valid(sec, i)
                                      /\ Read(new, i) = Read(sec, i)
    BY <1>1, <1>2, <1>3, Validated
  <2> QED BY <1>3, <2>1, <2>2
<1>7. Holds(sec, acked, Settled)
  BY <1>1, <1>5 DEF Kept, Serving
<1>8. /\ currentSector' = cur /\ writeIndex' = n + 1
      /\ IF req.old = 0
         THEN /\ acked' = [acked EXCEPT ![id] = req.val] /\ pc' = "idle" /\ req' = NoReq
         ELSE /\ pc' = "retire" /\ req' = req /\ acked' = acked
      /\ UNCHANGED <<scan, writes, dirty, formatting>>
  OBVIOUS
<1>9. pc = "validate" /\ acked \in [Ids -> 0 .. MaxWrites]
  BY DEF Typed
<1>10. n + 1 \in 1 .. LastSlot /\ n + 1 - 1 = n /\ n + 1 > 0
  BY <1>1, Constants
<1>11. Typed'
  <2>1. acked' \in [Ids -> 0 .. MaxWrites]
    BY <1>1, <1>8, <1>9
  <2>2. req' \in [id : Ids \cup {NoId}, val : 0 .. MaxWrites, old : 0 .. ScanEnd]
    BY <1>8, NoRequest DEF Typed
  <2> QED BY <1>5, <1>8, <1>10, <2>1, <2>2 DEF Typed
<1> HIDE DEF new, e
<1>12. Control' /\ Preparing'
  BY <1>1, <1>8, <1>10 DEF Control, Preparing, FormatSteps, WriteSteps, CollectSteps
<1>13. Newest'
  BY <1>5, <1>8 DEF Newest, IsBoot
<1>14. Position'
  BY <1>4, <1>5, <1>8 DEF Position
<1>15. Replacing'
  <2>1. CASE req.old = 0
    BY <1>8, <2>1 DEF Replacing, WriteSteps
  <2>2. CASE req.old # 0
    <3>1. req.old \in Nat /\ 0 < req.old /\ req.old < n
      BY <1>1, <1>6, <2>2, Constants DEF Valid
    <3>2. ~formatting /\ ~dirty[id] => Valid(new, id) \subseteq {req.old, n}
      BY <1>1, <1>6, <1>7, <1>9, <2>2 DEF Holds, Settled
    <3>3. new.slot[n] = Entry(id, req.val, "valid")
      BY <1>4 DEF e
    <3>4. /\ pc' = "retire" /\ req' = req /\ flash'[currentSector'] = new
          /\ writeIndex' - 1 = n
      BY <1>1, <1>5, <1>8, <2>2
    <3>5. req'.old = FindEntry(flash'[currentSector'], req'.id)
      BY <1>6, <2>2, <3>4
    <3>6. /\ 0 < req'.old /\ req'.old < writeIndex' - 1
          /\ flash'[currentSector'].slot[writeIndex' - 1] = Entry(req'.id, req'.val, "valid")
      BY <3>1, <3>3, <3>4
    <3>7. ~formatting' /\ ~dirty'[req'.id] =>
            Valid(flash'[currentSector'], req'.id) \subseteq {req'.old, writeIndex' - 1}
      BY <1>8, <3>2, <3>4
    <3> QED BY <3>5, <3>6, <3>7 DEF Replacing
  <2> QED BY <2>1, <2>2
<1>16. Kept'
  <2>1. CASE req.old = 0
    <3>1. Settled' = Settled
      BY <1>8, <1>9, <2>1 DEF Settled
    <3>2. \A i \in Ids : acked'[i] = IF i = id THEN req.val ELSE acked[i]
      BY <1>8, <1>9, <2>1
    <3>3. Holds(new, acked', Settled)
      BY <1>6, <1>7, <2>1, <3>2 DEF Holds
    <3> QED BY <1>5, <1>8, <2>1, <3>1, <3>3 DEF Kept, Serving
  <2>2. CASE req.old # 0
    <3>1. Settled' = Settled \ {id}
      BY <1>8, <1>9, <2>2 DEF Settled
    <3>2. Holds(new, acked, Settled \ {id})
      BY <1>6, <1>7, <2>2 DEF Holds
    <3> QED BY <1>5, <1>8, <2>2, <3>1, <3>2 DEF Kept, Serving
  <2> QED BY <2>1, <2>2
<1> QED BY <1>5, <1>11, <1>12, <1>13, <1>14, <1>15, <1>16

\* Invalidating an entry in the middle of a log.
LEMMA Retired ==
  ASSUME NEW sec \in SectorStates, LogSector(sec), NEW n \in Slots, Log(sec, n),
         NEW k \in 1 .. ScanEnd, k < n, NEW d \in Entries, d.st = "dead"
  PROVE  /\ LogSector(Put(sec, k, d)) /\ Log(Put(sec, k, d), n)
         /\ \A id \in Ids : Valid(Put(sec, k, d), id) = Valid(sec, id) \ {k}
         /\ \A id \in Ids : id # sec.slot[k].id =>
              /\ Valid(Put(sec, k, d), id) = Valid(sec, id)
              /\ Read(Put(sec, k, d), id) = Read(sec, id)
<1> DEFINE new == Put(sec, k, d)
<1>1. /\ k \in Slots /\ k # LastSlot /\ LastSlot \in Slots /\ Slots \subseteq Nat
      /\ new \in SectorStates /\ new.slot[k] = d
      /\ \A j \in Slots : j # k => new.slot[j] = sec.slot[j]
      /\ \A j \in 1 .. ScanEnd : j \in Slots
  BY PutValue, Constants
<1>2. sec.slot[k].st \in {"raw", "valid", "dead"}
  BY <1>1 DEF Log
<1> HIDE DEF new
<1>3. LogSector(new)
  <2>1. \A j \in Slots : /\ new.slot[j].st # "zero"
                         /\ new.slot[j].st = "blank" => new.slot[j] = Blank
                         /\ Proper(new.slot[j])
    BY <1>1 DEF LogSector, Proper
  <2>2. \A i, j \in Slots :
          i < j /\ new.slot[i].st \in {"blank", "torn"} => new.slot[j] = Blank
    <3> SUFFICES ASSUME NEW i \in Slots, NEW j \in Slots, i < j,
                        new.slot[i].st \in {"blank", "torn"}
                 PROVE  new.slot[j] = Blank
      OBVIOUS
    <3>1. i # k /\ new.slot[i] = sec.slot[i] /\ sec.slot[j] = Blank
      BY <1>1 DEF LogSector
    <3>2. j # k
      BY <1>2, <3>1, BlankEntry
    <3> QED BY <1>1, <3>1, <3>2
  <2>3. new.slot[LastSlot] = Blank
    BY <1>1 DEF LogSector
  <2> QED BY <2>1, <2>2, <2>3 DEF LogSector, Proper
<1>4. Log(new, n)
  BY <1>1 DEF Log
<1>5. \A id \in Ids : Valid(new, id) = Valid(sec, id) \ {k}
  BY <1>1 DEF Valid
<1>6. \A id \in Ids : id # sec.slot[k].id =>
        /\ Valid(new, id) = Valid(sec, id)
        /\ Read(new, id) = Read(sec, id)
  <2> SUFFICES ASSUME NEW id \in Ids, id # sec.slot[k].id
               PROVE  /\ Valid(new, id) = Valid(sec, id)
                      /\ Read(new, id) = Read(sec, id)
    OBVIOUS
  <2>1. \A j \in 1 .. ScanEnd :
          \/ new.slot[j] = sec.slot[j]
          \/ /\ ~(sec.slot[j].id = id /\ sec.slot[j].st = "valid")
             /\ ~(new.slot[j].id = id /\ new.slot[j].st = "valid")
    BY <1>1
  <2> QED BY <1>1, <1>3, <2>1, SameAnswers
<1> QED BY <1>3, <1>4, <1>5, <1>6 DEF new

LEMMA KeepWriteRetire ==
  ASSUME IInv, WriteRetire
  PROVE  IInv'
<1> USE DEF IInv, WriteRetire, Step, counts
<1> DEFINE cur == currentSector
           n   == writeIndex - 1
           id  == req.id
           sec == flash[cur]
           d   == [sec.slot[req.old] EXCEPT !.st = "dead"]
           new == Put(sec, req.old, d)
<1>1. /\ cur \in Sectors /\ cur # NoSector /\ sec \in SectorStates /\ LogSector(sec)
      /\ id \in Ids /\ req.val \in 0 .. MaxWrites /\ req.val # NoData
      /\ writeIndex \in 1 .. LastSlot /\ writeIndex \in Slots
  BY Working DEF WriteSteps, CollectSteps
<1>2. /\ req.old = FindEntry(sec, id) /\ req.old \in 0 .. ScanEnd
      /\ 0 < req.old /\ req.old < n /\ sec.slot[n] = Entry(id, req.val, "valid")
      /\ ~formatting /\ ~dirty[id] => Valid(sec, id) \subseteq {req.old, n}
  BY DEF Replacing, WriteSteps, Typed
<1>3. /\ req.old \in 1 .. ScanEnd /\ req.old < writeIndex /\ req.old \in Slots
      /\ n \in 1 .. ScanEnd /\ n # req.old /\ n \in Slots
  BY <1>1, <1>2, Constants
<1>4. req.old \in Valid(sec, id)
  BY <1>1, <1>2, FindValue
<1>5. sec.slot[req.old].id = id /\ sec.slot[req.old] \in Entries
  BY <1>1, <1>3, <1>4 DEF Valid, SectorStates
<1>6. d \in Entries /\ d.st = "dead"
  BY <1>5 DEF Entries
<1>7. Log(sec, writeIndex)
  BY DEF Position
<1>8. Program(cur, req.old, d)
  <2>1. flash \in [Sectors -> SectorStates]
    BY DEF Typed
  <2> QED BY <1>1, <1>3, <2>1 DEF Program, SectorStates
<1> HIDE DEF n, d
<1>9. /\ LogSector(new) /\ Log(new, writeIndex)
      /\ \A i \in Ids : Valid(new, i) = Valid(sec, i) \ {req.old}
      /\ \A i \in Ids : i # id => /\ Valid(new, i) = Valid(sec, i)
                                  /\ Read(new, i) = Read(sec, i)
  BY <1>1, <1>3, <1>5, <1>6, <1>7, Retired
<1>10. new \in SectorStates /\ new.slot[n] = sec.slot[n]
  BY <1>1, <1>3, <1>6, PutValue
<1>11. /\ flash' \in [Sectors -> SectorStates] /\ flash'[cur] = new
       /\ Bootable' = Bootable /\ Sound' /\ Bootable # {}
       /\ \A s \in Sectors : IsBoot(s)' <=> s = cur
       /\ \A s \in Sectors : IsBoot(s) <=> s = cur
       /\ \A u \in Bootable : cur <= u
       /\ cur \in Bootable
  BY <1>1, <1>3, <1>6, <1>8, <1>9, CurrentProgrammed DEF WriteSteps
<1> HIDE DEF new
<1>12. n \in Valid(new, id) /\ new.slot[n].val = req.val
  <2>1. n \in Valid(sec, id)
    BY <1>2, <1>3 DEF Valid, Entry
  <2> QED BY <1>1, <1>2, <1>3, <1>9, <1>10, <2>1 DEF Entry
<1>13. ~formatting /\ ~dirty[id] => Valid(new, id) = {n} /\ Read(new, id) = req.val
  <2> SUFFICES ASSUME ~formatting, ~dirty[id]
               PROVE  Valid(new, id) = {n} /\ Read(new, id) = req.val
    OBVIOUS
  <2>1. Valid(new, id) = {n}
    BY <1>1, <1>2, <1>9, <1>12
  <2>2. FindEntry(new, id) = n
    BY <1>1, <1>9, <1>10, <2>1, FindValue
  <2> QED BY <1>1, <1>9, <1>10, <1>12, <2>1, <2>2, FindValue
<1>14. Typed'
  <2>1. acked' \in [Ids -> 0 .. MaxWrites]
    BY <1>1 DEF Typed
  <2> QED BY <1>11, <2>1, NoRequest DEF Typed
<1>15. Control' /\ Preparing' /\ Replacing'
  BY DEF Control, Preparing, Replacing, FormatSteps, WriteSteps, CollectSteps
<1>16. Newest'
  BY <1>11 DEF Newest, IsBoot
<1>17. Position'
  BY <1>9, <1>11 DEF Position
<1>18. Kept'
  <2>1. Holds(sec, acked, Settled)
    BY <1>1, <1>11 DEF Kept, Serving
  <2>2. /\ \A i \in Ids : acked'[i] = IF i = id THEN req.val ELSE acked[i]
        /\ \A i \in Settled' : i # id => i \in Settled
        /\ id \in Settled' => ~formatting /\ ~dirty[id]
    BY DEF Settled, Typed
  <2>3. Holds(new, acked', Settled')
    BY <1>9, <1>12, <1>13, <2>1, <2>2 DEF Holds
  <2> QED BY <1>11, <2>3 DEF Kept, Serving
<1> QED BY <1>11, <1>14, <1>15, <1>16, <1>17, <1>18

\* Whatever of an entry's header was programmed, nothing else changes.
LEMMA HeaderCut ==
  ASSUME IInv, pc = "header", NEW e \in CutHeader(req.id, NoData),
         Program(currentSector, writeIndex, e)
  PROVE  /\ flash' \in [Sectors -> SectorStates] /\ Sound'
         /\ Bootable' = Bootable /\ Bootable # {}
         /\ \A s \in Sectors : IsBoot(s)' <=> s = currentSector
         /\ \A s \in Sectors : IsBoot(s) <=> s = currentSector
         /\ currentSector \in Bootable
         /\ Holds(flash'[currentSector], acked, Settled)
<1> DEFINE cur == currentSector
           n   == writeIndex
           sec == flash[cur]
           new == Put(sec, n, e)
<1>1. /\ cur \in Sectors /\ sec \in SectorStates /\ LogSector(sec) /\ req.id \in Ids
      /\ IsBoot(cur)
  BY Working DEF WriteSteps, CollectSteps
<1>2. n \in 1 .. ScanEnd /\ n \in Slots /\ sec.slot[n] = Blank /\ Log(sec, n)
  BY NotRefused DEF IInv, Position
<1>3. e \in Entries /\ (e.st \in {"raw", "torn"} \/ e = Blank) /\ Proper(e)
      /\ e.st # "valid"
  BY <1>1, BlankEntry DEF CutHeader, Entry, Entries, Proper
<1>4. LogSector(new)
  BY <1>1, <1>2, <1>3, PutAtEnd
<1>5. \A id \in Ids : Valid(new, id) = Valid(sec, id) /\ Read(new, id) = Read(sec, id)
  BY <1>1, <1>2, <1>3, <1>4, BlankEntry, Unread
<1>6. /\ flash' \in [Sectors -> SectorStates] /\ flash'[cur] = new
      /\ Bootable' = Bootable /\ Sound' /\ Bootable # {}
      /\ \A s \in Sectors : IsBoot(s)' <=> s = cur
      /\ \A s \in Sectors : IsBoot(s) <=> s = cur
      /\ cur \in Bootable
  BY <1>2, <1>3, <1>4, CurrentProgrammed DEF WriteSteps
<1>7. Holds(sec, acked, Settled)
  BY <1>1 DEF IInv, Kept, Serving
<1> QED BY <1>5, <1>6, <1>7 DEF Holds

LEMMA KeepWriteEntryFails ==
  ASSUME IInv, WriteEntryFails
  PROVE  IInv'
<1> USE DEF IInv, WriteEntryFails, Failure, ghost
<1>1. /\ flash' \in [Sectors -> SectorStates] /\ Sound'
      /\ Bootable' = Bootable
      /\ \A s \in Sectors : IsBoot(s)' <=> s = currentSector
      /\ currentSector \in Bootable /\ currentSector \in Sectors
      /\ Holds(flash'[currentSector], acked, Settled)
      /\ \A u \in Bootable : currentSector <= u
  <2>1. /\ currentSector \in Sectors /\ IsBoot(currentSector)
        /\ \A u \in Bootable : currentSector <= u
    BY Working DEF WriteSteps, CollectSteps, IsBoot
  <2>2. CASE pc = "header"
    <3>1. flash[currentSector].slot[writeIndex] = Blank
      BY <2>2, NotRefused
    <3> QED BY <2>1, <2>2, <3>1, HeaderCut
  <2>3. CASE pc # "header"
    <3>1. flash' = flash
      BY <2>3
    <3>2. Bootable' = Bootable /\ Sound'
      BY <3>1, FlashKept
    <3>3. \A s \in Sectors : IsBoot(s) <=> s = currentSector
      BY <2>1, BootSector
    <3>4. Holds(flash[currentSector], acked, Settled)
      BY <2>1 DEF Kept, Serving
    <3> QED BY <2>1, <3>1, <3>2, <3>3, <3>4 DEF IsBoot, Typed
  <2> QED BY <2>2, <2>3
<1>2. Typed'
  BY <1>1, NoRequest, Constants DEF Typed
<1>3. Control' /\ Preparing' /\ Replacing' /\ Position'
  BY DEF Control, Preparing, Replacing, Position, FormatSteps, WriteSteps, CollectSteps
<1>4. Newest'
  BY <1>1 DEF Newest, IsBoot
<1>5. Kept'
  <2>1. Settled' = Settled
    BY DEF Settled
  <2> QED BY <1>1, <2>1 DEF Kept, Serving
<1> QED BY <1>1, <1>2, <1>3, <1>4, <1>5
-----------------------------------------------------------------------------
\* While the next sector is prepared and filled, a reset mounts the current one.
LEMMA OtherSector ==
  ASSUME IInv, pc \in CollectSteps, pc # "gcDrop",
         NEW new \in SectorStates, new.hdr # "active" \/ new = ZeroedSector,
         flash' = [flash EXCEPT ![Other(currentSector)] = new]
  PROVE  /\ flash' \in [Sectors -> SectorStates] /\ Sound'
         /\ flash'[currentSector] = flash[currentSector]
         /\ flash'[Other(currentSector)] = new
         /\ currentSector \in Bootable'
         /\ \A u \in Bootable' : currentSector <= u
         /\ \A s \in Sectors : IsBoot(s)' <=> s = currentSector
         /\ Holds(flash[currentSector], acked, Settled)
<1> DEFINE cur == currentSector
           oth == Other(cur)
<1>1. cur \in Sectors /\ cur \in Bootable /\ IsBoot(cur)
  BY Working
<1>2. oth \in Sectors /\ oth # cur
  BY <1>1, Neighbours
<1>3. flash \in [Sectors -> SectorStates] /\ Sound
  BY DEF IInv, Typed
<1> HIDE DEF oth
<1>4. flash' = [flash EXCEPT ![oth] = new]
  BY DEF oth
<1>5. Bootable' = Bootable \ {oth} /\ Sound'
  BY <1>2, <1>3, <1>4, Hidden
<1>6. /\ flash' \in [Sectors -> SectorStates] /\ flash'[oth] = new
      /\ flash'[cur] = flash[cur]
  BY <1>1, <1>2, <1>3, <1>4
<1>7. cur \in Bootable' /\ \A u \in Bootable' : cur <= u
  BY <1>1, <1>2, <1>5 DEF IsBoot
<1>8. \A s \in Sectors : IsBoot(s)' <=> s = cur
  <2>1. Bootable' \subseteq Sectors /\ Sectors \subseteq Nat
    BY Constants DEF Bootable
  <2>2. ASSUME NEW s \in Sectors, IsBoot(s)'
        PROVE  s = cur
    <3>1. s \in Bootable' /\ s <= cur
      BY <1>7, <2>2 DEF IsBoot
    <3>2. cur <= s /\ s \in Nat /\ cur \in Nat
      BY <1>1, <1>7, <2>1, <3>1
    <3> QED BY <3>1, <3>2
  <2>3. ASSUME NEW s \in Sectors, s = cur
        PROVE  IsBoot(s)'
    BY <1>7, <2>3 DEF IsBoot
  <2> QED BY <2>2, <2>3
<1>9. Holds(flash[cur], acked, Settled)
  BY <1>1 DEF IInv, Kept, Serving
<1> QED BY <1>5, <1>6, <1>7, <1>8, <1>9 DEF oth

LEMMA KeepGcErase ==
  ASSUME IInv, GcErase
  PROVE  IInv'
<1> USE DEF IInv, GcErase, Step, ram, counts, ghost
<1> DEFINE oth == Other(currentSector)
<1>1. currentSector \in Sectors /\ oth \in Sectors /\ flash \in [Sectors -> SectorStates]
  BY Working, Neighbours DEF CollectSteps, Typed
<1>2. flash' = [flash EXCEPT ![oth] = ErasedSector]
  BY <1>1, FlashSteps
<1>3. /\ flash' \in [Sectors -> SectorStates] /\ Sound'
      /\ flash'[currentSector] = flash[currentSector]
      /\ flash'[oth] = ErasedSector
      /\ currentSector \in Bootable'
      /\ \A u \in Bootable' : currentSector <= u
      /\ \A s \in Sectors : IsBoot(s)' <=> s = currentSector
      /\ Holds(flash[currentSector], acked, Settled)
  BY <1>2, Erased, OtherSector DEF CollectSteps
<1>4. Typed'
  BY <1>3 DEF Typed
<1>5. Control' /\ Replacing'
  BY DEF Control, Replacing, FormatSteps, WriteSteps, CollectSteps
<1>6. Newest'
  BY <1>3 DEF Newest, IsBoot
<1>7. Position'
  BY <1>3 DEF Position
<1>8. Preparing'
  BY <1>3 DEF Preparing, FormatSteps
<1>9. Kept'
  <2>1. Settled' = Settled
    BY DEF Settled
  <2> QED BY <1>3, <2>1 DEF Kept, Serving
<1> QED BY <1>3, <1>4, <1>5, <1>6, <1>7, <1>8, <1>9

LEMMA KeepGcPrep ==
  ASSUME IInv, GcPrep
  PROVE  IInv'
<1> USE DEF IInv, GcPrep, Step, counts, ghost
<1> DEFINE oth == Other(currentSector)
           new == Mark(flash[oth], "prep")
<1>1. /\ currentSector \in Sectors /\ oth \in Sectors
      /\ flash \in [Sectors -> SectorStates] /\ writeIndex \in 1 .. LastSlot
  BY Working, Neighbours DEF CollectSteps, Typed
<1>2. /\ flash' = [flash EXCEPT ![oth] = new] /\ new \in SectorStates
      /\ new.hdr = "prep" /\ new.slot = flash[oth].slot
  BY <1>1, FlashSteps
<1>3. flash[oth] = ErasedSector
  BY DEF Preparing
<1>4. Log(new, 1)
  BY <1>2, <1>3, Erased, BlankSector
<1>5. IsCopy(new, 0, flash[currentSector], 0)
  BY CopyStart
<1> HIDE DEF new
<1>6. /\ flash' \in [Sectors -> SectorStates] /\ Sound'
      /\ flash'[currentSector] = flash[currentSector]
      /\ flash'[oth] = new
      /\ currentSector \in Bootable'
      /\ \A u \in Bootable' : currentSector <= u
      /\ \A s \in Sectors : IsBoot(s)' <=> s = currentSector
      /\ Holds(flash[currentSector], acked, Settled)
  BY <1>2, OtherSector DEF CollectSteps
<1>7. Typed'
  BY <1>6 DEF Typed
<1>8. Control' /\ Replacing'
  BY DEF Control, Replacing, FormatSteps, WriteSteps, CollectSteps
<1>9. Newest'
  BY <1>6 DEF Newest, IsBoot
<1>10. Position'
  BY <1>6 DEF Position
<1>11. Preparing'
  <2>1. scan'.src = 1 /\ scan'.dst = 1 /\ scan'.src - 1 = 0 /\ scan'.dst - 1 = 0
    OBVIOUS
  <2>2. Log(flash'[oth], scan'.dst)
    BY <1>4, <1>6, <2>1
  <2>3. IsCopy(flash'[oth], scan'.dst - 1, flash'[currentSector], scan'.src - 1)
    BY <1>5, <1>6, <2>1
  <2>4. 1 <= scan'.dst /\ scan'.dst <= scan'.src /\ scan'.src <= writeIndex
    BY <1>1, <2>1
  <2> HIDE DEF oth
  <2>5. flash'[oth].hdr = "prep" /\ currentSector' = currentSector /\ pc' = "gcCopy"
    BY <1>2, <1>6
  <2> QED BY <2>2, <2>3, <2>4, <2>5 DEF Preparing, FormatSteps, oth
<1>12. Kept'
  <2>1. Settled' = Settled
    BY DEF Settled
  <2> QED BY <1>6, <2>1 DEF Kept, Serving
<1> QED BY <1>6, <1>7, <1>8, <1>9, <1>10, <1>11, <1>12

\* Below the write index the loop steps over every entry.
LEMMA MoreToCopy ==
  ASSUME IInv, pc = "gcCopy"
  PROVE  GcMore <=> scan.src < writeIndex
<1>1. /\ writeIndex \in 1 .. LastSlot /\ Log(flash[currentSector], writeIndex)
      /\ scan.src \in Nat /\ 1 <= scan.src
  BY Working DEF CollectSteps, IInv, Typed, Position, Preparing
<1>2. scan.src < writeIndex =>
        scan.src <= LastSlot /\ scan.src \in Slots
  BY <1>1, Constants
<1> QED BY <1>1, <1>2 DEF GcMore, Log

LEMMA KeepGcCopy ==
  ASSUME IInv, GcCopy
  PROVE  IInv'
<1> USE DEF IInv, GcCopy, counts, ghost
<1> DEFINE oth == Other(currentSector)
           old == flash[currentSector]
           to  == flash[oth]
           src == scan.src
           dst == scan.dst
           e   == old.slot[src]
<1>1. /\ currentSector \in Sectors /\ oth \in Sectors /\ oth # currentSector
      /\ flash \in [Sectors -> SectorStates] /\ writeIndex \in 1 .. LastSlot
      /\ to \in SectorStates /\ old \in SectorStates /\ LogSector(old)
      /\ scan \in [src : Nat, dst : Nat]
  BY Working, Neighbours DEF CollectSteps, Typed
<1>2. /\ 1 <= dst /\ dst <= src /\ src < writeIndex /\ to.hdr = "prep"
      /\ Log(to, dst) /\ IsCopy(to, dst - 1, old, src - 1)
  BY MoreToCopy DEF Preparing
<1>3. src \in 1 .. ScanEnd /\ dst \in 1 .. ScanEnd /\ src \in Slots /\ dst \in Slots
  BY <1>1, <1>2, Constants
<1>4. e \in Entries
  BY <1>1, <1>3 DEF SectorStates
<1> HIDE DEF oth, old, to, src, dst, e
<1>5. /\ e.st # "valid" => IsCopy(to, dst - 1, old, src)
      /\ e.st = "valid" => IsCopy(Put(to, dst, e), dst, old, src)
  <2> DEFINE m == dst - 1
             n == src - 1
  <2>1. m \in 0 .. ScanEnd - 1 /\ n \in 0 .. ScanEnd - 1 /\ m + 1 = dst /\ n + 1 = src
    BY <1>3, Constants
  <2>2. IsCopy(to, m, old, n)
    BY <1>2
  <2> HIDE DEF m, n
  <2>3. /\ old.slot[n + 1].st # "valid" => IsCopy(to, m, old, n + 1)
        /\ old.slot[n + 1].st = "valid" =>
             IsCopy(Put(to, m + 1, old.slot[n + 1]), m + 1, old, n + 1)
    BY <1>1, <2>1, <2>2, CopyStep
  <2> QED BY <2>1, <2>3 DEF m, e
\* What this turn leaves in the new sector.
<1> DEFINE new == IF e.st = "valid" THEN Put(to, dst, e) ELSE to
<1>6. /\ flash' = [flash EXCEPT ![oth] = new] /\ new \in SectorStates
      /\ new.hdr = "prep"
  <2>1. CASE e.st = "valid"
    <3>1. Program(oth, dst, e)
      BY <2>1 DEF oth, old, src, dst, e
    <3> QED BY <1>1, <1>2, <1>3, <1>4, <2>1, <3>1, FlashSteps, PutValue DEF to
  <2>2. CASE e.st # "valid"
    <3>1. flash' = flash
      BY <2>2 DEF old, src, e
    <3> QED BY <1>1, <1>2, <2>2, <3>1 DEF to
  <2> QED BY <2>1, <2>2
<1>7. /\ scan'.src = src + 1 /\ scan' \in [src : Nat, dst : Nat]
      /\ scan'.dst = IF e.st = "valid" THEN dst + 1 ELSE dst
  BY <1>1 DEF old, src, dst, e
<1>8. Log(new, scan'.dst)
  <2>1. CASE e.st = "valid"
    <3>1. Log(Put(to, dst, e), dst + 1)
      <4> DEFINE put == Put(to, dst, e)
      <4>1. put.slot[dst] = e /\ \A k \in Slots : k # dst => put.slot[k] = to.slot[k]
        BY <1>1, <1>3, <1>4, PutValue
      <4> HIDE DEF put
      <4>2. \A k \in Slots : /\ k < dst + 1 => k < dst \/ k = dst
                             /\ k >= dst + 1 => k >= dst /\ k # dst
        BY <1>3, Constants
      <4>3. Log(put, dst + 1)
        BY <1>2, <2>1, <4>1, <4>2 DEF Log
      <4> QED BY <4>3 DEF put
    <3> QED BY <1>7, <2>1, <3>1
  <2>2. CASE e.st # "valid"
    BY <1>2, <1>7, <2>2
  <2> QED BY <2>1, <2>2
<1>9. IsCopy(new, scan'.dst - 1, old, scan'.src - 1)
  <2>1. scan'.src - 1 = src
    BY <1>3, <1>7
  <2>2. scan'.dst - 1 = IF e.st = "valid" THEN dst ELSE dst - 1
    BY <1>3, <1>7
  <2> QED BY <1>5, <2>1, <2>2
<1>10. 1 <= scan'.dst /\ scan'.dst <= scan'.src /\ scan'.src <= writeIndex
  BY <1>1, <1>2, <1>3, <1>7
<1> HIDE DEF new
<1>11. /\ flash' \in [Sectors -> SectorStates] /\ Sound'
       /\ flash'[currentSector] = old
       /\ flash'[oth] = new
       /\ currentSector \in Bootable'
       /\ \A u \in Bootable' : currentSector <= u
       /\ \A s \in Sectors : IsBoot(s)' <=> s = currentSector
       /\ Holds(old, acked, Settled)
  BY <1>6, OtherSector DEF CollectSteps, oth, old
<1>12. Typed'
  BY <1>7, <1>11 DEF Typed
<1>13. Control' /\ Replacing'
  BY DEF Control, Replacing, FormatSteps, WriteSteps, CollectSteps
<1>14. Newest'
  BY <1>11 DEF Newest, IsBoot
<1>15. Position'
  BY <1>11 DEF Position, old
<1>16. Preparing'
  <2>1. pc' = "gcCopy" /\ currentSector' = currentSector /\ writeIndex' = writeIndex
    OBVIOUS
  <2>2. /\ flash'[oth].hdr = "prep" /\ Log(flash'[oth], scan'.dst)
        /\ IsCopy(flash'[oth], scan'.dst - 1, flash'[currentSector], scan'.src - 1)
    BY <1>6, <1>8, <1>9, <1>11
  <2> QED BY <1>10, <2>1, <2>2 DEF Preparing, FormatSteps, oth
<1>17. Kept'
  <2>1. Settled' = Settled
    BY DEF Settled
  <2> QED BY <1>11, <2>1 DEF Kept, Serving
<1> QED BY <1>11, <1>12, <1>13, <1>14, <1>15, <1>16, <1>17

LEMMA KeepGcCopyDone ==
  ASSUME IInv, GcCopyDone
  PROVE  IInv'
<1> USE DEF IInv, GcCopyDone, Step, ram, counts, ghost
<1> DEFINE oth == Other(currentSector)
           old == flash[currentSector]
           to  == flash[oth]
           src == scan.src
           dst == scan.dst
<1>1. /\ currentSector \in Sectors /\ IsBoot(currentSector)
      /\ writeIndex \in 1 .. LastSlot /\ Log(old, writeIndex)
  BY Working DEF CollectSteps, Position
<1>2. /\ 1 <= dst /\ dst <= src /\ src <= writeIndex /\ src >= writeIndex
      /\ src \in Nat /\ dst \in Nat /\ to.hdr = "prep"
      /\ Log(to, dst) /\ IsCopy(to, dst - 1, old, src - 1)
  BY <1>1, MoreToCopy, Constants DEF Preparing, Typed
<1> HIDE DEF oth, old, to, src, dst
<1>3. IsCopy(to, dst - 1, old, LastSlot)
  <2> DEFINE m == dst - 1
             n == src - 1
  <2>1. m \in Nat /\ n \in 0 .. LastSlot
    BY <1>1, <1>2, Constants
  <2>2. \A k \in Slots : k > n => k >= writeIndex
    BY <1>1, <1>2, Constants
  <2>3. IsCopy(to, m, old, n)
    BY <1>2
  <2> HIDE DEF m, n
  <2>4. \A k \in Slots : k > n => old.slot[k].st # "valid"
    BY <1>1, <2>2, BlankEntry DEF Log
  <2>5. IsCopy(to, m, old, LastSlot)
    BY <2>1, <2>3, <2>4, CopyDone
  <2> QED BY <2>5 DEF m
<1>4. Bootable' = Bootable /\ Sound'
  BY FlashKept
<1>5. Typed'
  BY DEF Typed
<1>6. Control' /\ Replacing'
  BY DEF Control, Replacing, FormatSteps, WriteSteps, CollectSteps
<1>7. Newest'
  BY <1>1, <1>4 DEF Newest, IsBoot
<1>8. Position'
  BY DEF Position
<1>9. Preparing'
  <2>1. dst \in 1 .. writeIndex
    BY <1>1, <1>2
  <2> QED BY <1>2, <1>3, <2>1 DEF Preparing, FormatSteps, oth, old, to
<1>10. Kept'
  <2>1. Settled' = Settled
    BY DEF Settled
  <2> QED BY <1>4, <2>1 DEF Kept, Serving, IsBoot
<1> QED BY <1>4, <1>5, <1>6, <1>7, <1>8, <1>9, <1>10

LEMMA KeepGcActivate ==
  ASSUME IInv, GcActivate
  PROVE  IInv'
<1> USE DEF IInv, GcActivate, Step, counts, ghost
<1> DEFINE cur == currentSector
           oth == Other(currentSector)
           old == flash[currentSector]
           to  == flash[oth]
           new == Mark(to, "active")
<1>1. /\ cur \in Sectors /\ cur \in Bootable /\ IsBoot(cur)
      /\ writeIndex \in 1 .. LastSlot /\ old \in SectorStates /\ LogSector(old)
      /\ req.id \in Ids /\ req.val # NoData
      /\ flash \in [Sectors -> SectorStates]
  BY Working DEF CollectSteps, Typed
<1>2. /\ oth \in Sectors /\ oth # cur /\ Previous(oth) = cur /\ to \in SectorStates
      /\ (oth = cur + 1 \/ oth = 0) /\ oth # NoSector
  BY <1>1, Neighbours, Constants
<1>3. PICK n \in 1 .. writeIndex :
        Log(to, n) /\ IsCopy(to, n - 1, old, LastSlot)
  BY DEF Preparing
<1>4. /\ new \in SectorStates /\ new.hdr = "active" /\ new.slot = to.slot
      /\ flash' = [flash EXCEPT ![oth] = new]
  BY <1>1, <1>2, FlashSteps
<1> HIDE DEF new, to, old, oth, cur
<1>5. Log(new, n) /\ IsCopy(new, n - 1, old, LastSlot) /\ n \in 1 .. LastSlot
  BY <1>1, <1>3, <1>4, SameSlots, Constants
<1>6. LogSector(new)
  BY <1>1, <1>4, <1>5, CopySector
<1>7. /\ flash' \in [Sectors -> SectorStates] /\ flash'[oth] = new /\ flash'[cur] = old
      /\ \A s \in Sectors : s # oth => flash'[s] = flash[s]
  BY <1>1, <1>2, <1>4 DEF old, cur
<1>8. /\ oth \in Bootable' /\ cur \in Bootable'
      /\ \A s \in Sectors : s # oth => (s \in Bootable' <=> s \in Bootable)
  <2>1. new.slot[1].st # "zero"
    BY <1>6, Constants DEF LogSector
  <2>2. /\ oth \in Bootable' <=> new.hdr = "active" /\ new.slot[1].st # "zero"
        /\ \A s \in Sectors : s # oth => (s \in Bootable' <=> s \in Bootable)
    BY <1>1, <1>2, <1>4, OneSector
  <2> QED BY <1>1, <1>2, <1>4, <2>1, <2>2
<1>9. Sound'
  BY <1>4, <1>6, <1>7 DEF Sound
<1>10. currentSector' = oth /\ Previous(currentSector') = cur
  BY <1>2 DEF oth
<1>11. Typed'
  BY <1>2, <1>7, <1>10 DEF Typed, NoScan
<1>12. Control' /\ Replacing'
  BY <1>1, <1>2, <1>10, Constants DEF Control, Replacing, FormatSteps, WriteSteps, CollectSteps
<1>13. Newest'
  <2>1. \A s \in Bootable' : s \in Sectors /\ (s = oth \/ s \in Bootable)
    BY <1>8 DEF Bootable
  <2>2. \A s \in Bootable : cur <= s
    BY <1>1 DEF IsBoot
  <2>3. \A s \in Bootable' \ {cur} : oth <= s
    <3> SUFFICES ASSUME NEW s \in Bootable', s # cur PROVE oth <= s
      OBVIOUS
    <3>1. s \in Nat /\ cur \in Nat /\ oth \in Nat
      BY <1>1, <1>2, <2>1, Constants
    <3>2. s # oth => cur <= s
      BY <2>1, <2>2
    <3>3. s # oth => cur + 1 <= s
      BY <3>1, <3>2
    <3> QED BY <1>2, <3>1, <3>3
  <2> QED BY <1>8, <1>10, <2>3 DEF Newest
<1>14. Position'
  BY DEF Position
<1>15. Preparing'
  <2>1. flash'[currentSector'] = new /\ flash'[Previous(currentSector')] = old
        /\ writeIndex' = writeIndex /\ pc' = "gcDrop"
    BY <1>7, <1>10
  <2> QED BY <1>3, <1>5, <2>1 DEF Preparing, FormatSteps
<1>16. Kept'
  <2>1. Settled' = Settled
    BY DEF Settled
  <2>2. Holds(old, acked, Settled)
    BY <1>1 DEF Kept, Serving, old, cur
  <2>3. Holds(new, acked, Settled)
    <3>1. \A id \in Ids :
            /\ Read(new, id) = Read(old, id)
            /\ Valid(old, id) # {} => Valid(new, id) # {}
            /\ (\A j, k \in Valid(old, id) : j = k) => \A j, k \in Valid(new, id) : j = k
      BY <1>1, <1>4, <1>5, CopyReads
    <3> QED BY <2>2, <3>1 DEF Holds
  <2>4. \A s \in Sectors : IsBoot(s)' => s = cur \/ s = oth
    <3> SUFFICES ASSUME NEW s \in Sectors, IsBoot(s)', s # oth
                 PROVE  s = cur
      OBVIOUS
    <3>1. s \in Bootable /\ s <= cur
      BY <1>8 DEF IsBoot
    <3>2. cur <= s
      BY <1>1, <3>1 DEF IsBoot
    <3> QED BY <1>1, <3>1, <3>2, Constants
  <2>5. \A s \in Sectors : Serving(s)' => s = cur \/ s = oth
    BY <1>10, <2>4 DEF Serving
  <2>6. Bootable' # {}
    BY <1>8
  <2> QED BY <1>7, <2>1, <2>2, <2>3, <2>5, <2>6 DEF Kept
<1> QED BY <1>9, <1>11, <1>12, <1>13, <1>14, <1>15, <1>16

\* write() goes on in the new sector, at the end of the copies.
LEMMA DropFinds ==
  ASSUME IInv, GcDrop
  PROVE  /\ \A k \in 1 .. writeIndex' - 1 : flash[currentSector].slot[k].st = "valid"
         /\ Log(flash[currentSector], writeIndex')
         /\ writeIndex' \in 1 .. LastSlot
         /\ pc' = "header" /\ currentSector' = currentSector
         /\ req' = [req EXCEPT !.old = FindEntry(flash[currentSector], req.id)]
         /\ UNCHANGED <<scan, counts, ghost>>
<1> USE DEF IInv, GcDrop
<1> DEFINE cur == currentSector
           prv == Previous(currentSector)
           sec == flash[currentSector]
           old == flash[prv]
           w   == WriteIndexAfter(sec, writeIndex)
<1>1. /\ cur \in Sectors /\ writeIndex \in 1 .. LastSlot
      /\ sec \in SectorStates /\ LogSector(sec)
  BY Working DEF CollectSteps
<1>2. old \in SectorStates /\ LogSector(old)
  BY <1>1, InUse DEF Newest, Typed
<1>3. PICK n \in 1 .. writeIndex : Log(sec, n) /\ IsCopy(sec, n - 1, old, LastSlot)
  BY DEF Preparing
<1>4. n \in 1 .. LastSlot /\ n \in Slots
  BY <1>1, <1>3, Constants
<1>5. \A k \in 1 .. n - 1 : sec.slot[k].st = "valid"
  BY <1>1, <1>2, <1>3, <1>4, CopySector
<1>6. w = n
  <2>1. \A k \in 1 .. ScanEnd : sec.slot[k].st # "torn"
    <3> SUFFICES ASSUME NEW k \in 1 .. ScanEnd PROVE sec.slot[k].st # "torn"
      OBVIOUS
    <3>1. k \in Slots /\ (k < n \/ k >= n)
      BY <1>4, Constants
    <3> QED BY <1>3, <3>1, BlankEntry DEF Log
  <2>2. \/ w \in 1 .. ScanEnd /\ Log(sec, w)
        \/ w = writeIndex /\ Log(sec, LastSlot)
    BY <1>1, <2>1, WalkValue
  <2> HIDE DEF w, sec
  <2>3. CASE w \in 1 .. ScanEnd /\ Log(sec, w)
    BY <1>3, <1>4, <2>3, LogEnds, Constants
  <2>4. CASE w = writeIndex /\ Log(sec, LastSlot)
    <3>1. n = LastSlot
      BY <1>3, <1>4, <2>4, LogEnds, Constants
    <3> QED BY <1>1, <1>3, <2>4, <3>1, Constants
  <2> QED BY <2>2, <2>3, <2>4
<1>7. Sane(sec) /\ n > 0
  BY <1>1, <1>4, Constants DEF LogSector, Sane
<1> QED BY <1>3, <1>4, <1>5, <1>6, <1>7

LEMMA KeepGcDrop ==
  ASSUME IInv, RoomLeft', GcDrop
  PROVE  IInv'
<1> USE DEF IInv, GcDrop, counts, ghost
<1> DEFINE cur == currentSector
           prv == Previous(currentSector)
           sec == flash[currentSector]
<1>1. /\ cur \in Sectors /\ cur \in Bootable /\ cur # NoSector
      /\ sec \in SectorStates /\ LogSector(sec)
      /\ req.id \in Ids /\ req.val # NoData /\ req.val \in 0 .. MaxWrites
      /\ flash \in [Sectors -> SectorStates] /\ Sound
  BY Working DEF CollectSteps, Typed
<1>2. /\ prv \in Sectors /\ prv # cur
      /\ \A s \in Bootable \ {prv} : cur <= s
  BY <1>1, Neighbours DEF Newest
<1>3. /\ \A k \in 1 .. writeIndex' - 1 : sec.slot[k].st = "valid"
      /\ Log(sec, writeIndex') /\ writeIndex' \in 1 .. LastSlot
      /\ pc' = "header" /\ currentSector' = cur
      /\ req' = [req EXCEPT !.old = FindEntry(sec, req.id)]
      /\ UNCHANGED <<scan, writes, acked, dirty, formatting>>
  BY DropFinds
<1>4. FindEntry(sec, req.id) \in 0 .. ScanEnd
  BY <1>1, FindValue
<1>5. writeIndex' <= ScanEnd
  BY <1>3 DEF RoomLeft
<1>6. flash' = [flash EXCEPT ![prv] = ErasedSector]
  BY <1>1, <1>2, FlashSteps
<1> HIDE DEF sec, prv, cur
<1>7. Bootable' = Bootable \ {prv} /\ Sound'
  BY <1>1, <1>2, <1>6, Erased, Hidden
<1>8. flash' \in [Sectors -> SectorStates] /\ flash'[cur] = sec
  BY <1>1, <1>2, <1>6, Erased DEF sec, cur
<1>9. cur \in Bootable' /\ \A u \in Bootable' : cur <= u
  BY <1>1, <1>2, <1>7
<1>10. Typed'
  <2>1. req' \in [id : Ids \cup {NoId}, val : 0 .. MaxWrites, old : 0 .. ScanEnd]
    BY <1>3, <1>4 DEF Typed
  <2>2. /\ writeIndex' \in 0 .. LastSlot
        /\ currentSector' \in Sectors \cup {NoSector}
    BY <1>1, <1>3, Constants
  <2> HIDE DEF GcDrop
  <2> QED BY <1>3, <1>8, <2>1, <2>2 DEF Typed
<1>11. req'.id = req.id /\ req'.val = req.val /\ req'.old = FindEntry(sec, req.id)
  BY <1>3 DEF Typed
<1>12. Control'
  BY <1>1, <1>3, <1>5, <1>11 DEF Control, FormatSteps, WriteSteps, CollectSteps
<1>13. Newest'
  BY <1>3, <1>9 DEF Newest, IsBoot
<1>14. Position'
  BY <1>3, <1>8 DEF Position
<1>15. Preparing'
  BY <1>3 DEF Preparing, FormatSteps
<1>16. Replacing'
  BY <1>3, <1>8, <1>11 DEF Replacing, WriteSteps
<1>17. Kept'
  <2>1. Settled' = Settled
    BY <1>3 DEF Settled
  <2>2. Holds(sec, acked, Settled)
    BY <1>1 DEF Kept, Serving, sec, cur
  <2>3. \A s \in Sectors : Serving(s)' => s = cur
    <3> SUFFICES ASSUME NEW s \in Sectors, IsBoot(s)' PROVE s = cur
      BY <1>3 DEF Serving
    <3>1. s \in Bootable' /\ s <= cur /\ cur <= s
      BY <1>9 DEF IsBoot
    <3> QED BY <1>1, <3>1, Constants
  <2>4. Bootable' # {}
    BY <1>9
  <2> QED BY <1>3, <1>8, <2>1, <2>2, <2>3, <2>4 DEF Kept
<1> QED BY <1>7, <1>10, <1>12, <1>13, <1>14, <1>15, <1>16, <1>17

LEMMA KeepGcFails ==
  ASSUME IInv, GcFails
  PROVE  IInv'
<1> USE DEF IInv, GcFails, Failure, ghost
<1>1. Bootable' = Bootable /\ Sound'
  BY FlashKept
<1>2. IsBoot(currentSector) /\ currentSector \in Sectors /\ currentSector # NoSector
  BY Working DEF CollectSteps
<1>3. Log(flash[currentSector], writeIndex)
  BY DEF Position
<1>4. Typed'
  BY NoRequest DEF Typed, NoScan
<1>5. Control' /\ Preparing' /\ Replacing'
  BY DEF Control, Preparing, Replacing, FormatSteps, WriteSteps, CollectSteps
<1>6. Newest'
  BY <1>1, <1>2 DEF Newest, IsBoot
<1>7. Position'
  <2>1. \A s \in Sectors : IsBoot(s)' => s = currentSector
    BY <1>1, <1>2, BootSector DEF IsBoot
  <2>2. Bootable' # {}
    BY <1>1, <1>2 DEF IsBoot
  <2> QED BY <1>3, <2>1, <2>2 DEF Position
<1>8. Kept'
  <2>1. Settled' = Settled
    BY DEF Settled
  <2> QED BY <1>1, <2>1 DEF Kept, Serving, IsBoot
<1> QED BY <1>1, <1>4, <1>5, <1>6, <1>7, <1>8
-----------------------------------------------------------------------------
\* begin() erases a sector that a reset would not mount.
LEMMA KeepBeginErase ==
  ASSUME IInv, BeginErase
  PROVE  IInv'
<1> USE DEF IInv, BeginErase, counts, ghost
<1> DEFINE x == scan.src
<1>1. x \in Sectors /\ x \notin Bootable /\ flash \in [Sectors -> SectorStates]
      /\ Bootable \subseteq Sectors
  BY Constants DEF Bootable, Typed, Sectors
<1>2. flash' = [flash EXCEPT ![x] = ErasedSector]
  BY <1>1, FlashSteps
<1>3. Bootable' = Bootable /\ Sound'
  <2> HIDE DEF x
  <2>1. Bootable' = Bootable \ {x} /\ Sound'
    BY <1>1, <1>2, Erased, Hidden
  <2> QED BY <1>1, <2>1
<1>4. flash' \in [Sectors -> SectorStates] /\ \A s \in Bootable : flash'[s] = flash[s]
  BY <1>1, <1>2, Erased
<1>5. Typed'
  BY <1>1, <1>4 DEF Typed
<1>6. Control' /\ Preparing' /\ Replacing'
  BY DEF Control, Preparing, Replacing, FormatSteps, WriteSteps, CollectSteps
<1>7. Newest'
  <2>1. scan.src \in Nat /\ scan'.src = scan.src + 1 /\ Bootable \subseteq Nat
    BY <1>1, Constants DEF Typed
  <2>2. \A s \in Bootable : scan.src <= s /\ s # scan.src
    BY <1>1 DEF Newest
  <2> QED BY <1>3, <2>1, <2>2, Constants DEF Newest
<1>8. Position'
  BY <1>3, <1>4 DEF Position, IsBoot
<1>9. Kept'
  <2>1. Settled' = Settled
    BY DEF Settled
  <2> QED BY <1>3, <1>4, <2>1 DEF Kept, Serving, IsBoot
<1> QED BY <1>3, <1>5, <1>6, <1>7, <1>8, <1>9
-----------------------------------------------------------------------------
LEMMA KeepFormatErase ==
  ASSUME IInv, FormatErase
  PROVE  IInv'
<1> USE DEF IInv, FormatErase, Step, ram, counts, ghost
<1>1. flash \in [Sectors -> SectorStates] /\ 0 \in Sectors
  BY Constants DEF Typed
<1>2. flash' = [flash EXCEPT ![0] = ErasedSector]
  BY <1>1, FlashSteps
<1>3. flash' \in [Sectors -> SectorStates] /\ flash'[0] = ErasedSector /\ Sound'
  BY <1>1, <1>2, Erased, Hidden
<1>4. Typed'
  BY <1>3 DEF Typed
<1>5. Control' /\ Newest' /\ Position' /\ Replacing'
  BY DEF Control, Newest, Position, Replacing, FormatSteps, WriteSteps, CollectSteps
<1>6. Preparing'
  BY <1>3 DEF Preparing, FormatSteps
<1>7. Kept'
  <2>1. Settled' = {} /\ \A id \in Ids : acked[id] = NoData
    BY DEF Settled, Preparing, FormatSteps
  <2> QED BY <2>1 DEF Kept, Holds
<1> QED BY <1>3, <1>4, <1>5, <1>6, <1>7

LEMMA KeepFormatPrep ==
  ASSUME IInv, FormatPrep
  PROVE  IInv'
<1> USE DEF IInv, FormatPrep, Step, ram, counts, ghost
<1> DEFINE new == Mark(flash[0], "prep")
<1>1. flash \in [Sectors -> SectorStates] /\ 0 \in Sectors
  BY Constants DEF Typed
<1>2. /\ flash' = [flash EXCEPT ![0] = new] /\ new \in SectorStates /\ new.hdr = "prep"
  BY <1>1, FlashSteps
<1>3. new = [ErasedSector EXCEPT !.hdr = "prep"]
  BY DEF Preparing, Mark
<1> HIDE DEF new
<1>4. flash' \in [Sectors -> SectorStates] /\ flash'[0] = new /\ Sound'
  BY <1>1, <1>2, Hidden
<1>5. Typed'
  BY <1>4 DEF Typed
<1>6. Control' /\ Newest' /\ Position' /\ Replacing'
  BY DEF Control, Newest, Position, Replacing, FormatSteps, WriteSteps, CollectSteps
<1>7. Preparing'
  BY <1>3, <1>4 DEF Preparing, FormatSteps
<1>8. Kept'
  <2>1. Settled' = {} /\ \A id \in Ids : acked[id] = NoData
    BY DEF Settled, Preparing, FormatSteps
  <2> QED BY <2>1 DEF Kept, Holds
<1> QED BY <1>4, <1>5, <1>6, <1>7, <1>8

LEMMA KeepFormatActive ==
  ASSUME IInv, FormatActive
  PROVE  IInv'
<1> USE DEF IInv, FormatActive, Step, counts
<1> DEFINE new == Mark(flash[0], "active")
<1>1. flash \in [Sectors -> SectorStates] /\ 0 \in Sectors
  BY Constants DEF Typed
<1>2. /\ flash' = [flash EXCEPT ![0] = new] /\ new \in SectorStates
      /\ new.hdr = "active" /\ new.slot = flash[0].slot
  BY <1>1, FlashSteps
<1>3. \A k \in Slots : new.slot[k] = Blank
  <2>1. flash[0] = [ErasedSector EXCEPT !.hdr = "prep"]
    BY DEF Preparing
  <2>2. flash[0].slot = ErasedSector.slot
    BY <2>1, Erased DEF SectorStates
  <2> QED BY <1>2, <2>2, Erased
<1> HIDE DEF new
<1>4. LogSector(new) /\ Log(new, 1) /\ \A id \in Ids : Valid(new, id) = {}
  BY <1>3, BlankSector
<1>5. flash' \in [Sectors -> SectorStates] /\ flash'[0] = new
      /\ \A s \in Sectors : s # 0 => flash'[s] = flash[s]
  BY <1>1, <1>2
<1>6. Sound'
  BY <1>4, <1>5 DEF Sound
<1>7. 0 \in Bootable'
  BY <1>1, <1>2, <1>4, <1>5, Constants DEF Bootable, Sane, LogSector
<1>8. Bootable' \subseteq Nat
  BY Constants DEF Bootable
<1>9. \A s \in Sectors : IsBoot(s)' => s = 0
  <2> SUFFICES ASSUME NEW s \in Sectors, IsBoot(s)' PROVE s = 0
    OBVIOUS
  <2>1. s <= 0 /\ s \in Nat
    BY <1>7, Constants DEF IsBoot
  <2> QED BY <2>1
<1>10. Typed'
  <2>1. 1 \in 0 .. LastSlot
    BY Constants
  <2> QED BY <1>1, <1>5, <2>1 DEF Typed
<1>11. Control' /\ Replacing' /\ Preparing'
  BY DEF Control, Replacing, Preparing, FormatSteps, WriteSteps, CollectSteps
<1>12. Newest'
  BY <1>7, <1>8 DEF Newest, IsBoot
<1>13. Position'
  BY <1>4, <1>5, <1>7, <1>9 DEF Position
<1>14. Kept'
  <2>1. \A id \in Ids : acked[id] = NoData
    BY DEF Preparing, FormatSteps
  <2>2. \A id \in Ids : Read(new, id) = NoData
    BY <1>2, <1>4, FindValue
  <2>3. \A values, settled : (\A id \in Ids : values[id] = NoData) =>
          Holds(new, values, settled)
    BY <1>4, <2>2 DEF Holds
  <2>4. \A s \in Sectors : Serving(s)' => s = 0
    BY <1>9 DEF Serving
  <2> QED BY <1>5, <2>1, <2>3, <2>4 DEF Kept
<1> QED BY <1>6, <1>10, <1>11, <1>12, <1>13, <1>14
-----------------------------------------------------------------------------
\* An erase that is cut short leaves nothing that a reset would mount.
LEMMA EraseCut ==
  ASSUME flash \in [Sectors -> SectorStates], NEW x \in Sectors, flash' \in CutErase(x)
  PROVE  \/ flash' = flash
         \/ \E new \in SectorStates : /\ new.hdr # "active" \/ new = ZeroedSector
                                      /\ flash' = [flash EXCEPT ![x] = new]
<1>1. CASE flash' = flash
  BY <1>1
<1>2. CASE flash' = [flash EXCEPT ![x] = ZeroedSector]
  BY <1>2, Erased
<1>3. CASE flash' = [flash EXCEPT ![x].hdr = "erased"]
  <2>1. flash' = [flash EXCEPT ![x] = Mark(flash[x], "erased")]
    BY <1>3 DEF Mark
  <2>2. Mark(flash[x], "erased") \in SectorStates /\ Mark(flash[x], "erased").hdr = "erased"
    BY FlashSteps
  <2> QED BY <2>1, <2>2
<1>4. CASE flash' = [flash EXCEPT ![x] = ErasedSector]
  BY <1>4, Erased
<1> QED BY <1>1, <1>2, <1>3, <1>4 DEF CutErase

LEMMA CrashCases ==
  ASSUME Crash
  PROVE  \/ pc = "fmtErase" /\ flash' \in CutErase(0)
         \/ pc = "gcErase" /\ flash' \in CutErase(Other(currentSector))
         \/ pc = "gcDrop" /\ flash' \in CutErase(Previous(currentSector))
         \/ /\ pc = "begin" /\ scan.src < NbSectors /\ flash[scan.src] = ZeroedSector
            /\ flash' \in CutErase(scan.src)
         \/ /\ pc = "header"
            /\ \E e \in CutHeader(req.id, NoData) : Program(currentSector, writeIndex, e)
         \/ flash' = flash
BY DEF Crash

\* What a power loss leaves: what the sectors that a reset may mount held.
LEMMA CrashLeaves ==
  ASSUME IInv, Crash
  PROVE  /\ flash' \in [Sectors -> SectorStates] /\ Sound'
         /\ Bootable' = {} => \A id \in Ids : acked[id] = NoData
         /\ \A s \in Sectors : IsBoot(s)' => Holds(flash'[s], acked, Settled)
<1> USE DEF IInv
<1>1. flash \in [Sectors -> SectorStates] /\ Sound /\ 0 \in Sectors
  BY Constants DEF Typed
<1>2. CASE flash' = flash
  <2>1. Bootable' = Bootable /\ Sound'
    BY <1>2, FlashKept
  <2> QED BY <1>1, <1>2, <2>1 DEF Kept, Serving, IsBoot
<1>3. CASE pc = "fmtErase" /\ flash' \in CutErase(0) /\ flash' # flash
  <2>1. Settled = {} /\ \A id \in Ids : acked[id] = NoData
    BY <1>3 DEF Settled, Preparing, FormatSteps
  <2>2. PICK new \in SectorStates : /\ new.hdr # "active" \/ new = ZeroedSector
                                    /\ flash' = [flash EXCEPT ![0] = new]
    BY <1>1, <1>3, EraseCut
  <2>3. flash' \in [Sectors -> SectorStates] /\ Sound'
    BY <1>1, <2>2, Hidden
  <2> QED BY <2>1, <2>3 DEF Holds
<1>4. CASE pc = "gcErase" /\ flash' \in CutErase(Other(currentSector)) /\ flash' # flash
  <2> DEFINE oth == Other(currentSector)
  <2>1. oth \in Sectors
    BY <1>4, Working, Neighbours DEF CollectSteps
  <2>2. PICK new \in SectorStates : /\ new.hdr # "active" \/ new = ZeroedSector
                                    /\ flash' = [flash EXCEPT ![oth] = new]
    BY <1>1, <1>4, <2>1, EraseCut
  <2>3. /\ flash' \in [Sectors -> SectorStates] /\ Sound'
        /\ flash'[currentSector] = flash[currentSector]
        /\ currentSector \in Bootable'
        /\ \A s \in Sectors : IsBoot(s)' <=> s = currentSector
        /\ Holds(flash[currentSector], acked, Settled)
    BY <1>4, <2>2, OtherSector DEF CollectSteps
  <2> QED BY <2>3
<1>5. CASE pc = "gcDrop" /\ flash' \in CutErase(Previous(currentSector)) /\ flash' # flash
  <2> DEFINE cur == currentSector
             prv == Previous(currentSector)
  <2>1. cur \in Sectors /\ cur \in Bootable /\ prv \in Sectors /\ prv # cur
    BY <1>5, Working, Neighbours DEF CollectSteps
  <2>2. PICK new \in SectorStates : /\ new.hdr # "active" \/ new = ZeroedSector
                                    /\ flash' = [flash EXCEPT ![prv] = new]
    BY <1>1, <1>5, <2>1, EraseCut
  <2>3. Holds(flash[cur], acked, Settled) /\ \A s \in Bootable \ {prv} : cur <= s
    BY <1>5, <2>1 DEF Kept, Serving, Newest
  <2> HIDE DEF prv, cur
  <2>4. flash' \in [Sectors -> SectorStates] /\ flash'[cur] = flash[cur]
    BY <1>1, <2>1, <2>2
  <2>5. Bootable' = Bootable \ {prv} /\ Sound'
    BY <1>1, <2>1, <2>2, Hidden
  <2>6. cur \in Bootable' /\ \A s \in Bootable' : cur <= s
    BY <2>1, <2>3, <2>5
  <2>7. \A s \in Sectors : IsBoot(s)' => s = cur
    <3> SUFFICES ASSUME NEW s \in Sectors, IsBoot(s)' PROVE s = cur
      OBVIOUS
    <3>1. s <= cur /\ cur <= s
      BY <2>6 DEF IsBoot
    <3> QED BY <2>1, <3>1, Constants
  <2> QED BY <2>3, <2>4, <2>5, <2>6, <2>7
<1>6. CASE /\ pc = "begin" /\ scan.src < NbSectors /\ flash[scan.src] = ZeroedSector
           /\ flash' \in CutErase(scan.src) /\ flash' # flash
  <2> DEFINE x == scan.src
  <2>1. x \in Sectors
    BY <1>6, Constants DEF Typed, Sectors
  <2>2. x \notin Bootable
    BY <1>6, Erased, BlankEntry, Constants DEF Bootable, Sane
  <2>3. PICK new \in SectorStates : /\ new.hdr # "active" \/ new = ZeroedSector
                                    /\ flash' = [flash EXCEPT ![x] = new]
    BY <1>1, <1>6, <2>1, EraseCut
  <2> HIDE DEF x
  <2>4. flash' \in [Sectors -> SectorStates] /\ \A s \in Sectors : s # x => flash'[s] = flash[s]
    BY <1>1, <2>1, <2>3
  <2>5. Bootable' = Bootable \ {x} /\ Sound'
    BY <1>1, <2>1, <2>3, Hidden
  <2>6. Bootable' = Bootable
    BY <2>2, <2>5
  <2>7. \A s \in Sectors : IsBoot(s)' => IsBoot(s) /\ s # x
    BY <2>2, <2>6 DEF IsBoot
  <2> QED BY <2>4, <2>5, <2>6, <2>7 DEF Kept, Serving
<1>7. CASE /\ pc = "header"
           /\ \E e \in CutHeader(req.id, NoData) : Program(currentSector, writeIndex, e)
  <2>1. PICK e \in CutHeader(req.id, NoData) : Program(currentSector, writeIndex, e)
    BY <1>7
  <2> QED BY <1>7, <2>1, HeaderCut
<1> QED BY <1>2, <1>3, <1>4, <1>5, <1>6, <1>7, CrashCases

LEMMA KeepCrash ==
  ASSUME IInv, Crash
  PROVE  IInv'
<1>1. /\ flash' \in [Sectors -> SectorStates] /\ Sound'
      /\ Bootable' = {} => \A id \in Ids : acked[id] = NoData
      /\ \A s \in Sectors : IsBoot(s)' => Holds(flash'[s], acked, Settled)
  BY CrashLeaves
<1>2. /\ currentSector' = NoSector /\ writeIndex' = 0
      /\ pc' = "idle" /\ req' = NoReq /\ scan' = NoScan
      /\ UNCHANGED <<writes, acked, formatting>>
      /\ dirty' = IF pc = "retire" THEN [dirty EXCEPT ![req.id] = TRUE] ELSE dirty
  BY DEF Crash
<1>3. Typed'
  <2>1. dirty' \in [Ids -> BOOLEAN]
    BY <1>2 DEF IInv, Typed
  <2> QED BY <1>1, <1>2, <2>1, NoRequest, Constants DEF IInv, Typed, NoScan
<1>4. Control' /\ Newest' /\ Position' /\ Preparing' /\ Replacing'
  BY <1>2 DEF Control, Newest, Position, Preparing, Replacing,
              FormatSteps, WriteSteps, CollectSteps
<1>5. Settled' = Settled
  BY <1>2 DEF Settled, IInv, Typed
<1>6. Kept'
  BY <1>1, <1>2, <1>5 DEF Kept, Serving
<1> QED BY <1>1, <1>3, <1>4, <1>6 DEF IInv
-----------------------------------------------------------------------------
LEMMA InitHolds == Init => IInv
<1> SUFFICES ASSUME Init PROVE IInv
  OBVIOUS
<1> USE DEF Init
<1>1. \A s \in Sectors : flash[s] = ErasedSector
  OBVIOUS
<1>2. Bootable = {}
  BY <1>1, Erased DEF Bootable
<1>3. Typed
  <2>1. flash \in [Sectors -> SectorStates]
    BY Erased
  <2>2. 0 \in 0 .. MaxWrites /\ 0 \in 0 .. LastSlot
    BY BlankEntry, Constants DEF NoData
  <2>3. acked \in [Ids -> 0 .. MaxWrites] /\ dirty \in [Ids -> BOOLEAN]
    BY BlankEntry
  <2>4. scan \in [src : Nat, dst : Nat]
    BY DEF NoScan
  <2> QED BY <2>1, <2>2, <2>3, <2>4, NoRequest DEF Typed
<1>4. Control /\ Newest /\ Position /\ Preparing /\ Replacing
  BY DEF Control, Newest, Position, Preparing, Replacing,
         FormatSteps, WriteSteps, CollectSteps
<1>5. Sound
  BY <1>1, Erased DEF Sound
<1>6. Kept
  BY <1>2 DEF Kept, Serving, IsBoot
<1> QED BY <1>3, <1>4, <1>5, <1>6 DEF IInv

LEMMA StepKeeps ==
  ASSUME FailPoints \subseteq {"sector", "entry", "retire"},
         IInv, RoomLeft', [Next]_vars
  PROVE  IInv'
<1>1. ~FormatFails
  BY DEF FormatFails, Failure
<1>2. CASE UNCHANGED vars
  BY <1>2, Idle
<1>3. ASSUME NEW id \in Ids, Write(id)
      PROVE  IInv'
  BY <1>3, KeepWrite
<1>4. CASE Next
  BY <1>1, <1>3, <1>4, KeepBegin, KeepBeginSkip, KeepBeginErase, KeepBeginMount,
     KeepBeginNone, KeepFormat, KeepFormatErase, KeepFormatPrep, KeepFormatActive,
     KeepWriteHeader, KeepWritePayload, KeepWriteValidate, KeepWriteRetire,
     KeepWriteRefused, KeepWriteEntryFails, KeepWriteRetireFails,
     KeepGcErase, KeepGcPrep, KeepGcCopy, KeepGcCopyDone, KeepGcActivate,
     KeepGcDrop, KeepGcFails, KeepCrash DEF Next
<1> QED BY <1>2, <1>4

-----------------------------------------------------------------------------
\* How many live entries there are.
LEMMA Counting ==
  ASSUME IsFiniteSet(Ids), NEW sec
  PROVE  /\ IsFiniteSet(LiveSlots(sec)) /\ Cardinality(LiveSlots(sec)) \in Nat
         /\ IsFiniteSet(Held(sec)) /\ Cardinality(Held(sec)) \in Nat
         /\ Cardinality(Held(sec)) <= Cardinality(Ids)
         /\ Cardinality(Ids) \in Nat
<1>1. IsFiniteSet(Slots)
  BY FS_Interval, Constants
<1>2. LiveSlots(sec) \in SUBSET Slots /\ Held(sec) \in SUBSET Ids
  BY DEF LiveSlots, Held
<1>3. IsFiniteSet(LiveSlots(sec))
  BY <1>1, <1>2, FS_Subset
<1>4. IsFiniteSet(Held(sec)) /\ Cardinality(Held(sec)) <= Cardinality(Ids)
  BY <1>2, FS_Subset
<1> QED BY <1>3, <1>4, FS_CardinalityType

LEMMA PutDead ==
  ASSUME NEW sec \in SectorStates, NEW n \in Slots, NEW e \in Entries,
         sec.slot[n].st # "valid", e.st # "valid", NEW spare, Bounded(sec, spare)
  PROVE  Bounded(Put(sec, n, e), spare)
<1> DEFINE new == Put(sec, n, e)
<1>1. new.slot[n] = e /\ \A k \in Slots : k # n => new.slot[k] = sec.slot[k]
  BY PutValue
<1> HIDE DEF new
<1>2. LiveSlots(new) = LiveSlots(sec)
  BY <1>1 DEF LiveSlots
<1>3. \A id : Valid(new, id) = Valid(sec, id)
  BY <1>1, Constants DEF Valid
<1>4. Bounded(new, spare)
  BY <1>2, <1>3 DEF Bounded, Held
<1> QED BY <1>4 DEF new

LEMMA SpareTyped ==
  ASSUME Counted
  PROVE  crashes \in Nat /\ failures \in Nat /\ \A s : Spare(s) \in Nat
BY NvmAssumption DEF Counted, Spare

\* A sector that a step leaves alone stays bounded.
LEMMA CountSame ==
  ASSUME IsFiniteSet(Ids), Counted, flash' = flash,
         crashes' \in 0 .. MaxCrashes, failures' \in 0 .. MaxFailures,
         \A s \in Sectors : Spare(s)' \in Nat /\ Spare(s) <= Spare(s)'
  PROVE  Counted'
<1>1. Bootable' = Bootable /\ Bootable \subseteq Sectors
  BY FlashKept DEF Bootable
<1>2. ASSUME NEW s \in Bootable PROVE Bounded(flash[s], Spare(s)')
  <2>1. /\ Bounded(flash[s], Spare(s)) /\ Spare(s) \in Nat
        /\ Spare(s)' \in Nat /\ Spare(s) <= Spare(s)'
    BY <1>1, SpareTyped DEF Counted
  <2> QED BY <2>1, Counting DEF Bounded
<1> QED BY <1>1, <1>2 DEF Counted

LEMMA CountStep ==
  ASSUME IsFiniteSet(Ids), Counted, flash \in [Sectors -> SectorStates],
         NEW x \in Sectors, NEW new \in SectorStates, flash' = [flash EXCEPT ![x] = new],
         crashes' \in 0 .. MaxCrashes, failures' \in 0 .. MaxFailures,
         \A s \in Sectors : s # x => Spare(s)' \in Nat /\ Spare(s) <= Spare(s)',
         new.hdr = "active" /\ new.slot[1].st # "zero" => Bounded(new, Spare(x)')
  PROVE  Counted'
<1>1. /\ flash'[x] = new
      /\ \A s \in Sectors : s # x => flash'[s] = flash[s]
      /\ \A s \in Sectors : s # x => (s \in Bootable' <=> s \in Bootable)
      /\ x \in Bootable' <=> new.hdr = "active" /\ new.slot[1].st # "zero"
      /\ Bootable' \subseteq Sectors
  BY OneSector
<1>2. ASSUME NEW s \in Sectors, s # x, s \in Bootable'
      PROVE  Bounded(flash'[s], Spare(s)')
  <2>1. /\ Bounded(flash[s], Spare(s)) /\ Spare(s) \in Nat /\ flash'[s] = flash[s]
        /\ Spare(s)' \in Nat /\ Spare(s) <= Spare(s)'
    BY <1>1, <1>2, SpareTyped DEF Counted
  <2>2. Bounded(flash[s], Spare(s)')
    BY <2>1, Counting DEF Bounded
  <2> QED BY <2>1, <2>2
<1>3. x \in Bootable' => Bounded(flash'[x], Spare(x)')
  BY <1>1
<1>4. \A s \in Bootable' : Bounded(flash'[s], Spare(s)')
  BY <1>1, <1>2, <1>3
<1> QED BY <1>4 DEF Counted
-----------------------------------------------------------------------------
LEMMA CountQuiet ==
  ASSUME IInv, Counted, IsFiniteSet(Ids),
         \/ UNCHANGED vars
         \/ Begin \/ BeginSkip \/ BeginMount \/ BeginNone \/ Format
         \/ \E id \in Ids : Write(id)
         \/ WriteRetireFails \/ GcCopyDone \/ GcFails
  PROVE  Counted'
<1>1. crashes \in 0 .. MaxCrashes /\ failures \in 0 .. MaxFailures
      /\ MaxFailures \in Nat /\ MaxCrashes \in Nat
  BY NvmAssumption DEF Counted
<1>2. CASE UNCHANGED vars
  <2>1. flash' = flash /\ UNCHANGED <<crashes, failures, pc, currentSector>>
    BY <1>2 DEF vars, ram, counts
  <2>2. \A s \in Sectors : Spare(s)' \in Nat /\ Spare(s) <= Spare(s)'
    BY <1>1, <2>1 DEF Spare
  <2> QED BY <1>1, <2>1, <2>2, CountSame
<1>3. CASE \/ Begin \/ BeginSkip \/ BeginMount \/ BeginNone \/ Format
           \/ (\E id \in Ids : Write(id)) \/ GcCopyDone
  <2>1. flash' = flash /\ UNCHANGED <<crashes, failures>> /\ pc # "retire"
    BY <1>3 DEF counts, Begin, BeginSkip, BeginMount, BeginNone, Format, Write,
                GcCopyDone, Step
  <2>2. \A s \in Sectors : Spare(s)' \in Nat /\ Spare(s) <= Spare(s)'
    BY <1>1, <2>1 DEF Spare
  <2> QED BY <1>1, <2>1, <2>2, CountSame
<1>4. CASE WriteRetireFails \/ GcFails
  <2>1. flash' = flash /\ crashes' = crashes /\ failures' = failures + 1
        /\ failures < MaxFailures /\ pc' # "retire"
    BY <1>4 DEF WriteRetireFails, GcFails, Failure, Step
  <2>2. failures' \in 0 .. MaxFailures
    BY <1>1, <2>1
  <2>3. \A s \in Sectors : Spare(s)' \in Nat /\ Spare(s) <= Spare(s)'
    BY <1>1, <2>1 DEF Spare
  <2> QED BY <1>1, <2>1, <2>2, <2>3, CountSame
<1> QED BY <1>2, <1>3, <1>4

\* Preparing, filling or erasing a sector that a reset would not mount.
LEMMA CountHidden ==
  ASSUME IInv, Counted, IsFiniteSet(Ids),
         BeginErase \/ FormatErase \/ FormatPrep \/ GcErase \/ GcPrep \/ GcCopy \/ GcDrop
  PROVE  Counted'
<1>1. crashes \in 0 .. MaxCrashes /\ failures \in 0 .. MaxFailures
      /\ flash \in [Sectors -> SectorStates] /\ 0 \in Sectors
  BY Constants DEF Counted, IInv, Typed
<1>2. UNCHANGED <<crashes, failures>> /\ pc # "retire"
  BY DEF BeginErase, FormatErase, FormatPrep, GcErase, GcPrep, GcCopy, GcDrop,
         counts, Step
<1>3. \A s \in Sectors : Spare(s)' \in Nat /\ Spare(s) <= Spare(s)'
  BY <1>1, <1>2, SpareTyped DEF Spare
<1>4. CASE flash' = flash
  BY <1>1, <1>2, <1>3, <1>4, CountSame
<1>5. ASSUME NEW x \in Sectors, NEW new \in SectorStates,
             flash' = [flash EXCEPT ![x] = new], new.hdr # "active"
      PROVE  Counted'
  BY <1>1, <1>2, <1>3, <1>5, CountStep
<1>6. CASE BeginErase
  <2>1. scan.src \in Sectors /\ EraseSector(scan.src)
    BY <1>6, Constants DEF BeginErase, IInv, Typed, Sectors
  <2> QED BY <1>1, <1>5, <2>1, FlashSteps, Erased
<1>7. CASE FormatErase
  BY <1>1, <1>5, <1>7, FlashSteps, Erased DEF FormatErase
<1>8. CASE FormatPrep
  BY <1>1, <1>5, <1>8, FlashSteps DEF FormatPrep
<1>9. CASE GcErase \/ GcPrep \/ GcCopy \/ GcDrop
  <2>1. /\ currentSector \in Sectors /\ flash[currentSector] \in SectorStates
        /\ writeIndex \in 1 .. LastSlot
    BY <1>9, Working DEF GcErase, GcPrep, GcCopy, GcDrop, Step, CollectSteps
  <2>2. Other(currentSector) \in Sectors /\ Previous(currentSector) \in Sectors
    BY <2>1, Neighbours
  <2>3. CASE GcErase
    BY <1>1, <1>5, <2>2, <2>3, FlashSteps, Erased DEF GcErase
  <2>4. CASE GcPrep
    BY <1>1, <1>5, <2>2, <2>4, FlashSteps DEF GcPrep
  <2>5. CASE GcDrop
    BY <1>1, <1>5, <2>2, <2>5, FlashSteps, Erased DEF GcDrop
  <2>6. CASE GcCopy
    <3> DEFINE to == flash[Other(currentSector)]
               e  == flash[currentSector].slot[scan.src]
    <3>1. pc = "gcCopy" /\ GcMore
      BY <2>6 DEF GcCopy
    <3>2. /\ to \in SectorStates /\ to.hdr = "prep"
          /\ 1 <= scan.dst /\ scan.dst <= scan.src /\ scan.src < writeIndex
          /\ scan.dst \in Nat /\ scan.src \in Nat
      BY <1>1, <2>2, <3>1, MoreToCopy DEF IInv, Preparing, Typed
    <3>3. scan.src \in Slots /\ scan.dst \in Slots
      BY <2>1, <3>2, Constants
    <3>4. e \in Entries
      BY <2>1, <3>3 DEF SectorStates
    <3>5. flash' = flash \/ Program(Other(currentSector), scan.dst, e)
      BY <2>6 DEF GcCopy
    <3> HIDE DEF to, e
    <3>6. Put(to, scan.dst, e) \in SectorStates /\ Put(to, scan.dst, e).hdr = "prep"
      BY <3>2, <3>3, <3>4, PutValue
    <3>7. CASE Program(Other(currentSector), scan.dst, e)
      <4>1. flash' = [flash EXCEPT ![Other(currentSector)] = Put(to, scan.dst, e)]
        BY <1>1, <2>2, <3>7, FlashSteps DEF to
      <4> QED BY <1>5, <2>2, <3>6, <4>1
    <3> QED BY <1>4, <3>5, <3>7
  <2> QED BY <1>9, <2>3, <2>4, <2>5, <2>6
<1> QED BY <1>6, <1>7, <1>8, <1>9

LEMMA CountProgrammed ==
  ASSUME IInv, Counted, IsFiniteSet(Ids), WriteHeader \/ WritePayload \/ WriteEntryFails
  PROVE  Counted'
<1>1. /\ crashes \in 0 .. MaxCrashes /\ failures \in 0 .. MaxFailures
      /\ MaxFailures \in Nat /\ flash \in [Sectors -> SectorStates]
  BY NvmAssumption DEF Counted, IInv, Typed
<1>2. /\ crashes' = crashes /\ failures' \in 0 .. MaxFailures /\ failures <= failures'
      /\ pc \in {"header", "payload", "validate"}
  <2>1. CASE WriteHeader \/ WritePayload
    BY <1>1, <2>1 DEF WriteHeader, WritePayload, counts, Step
  <2>2. CASE WriteEntryFails
    BY <1>1, <2>2 DEF WriteEntryFails, Failure
  <2> QED BY <2>1, <2>2
<1>3. \A s \in Sectors : /\ Spare(s)' \in Nat /\ Spare(s) <= Spare(s)'
                         /\ Spare(s) \in Nat
  <2>1. \A s : Spare(s) = crashes + failures + 0
    BY <1>2 DEF Spare
  <2>2. \A s : Spare(s)' = crashes + failures' + 0 \/ Spare(s)' = crashes + failures' + 1
    BY <1>2 DEF Spare
  <2>3. crashes \in Nat /\ failures \in Nat /\ failures' \in Nat
    BY <1>1, <1>2
  <2> QED BY <1>2, <2>1, <2>2, <2>3
<1> DEFINE cur == currentSector
           n   == writeIndex
           sec == flash[cur]
<1>4. /\ cur \in Sectors /\ cur \in Bootable /\ sec \in SectorStates /\ n \in Slots
      /\ req.id \in Ids /\ req.val \in 0 .. MaxWrites
  BY <1>2, Working DEF WriteSteps
<1>5. ASSUME NEW e \in Entries, e.st # "valid", sec.slot[n].st # "valid",
             Program(cur, n, e)
      PROVE  Counted'
  <2> DEFINE new == Put(sec, n, e)
  <2>1. new \in SectorStates /\ flash' = [flash EXCEPT ![cur] = new]
    BY <1>1, <1>4, <1>5, FlashSteps, PutValue
  <2>2. Bounded(sec, Spare(cur)) /\ Spare(cur) \in Nat
        /\ \A s \in Sectors : s = cur => Spare(s)' \in Nat /\ Spare(cur) <= Spare(s)'
    BY <1>3, <1>4 DEF Counted
  <2>3. Bounded(new, Spare(cur))
    BY <1>4, <1>5, <2>2, PutDead
  <2> HIDE DEF new
  <2>4. \A s \in Sectors : s = cur => Bounded(new, Spare(s)')
    BY <2>2, <2>3, Counting DEF Bounded
  <2> HIDE DEF cur
  <2>5. PICK x \in Sectors : x = cur
    BY <1>4
  <2> QED BY <1>1, <1>2, <1>3, <2>1, <2>4, <2>5, CountStep
<1>6. CASE pc = "header"
  <2>1. sec.slot[n].st # "valid" /\ sec.slot[n] = Blank
    BY <1>6, NotRefused, BlankEntry
  <2>2. CASE WriteHeader
    <3>1. Entry(req.id, NoData, "raw") \in Entries
          /\ Entry(req.id, NoData, "raw").st # "valid"
      BY <1>4, BlankEntry DEF Entry, Entries
    <3> QED BY <1>5, <2>1, <2>2, <3>1 DEF WriteHeader
  <2>3. CASE WriteEntryFails
    <3>1. PICK e \in CutHeader(req.id, NoData) : Program(cur, n, e)
      BY <1>6, <2>1, <2>3 DEF WriteEntryFails
    <3>2. e \in Entries /\ e.st # "valid"
      BY <1>4, BlankEntry DEF CutHeader, Entry, Entries
    <3> QED BY <1>5, <2>1, <3>1, <3>2
  <2> QED BY <1>6, <2>2, <2>3 DEF WritePayload, Step
<1>7. CASE pc = "payload" /\ WritePayload
  <2>1. sec.slot[n].st = "raw"
    BY <1>7 DEF IInv, Position
  <2>2. Entry(req.id, req.val, "raw") \in Entries
        /\ Entry(req.id, req.val, "raw").st # "valid"
    BY <1>4 DEF Entry, Entries
  <2> QED BY <1>5, <1>7, <2>1, <2>2 DEF WritePayload
<1>8. CASE pc \in {"payload", "validate"} /\ WriteEntryFails
  <2>1. flash' = flash
    BY <1>8 DEF WriteEntryFails
  <2> QED BY <1>1, <1>2, <1>3, <2>1, CountSame
<1> QED BY <1>2, <1>6, <1>7, <1>8 DEF WriteHeader, WritePayload, Step

LEMMA CountValidated ==
  ASSUME IInv, Counted, IsFiniteSet(Ids), WriteValidate
  PROVE  Counted'
<1> USE DEF IInv, WriteValidate, counts
<1> DEFINE cur == currentSector
           n   == writeIndex
           id  == req.id
           e   == Entry(id, req.val, "valid")
           sec == flash[cur]
           new == Put(sec, n, e)
<1>1. /\ cur \in Sectors /\ cur \in Bootable /\ sec \in SectorStates /\ LogSector(sec)
      /\ id \in Ids /\ req.val \in 0 .. MaxWrites /\ req.val # NoData
      /\ n \in 1 .. ScanEnd /\ n \in Slots /\ flash \in [Sectors -> SectorStates]
      /\ crashes \in 0 .. MaxCrashes /\ failures \in 0 .. MaxFailures
  BY Working, Constants DEF WriteSteps, CollectSteps, Control, Typed, Counted
<1>2. Log(sec, n + 1) /\ sec.slot[n].st = "raw"
  BY DEF Position
<1>3. /\ e \in Entries /\ e.st = "valid" /\ Proper(e) /\ e.id = id
  BY <1>1 DEF Entry, Entries, Proper
<1>4. /\ new \in SectorStates /\ new.slot[n] = e
      /\ \A k \in Slots : k # n => new.slot[k] = sec.slot[k]
      /\ flash' = [flash EXCEPT ![cur] = new]
  BY <1>1, <1>3, FlashSteps, PutValue
<1>5. /\ Valid(new, id) = Valid(sec, id) \cup {n}
      /\ req.old = 0 => Valid(sec, id) = {}
      /\ \A i \in Ids : i # id => Valid(new, i) = Valid(sec, i)
  <2>1. req.old = FindEntry(sec, id)
    BY DEF Replacing, WriteSteps
  <2> HIDE DEF e, sec, id, n, cur, IInv, WriteValidate
  <2>2. /\ Valid(new, e.id) = Valid(sec, e.id) \cup {n}
        /\ \A k \in Valid(sec, e.id) : k < n
        /\ FindEntry(sec, e.id) = 0 =>
             Valid(sec, e.id) = {} /\ Read(new, e.id) = e.val
        /\ FindEntry(sec, e.id) # 0 =>
             /\ FindEntry(sec, e.id) \in Valid(sec, e.id)
             /\ FindEntry(new, e.id) = FindEntry(sec, e.id)
        /\ \A i \in Ids : i # e.id => /\ Valid(new, i) = Valid(sec, i)
                                      /\ Read(new, i) = Read(sec, i)
    BY <1>1, <1>2, <1>3, Validated
  <2> QED BY <1>3, <2>1, <2>2
<1> HIDE DEF new, sec, e
<1>6. LiveSlots(new) = LiveSlots(sec) \cup {n} /\ n \notin LiveSlots(sec)
  BY <1>1, <1>2, <1>3, <1>4 DEF LiveSlots
<1>7. Held(new) = Held(sec) \cup {id} /\ (req.old = 0 => id \notin Held(sec))
  BY <1>1, <1>5 DEF Held
<1>8. /\ UNCHANGED <<crashes, failures>> /\ currentSector' = cur /\ pc = "validate"
      /\ pc' = IF req.old = 0 THEN "idle" ELSE "retire"
  OBVIOUS
<1>9. /\ \A s \in Sectors : s # cur => Spare(s)' \in Nat /\ Spare(s) <= Spare(s)'
      /\ Spare(cur) \in Nat
      /\ \A s \in Sectors : s = cur =>
           Spare(s)' = IF req.old = 0 THEN Spare(cur) ELSE Spare(cur) + 1
  BY <1>1, <1>8 DEF Spare
<1>10. Bounded(sec, Spare(cur))
  BY <1>1 DEF Counted, sec
<1>11. Cardinality(LiveSlots(new)) = Cardinality(LiveSlots(sec)) + 1
  BY <1>6, Counting, FS_AddElement
<1>12. /\ req.old = 0 => Cardinality(Held(new)) = Cardinality(Held(sec)) + 1
       /\ Cardinality(Held(new)) >= Cardinality(Held(sec))
  <2>1. Cardinality(Held(new)) =
          IF id \in Held(sec) THEN Cardinality(Held(sec)) ELSE Cardinality(Held(sec)) + 1
    BY <1>7, Counting, FS_AddElement
  <2> QED BY <1>7, <2>1, Counting
<1>13. \A s \in Sectors : s = cur => Bounded(new, Spare(s)')
  <2>1. /\ Cardinality(LiveSlots(sec)) \in Nat /\ Cardinality(Held(sec)) \in Nat
        /\ Cardinality(Held(new)) \in Nat
        /\ Cardinality(LiveSlots(sec)) <= Cardinality(Held(sec)) + Spare(cur)
    BY <1>10, Counting DEF Bounded
  <2> QED BY <1>9, <1>11, <1>12, <2>1 DEF Bounded
<1> HIDE DEF cur
<1>14. PICK x \in Sectors : x = cur
  BY <1>1
<1> QED BY <1>1, <1>4, <1>8, <1>9, <1>13, <1>14, CountStep

LEMMA CountRetired ==
  ASSUME IInv, Counted, IsFiniteSet(Ids), WriteRetire
  PROVE  Counted'
<1> USE DEF IInv, WriteRetire, Step, counts
<1> DEFINE cur == currentSector
           n   == writeIndex - 1
           id  == req.id
           sec == flash[cur]
           d   == [sec.slot[req.old] EXCEPT !.st = "dead"]
           new == Put(sec, req.old, d)
<1>1. /\ cur \in Sectors /\ cur \in Bootable /\ sec \in SectorStates /\ LogSector(sec)
      /\ id \in Ids /\ writeIndex \in 1 .. LastSlot /\ writeIndex \in Slots
      /\ flash \in [Sectors -> SectorStates]
      /\ crashes \in 0 .. MaxCrashes /\ failures \in 0 .. MaxFailures
  BY Working DEF WriteSteps, CollectSteps, Typed, Counted
<1>2. /\ req.old = FindEntry(sec, id) /\ req.old \in 0 .. ScanEnd
      /\ 0 < req.old /\ req.old < n /\ sec.slot[n] = Entry(id, req.val, "valid")
      /\ Log(sec, writeIndex)
  BY DEF Replacing, WriteSteps, Typed, Position
<1>3. /\ req.old \in 1 .. ScanEnd /\ req.old < writeIndex /\ req.old \in Slots
      /\ n \in 1 .. ScanEnd /\ n # req.old
  BY <1>1, <1>2, Constants
<1>4. req.old \in Valid(sec, id)
  BY <1>1, <1>2, FindValue
<1>5. sec.slot[req.old].st = "valid" /\ sec.slot[req.old] \in Entries
  BY <1>1, <1>3, <1>4 DEF Valid, SectorStates
<1>6. d \in Entries /\ d.st = "dead"
  BY <1>5 DEF Entries
<1>7. Program(cur, req.old, d)
  BY <1>1, <1>3 DEF Program, SectorStates
<1> HIDE DEF n, d
<1>8. /\ new \in SectorStates /\ new.slot[req.old] = d
      /\ \A k \in Slots : k # req.old => new.slot[k] = sec.slot[k]
      /\ flash' = [flash EXCEPT ![cur] = new]
  <2>1. flash' = [flash EXCEPT ![cur] = new]
    <3>1. \A k, e : Program(cur, k, e) => flash' = [flash EXCEPT ![cur] = Put(flash[cur], k, e)]
      BY <1>1, FlashSteps
    <3> HIDE DEF cur
    <3>2. flash' = [flash EXCEPT ![cur] = Put(flash[cur], req.old, d)]
      BY <1>7, <3>1
    <3> QED BY <3>2
  <2> HIDE DEF sec
  <2>2. /\ new \in SectorStates /\ new.slot[req.old] = d
        /\ \A k \in Slots : k # req.old => new.slot[k] = sec.slot[k]
    BY <1>1, <1>3, <1>6, PutValue
  <2> QED BY <2>1, <2>2
<1>9. \A i \in Ids : Valid(new, i) = Valid(sec, i) \ {req.old}
  BY <1>1, <1>2, <1>3, <1>6, Retired
<1>10. \A i \in Ids : i # id => Valid(new, i) = Valid(sec, i)
  BY <1>4, <1>9 DEF Valid
<1> HIDE DEF new
<1>11. n \in Valid(new, id)
  <2>1. n \in Valid(sec, id)
    BY <1>2, <1>3 DEF Valid, Entry
  <2> QED BY <1>1, <1>3, <1>9, <2>1
<1>12. Held(new) = Held(sec)
  BY <1>1, <1>4, <1>10, <1>11 DEF Held
<1>13. LiveSlots(new) = LiveSlots(sec) \ {req.old} /\ req.old \in LiveSlots(sec)
  BY <1>3, <1>5, <1>6, <1>8 DEF LiveSlots
<1> HIDE DEF sec
<1>14. Cardinality(LiveSlots(new)) = Cardinality(LiveSlots(sec)) - 1
  BY <1>13, Counting, FS_RemoveElement
<1>15. UNCHANGED <<crashes, failures, currentSector>> /\ pc = "retire" /\ pc' = "idle"
  OBVIOUS
<1>16. /\ \A s \in Sectors : s # cur => Spare(s)' \in Nat /\ Spare(s) <= Spare(s)'
       /\ Spare(cur) = crashes + failures + 1
       /\ \A s \in Sectors : s = cur => Spare(s)' = crashes + failures + 0
  BY <1>1, <1>15 DEF Spare
<1>17. \A s \in Sectors : s = cur => Bounded(new, Spare(s)')
  <2>1. /\ Cardinality(LiveSlots(sec)) \in Nat /\ Cardinality(Held(sec)) \in Nat
        /\ Cardinality(LiveSlots(sec)) <= Cardinality(Held(sec)) + Spare(cur)
    BY <1>1, Counting DEF Counted, Bounded, sec
  <2>2. Cardinality(Held(new)) = Cardinality(Held(sec))
    BY <1>12
  <2>3. crashes \in Nat /\ failures \in Nat
    BY <1>1
  <2> QED BY <1>14, <1>16, <2>1, <2>2, <2>3 DEF Bounded
<1> HIDE DEF cur
<1>18. PICK x \in Sectors : x = cur
  BY <1>1
<1> QED BY <1>1, <1>8, <1>15, <1>16, <1>17, <1>18, CountStep

LEMMA CountFormatted ==
  ASSUME IInv, Counted, IsFiniteSet(Ids), FormatActive
  PROVE  Counted'
<1> USE DEF FormatActive, Step, counts
<1> DEFINE new == Mark(flash[0], "active")
<1>1. /\ flash \in [Sectors -> SectorStates] /\ 0 \in Sectors
      /\ crashes \in 0 .. MaxCrashes /\ failures \in 0 .. MaxFailures
  BY Constants DEF IInv, Typed, Counted
<1>2. /\ flash' = [flash EXCEPT ![0] = new] /\ new \in SectorStates
      /\ new.slot = flash[0].slot
  BY <1>1, FlashSteps
<1>3. \A k \in Slots : new.slot[k] = Blank
  <2>1. flash[0] = [ErasedSector EXCEPT !.hdr = "prep"]
    BY DEF IInv, Preparing
  <2>2. flash[0].slot = ErasedSector.slot
    BY <2>1, Erased DEF SectorStates
  <2> QED BY <1>2, <2>2, Erased
<1> HIDE DEF new
<1>4. \A s \in Sectors : Spare(s)' \in Nat /\ Spare(s) <= Spare(s)'
  BY <1>1 DEF Spare
<1>5. Bounded(new, Spare(0)')
  <2>1. LiveSlots(new) = {}
    BY <1>3, BlankEntry DEF LiveSlots
  <2>2. Cardinality(LiveSlots(new)) = 0
    BY <2>1, FS_EmptySet
  <2> QED BY <1>1, <1>4, <2>2, Counting DEF Bounded
<1> QED BY <1>1, <1>2, <1>4, <1>5, CountStep

\* The collector copies live entries one for one.
LEMMA CopyBounded ==
  ASSUME IsFiniteSet(Ids), NEW new \in SectorStates, NEW old \in SectorStates,
         LogSector(old), NEW n \in 1 .. LastSlot, Log(new, n),
         IsCopy(new, n - 1, old, LastSlot), NEW spare \in Nat, Bounded(old, spare)
  PROVE  Bounded(new, spare)
<1> DEFINE m == n - 1
<1>1. /\ LastSlot \in Nat /\ Slots = 1 .. LastSlot /\ m \in Nat
      /\ \A k \in Slots : k \in 1 .. m \/ k >= n
      /\ 1 .. m \subseteq Slots
  BY Constants
<1> HIDE DEF m
<1>2. PICK f \in [1 .. m -> 1 .. LastSlot] :
        /\ \A j, k \in 1 .. m : j < k => f[j] < f[k]
        /\ \A k \in 1 .. m : old.slot[f[k]].st = "valid"
  BY DEF IsCopy, m
<1>3. LiveSlots(new) \subseteq 1 .. m
  BY <1>1, BlankEntry DEF LiveSlots, Log
<1>4. f \in Injection(1 .. m, LiveSlots(old))
  <2>1. f \in [1 .. m -> LiveSlots(old)]
    BY <1>1, <1>2 DEF LiveSlots
  <2>2. ASSUME NEW j \in 1 .. m, NEW k \in 1 .. m, f[j] = f[k]
        PROVE  j = k
    <3>1. ~(j < k) /\ ~(k < j)
      BY <1>2, <2>2
    <3> QED BY <3>1
  <2> QED BY <2>1, <2>2 DEF Injection, IsInjective
<1>5. /\ IsFiniteSet(1 .. m)
      /\ Cardinality(1 .. m) <= Cardinality(LiveSlots(old))
  BY <1>4, Counting, FS_Injection
<1>6. Cardinality(LiveSlots(new)) <= Cardinality(1 .. m)
  BY <1>3, <1>5, FS_Subset
<1>7. Held(old) \subseteq Held(new)
  BY CopyReads DEF Held
<1>8. Cardinality(Held(old)) <= Cardinality(Held(new))
  BY <1>7, Counting, FS_Subset
<1>9. Cardinality(1 .. m) \in Nat
  BY <1>5, FS_CardinalityType
<1> QED BY <1>5, <1>6, <1>8, <1>9, Counting DEF Bounded

LEMMA CountActivated ==
  ASSUME IInv, Counted, IsFiniteSet(Ids), GcActivate
  PROVE  Counted'
<1> USE DEF GcActivate, Step, counts
<1> DEFINE cur == currentSector
           oth == Other(currentSector)
           old == flash[currentSector]
           to  == flash[oth]
           new == Mark(to, "active")
<1>1. /\ cur \in Sectors /\ cur \in Bootable
      /\ writeIndex \in 1 .. LastSlot /\ old \in SectorStates /\ LogSector(old)
      /\ flash \in [Sectors -> SectorStates]
      /\ crashes \in 0 .. MaxCrashes /\ failures \in 0 .. MaxFailures
  BY Working DEF CollectSteps, IInv, Typed, Counted
<1>2. oth \in Sectors
  BY <1>1, Neighbours
<1>3. PICK n \in 1 .. writeIndex : Log(to, n) /\ IsCopy(to, n - 1, old, LastSlot)
  BY DEF IInv, Preparing
<1>4. /\ new \in SectorStates /\ new.slot = to.slot
      /\ flash' = [flash EXCEPT ![oth] = new]
  BY <1>1, <1>2, FlashSteps
<1>5. Spare(cur) = crashes + failures + 0 /\ Bounded(old, Spare(cur))
  BY <1>1 DEF Spare, Counted
<1>6. \A s \in Sectors : /\ Spare(s) = crashes + failures + 0
                         /\ Spare(s)' = crashes + failures + 0
  BY DEF Spare
<1> HIDE DEF new, to, old, oth, cur
<1>7. Log(new, n) /\ IsCopy(new, n - 1, old, LastSlot) /\ n \in 1 .. LastSlot
  BY <1>1, <1>3, <1>4, SameSlots, Constants
<1>8. Spare(cur) \in Nat /\ \A s \in Sectors : Spare(s)' \in Nat /\ Spare(s) <= Spare(s)'
  BY <1>1, <1>5, <1>6
<1>9. Bounded(new, Spare(cur))
  BY <1>1, <1>4, <1>5, <1>7, <1>8, CopyBounded
<1>10. PICK x \in Sectors : x = oth
  BY <1>2
<1>11. Bounded(new, Spare(x)')
  BY <1>5, <1>6, <1>9
<1> QED BY <1>1, <1>4, <1>8, <1>10, <1>11, CountStep

LEMMA CountCrash ==
  ASSUME IInv, Counted, IsFiniteSet(Ids), Crash
  PROVE  Counted'
<1>1. /\ crashes \in 0 .. MaxCrashes /\ failures \in 0 .. MaxFailures
      /\ MaxCrashes \in Nat /\ flash \in [Sectors -> SectorStates] /\ 0 \in Sectors
  BY NvmAssumption, Constants DEF Counted, IInv, Typed
<1>2. /\ crashes' = crashes + 1 /\ crashes' \in 0 .. MaxCrashes /\ failures' = failures
      /\ pc' = "idle"
  BY <1>1 DEF Crash
<1>3. \A s \in Sectors : Spare(s) \in Nat /\ Spare(s)' \in Nat /\ Spare(s) <= Spare(s)'
  BY <1>1, <1>2 DEF Spare
<1>4. CASE flash' = flash
  BY <1>1, <1>2, <1>3, <1>4, CountSame
<1>5. ASSUME NEW x \in Sectors, flash' \in CutErase(x)
      PROVE  Counted'
  <2>1. CASE flash' = flash
    BY <1>4, <2>1
  <2>2. CASE flash' # flash
    <3>1. PICK new \in SectorStates : /\ new.hdr # "active" \/ new = ZeroedSector
                                      /\ flash' = [flash EXCEPT ![x] = new]
      BY <1>1, <1>5, <2>2, EraseCut
    <3>2. ~(new.hdr = "active" /\ new.slot[1].st # "zero")
      BY <3>1, Erased, BlankEntry, Constants
    <3> QED BY <1>1, <1>2, <1>3, <3>1, <3>2, CountStep
  <2> QED BY <2>1, <2>2
<1>6. ASSUME pc = "header", NEW e \in CutHeader(req.id, NoData),
             Program(currentSector, writeIndex, e)
      PROVE  Counted'
  <2> DEFINE cur == currentSector
             n   == writeIndex
             sec == flash[cur]
             new == Put(sec, n, e)
  <2>1. /\ cur \in Sectors /\ cur \in Bootable /\ sec \in SectorStates /\ n \in Slots
        /\ req.id \in Ids /\ sec.slot[n] = Blank
    BY <1>6, Working, NotRefused DEF WriteSteps
  <2>2. e \in Entries /\ e.st # "valid" /\ sec.slot[n].st # "valid"
    BY <2>1, BlankEntry DEF CutHeader, Entry, Entries
  <2>3. new \in SectorStates /\ flash' = [flash EXCEPT ![cur] = new]
    BY <1>1, <1>6, <2>1, <2>2, FlashSteps, PutValue
  <2>4. Bounded(sec, Spare(cur))
    BY <2>1 DEF Counted
  <2>5. Bounded(new, Spare(cur))
    BY <2>1, <2>2, <2>4, PutDead
  <2> HIDE DEF new, sec, cur
  <2>6. PICK x \in Sectors : x = cur
    BY <2>1
  <2>7. Bounded(new, Spare(x)')
    <3>1. Spare(x) \in Nat /\ Spare(x)' \in Nat /\ Spare(x) <= Spare(x)'
          /\ Bounded(new, Spare(x))
      BY <1>3, <2>5, <2>6
    <3> QED BY <3>1, Counting DEF Bounded
  <2> QED BY <1>1, <1>2, <1>3, <2>3, <2>6, <2>7, CountStep
<1>7. pc \in {"gcErase", "gcDrop"} => /\ Other(currentSector) \in Sectors
                                      /\ Previous(currentSector) \in Sectors
  BY Working, Neighbours DEF CollectSteps
<1>8. pc = "begin" /\ scan.src < NbSectors => scan.src \in Sectors
  BY Constants DEF IInv, Typed, Sectors
<1> QED BY <1>1, <1>4, <1>5, <1>6, <1>7, <1>8, CrashCases
-----------------------------------------------------------------------------
LEMMA CountKeeps ==
  ASSUME FailPoints \subseteq {"sector", "entry", "retire"}, IsFiniteSet(Ids),
         IInv, Counted, [Next]_vars
  PROVE  Counted'
<1>1. ~FormatFails /\ ~WriteRefused
  BY NotRefused DEF FormatFails, Failure, WriteRefused, Step
<1> QED BY <1>1, CountQuiet, CountHidden, CountProgrammed, CountValidated,
           CountRetired, CountFormatted, CountActivated, CountCrash DEF Next

\* With so many slots, a collection leaves one that findEntry scans.
LEMMA RoomKept ==
  ASSUME Capacity, IInv, Counted, [Next]_vars
  PROVE  RoomLeft'
<1> SUFFICES ASSUME pc' = "header" PROVE writeIndex' <= ScanEnd
  BY DEF RoomLeft
<1>1. CASE UNCHANGED vars
  BY <1>1 DEF vars, ram, IInv, Control
<1>2. ASSUME NEW id \in Ids, Write(id)
      PROVE  writeIndex' <= ScanEnd
  <2>1. writeIndex' = writeIndex /\ ~(writeIndex >= GcAt) /\ writeIndex \in Nat
    BY <1>2, Constants DEF Write, IInv, Typed
  <2> QED BY <2>1, Constants
<1>3. CASE GcDrop
  <2> DEFINE sec == flash[currentSector]
             m   == writeIndex' - 1
             bound == Cardinality(Ids) + MaxCrashes + MaxFailures
  <2>1. /\ currentSector \in Bootable /\ pc = "gcDrop"
    BY <1>3, Working DEF CollectSteps, GcDrop
  <2>2. /\ \A k \in 1 .. m : sec.slot[k].st = "valid"
        /\ writeIndex' \in 1 .. LastSlot
    BY <1>3, DropFinds
  <2>3. /\ m \in 0 .. ScanEnd /\ writeIndex' = m + 1 /\ ScanEnd \in Nat
    <3>1. LastSlot \in Nat /\ ScanEnd \in Nat /\ LastSlot = ScanEnd + 1
      BY Constants
    <3>2. ASSUME NEW w \in 1 .. LastSlot
          PROVE  w - 1 \in 0 .. ScanEnd /\ w = w - 1 + 1
      BY <3>1
    <3> QED BY <2>2, <3>1, <3>2
  <2> HIDE DEF sec, m
  <2>12. 1 .. m \subseteq Slots
    BY <2>3, Constants
  <2>4. 1 .. m \subseteq LiveSlots(sec)
    BY <2>2, <2>12 DEF LiveSlots
  <2>5. Cardinality(1 .. m) = m
    <3>1. m \in Int /\ 1 \in Int
      BY <2>3
    <3>2. Cardinality(1 .. m) = IF 1 > m THEN 0 ELSE m - 1 + 1
      BY <3>1, FS_Interval
    <3>3. m \in Nat /\ (1 > m => m = 0) /\ m - 1 + 1 = m
      BY <2>3
    <3> QED BY <3>2, <3>3
  <2>6. m <= Cardinality(LiveSlots(sec))
    <3>1. IsFiniteSet(LiveSlots(sec))
      BY Counting DEF Capacity
    <3>2. Cardinality(1 .. m) <= Cardinality(LiveSlots(sec))
      BY <2>4, <3>1, FS_Subset
    <3> QED BY <2>5, <3>2
  <2>7. Spare(currentSector) = crashes + failures + 0 /\ Bounded(sec, Spare(currentSector))
    BY <2>1 DEF Spare, Counted, sec
  <2>8. /\ crashes \in Nat /\ failures \in Nat /\ crashes <= MaxCrashes
        /\ failures <= MaxFailures /\ MaxCrashes \in Nat /\ MaxFailures \in Nat
    BY NvmAssumption DEF Counted
  <2>9. /\ Cardinality(LiveSlots(sec)) <= Cardinality(Held(sec)) + (crashes + failures + 0)
        /\ Cardinality(LiveSlots(sec)) \in Nat /\ Cardinality(Held(sec)) \in Nat
        /\ Cardinality(Held(sec)) <= Cardinality(Ids) /\ Cardinality(Ids) \in Nat
    BY <2>7, Counting DEF Bounded, Capacity
  <2>10. Cardinality(Ids) + MaxCrashes + MaxFailures < ScanEnd
    BY DEF Capacity
  <2>11. m < ScanEnd
    BY <2>3, <2>6, <2>8, <2>9, <2>10
  <2> QED BY <2>3, <2>11
<1>4. CASE Next /\ ~GcDrop /\ \A id \in Ids : ~Write(id)
  BY <1>4 DEF Next, Step, Begin, BeginSkip, BeginErase, BeginMount, BeginNone,
       Format, FormatErase, FormatPrep, FormatActive, FormatFails,
       WriteHeader, WritePayload, WriteValidate, WriteRetire, WriteRefused,
       WriteEntryFails, WriteRetireFails, GcErase, GcPrep, GcCopy,
       GcCopyDone, GcActivate, GcFails, Crash
<1> QED BY <1>1, <1>2, <1>3, <1>4

\* The invariant holds in every run of a store that is not full.
LEMMA Invariant ==
  ASSUME FailPoints \subseteq {"sector", "entry", "retire"}
  PROVE  Spec /\ []RoomLeft => []IInv
<1>1. Init => IInv
  BY InitHolds
<1>2. IInv /\ RoomLeft' /\ [Next]_vars => IInv'
  BY StepKeeps
<1> QED BY <1>1, <1>2, PTL DEF Spec

(***************************************************************************)
(* An entry goes where findEntry looks for it, in every run of a store     *)
(* that has a slot for every id and one for every power loss and every     *)
(* failed write: _writeIndex, after a collection, leaves the last slot.    *)
(***************************************************************************)
THEOREM RoomAlwaysLeft ==
  ASSUME FailPoints \subseteq {"sector", "entry", "retire"}, Capacity
  PROVE  Spec => []RoomLeft
<1>1. Init => IInv /\ Counted /\ RoomLeft
  <2> SUFFICES ASSUME Init PROVE IInv /\ Counted /\ RoomLeft
    OBVIOUS
  <2>1. IInv /\ pc = "idle"
    BY InitHolds DEF Init
  <2>2. Bootable = {}
    BY Erased, Constants DEF Init, Bootable
  <2> QED BY <2>1, <2>2, NvmAssumption DEF Counted, RoomLeft, Init
<1>2. IInv /\ Counted /\ [Next]_vars => IInv' /\ Counted' /\ RoomLeft'
  BY RoomKept, StepKeeps, CountKeeps DEF Capacity
<1> QED BY <1>1, <1>2, PTL DEF Spec
-----------------------------------------------------------------------------
LEMMA TypesFollow == IInv => TypeOK
<1> SUFFICES ASSUME IInv PROVE TypeOK
  OBVIOUS
<1>1. Typed
  BY DEF IInv
<1>2. writeIndex \in 0 .. LastSlot + 1
  BY <1>1, Constants DEF Typed
<1>3. flash \in [Sectors -> [hdr : {"erased", "prep", "active"},
        slot : [Slots -> [id : Ids \cup {NoId}, val : 0 .. MaxWrites,
                          st : {"blank", "torn", "raw", "valid", "dead", "zero"}]]]]
  BY <1>1 DEF Typed, SectorStates, Entries
<1> QED BY <1>1, <1>2, <1>3 DEF Typed, TypeOK

\* What the sectors that serve reads have to say.
LEMMA BootFollows == IInv => BootFindsCurrent
<1> SUFFICES ASSUME IInv, currentSector # NoSector, pc # "begin", NEW id \in Ids
             PROVE  AtBoot(id) = Read(flash[currentSector], id)
  BY DEF BootFindsCurrent
<1>1. CASE pc # "gcDrop"
  <2>1. IsBoot(currentSector)
    BY <1>1 DEF IInv, Newest
  <2> QED BY <2>1, BootSector
<1>2. CASE pc = "gcDrop"
  <2> DEFINE cur == currentSector
             prv == Previous(currentSector)
             new == flash[cur]
             old == flash[prv]
  <2>1. /\ cur \in Bootable /\ new \in SectorStates /\ writeIndex \in 1 .. LastSlot
    BY <1>2, Working DEF CollectSteps
  <2>2. prv \in Bootable /\ \A s \in Bootable \ {prv} : cur <= s
    BY <1>2 DEF IInv, Newest
  <2>3. old \in SectorStates /\ LogSector(old)
    BY <2>2, InUse DEF IInv, Typed
  <2>4. PICK n \in 1 .. writeIndex : Log(new, n) /\ IsCopy(new, n - 1, old, LastSlot)
    BY <1>2 DEF IInv, Preparing
  <2>5. n \in 1 .. LastSlot
    BY <2>1, <2>4, Constants
  <2>6. Read(new, id) = Read(old, id)
    BY <2>1, <2>3, <2>4, <2>5, CopyReads
  <2>7. PICK s \in Sectors : IsBoot(s)
    BY <2>1, BootExists
  <2>8. s = prv \/ s = cur
    <3>1. s \in Bootable /\ s <= cur /\ (s # prv => cur <= s)
      BY <2>1, <2>2, <2>7 DEF IsBoot
    <3>2. s \in Nat /\ cur \in Nat
      BY <2>1, Constants DEF Bootable
    <3> QED BY <3>1, <3>2
  <2> QED BY <2>6, <2>7, <2>8, BootSector
<1> QED BY <1>1, <1>2

LEMMA NothingLost == IInv => NeverLost
<1> SUFFICES ASSUME IInv, NEW id \in Ids, acked[id] # NoData
             PROVE  AtBoot(id) # NoData
  BY DEF NeverLost
<1>1. Bootable # {}
  BY DEF IInv, Kept
<1>2. PICK s \in Sectors : IsBoot(s)
  BY <1>1, BootExists
<1>3. Valid(flash[s], id) # {}
  BY <1>2 DEF IInv, Kept, Serving, Holds
<1>4. flash[s] \in SectorStates /\ LogSector(flash[s])
  BY <1>2, InUse DEF IInv, Typed, IsBoot
<1> QED BY <1>2, <1>3, <1>4, BootSector, FindValue

LEMMA AnswersKept == IInv => ReadsLastAcked
<1> SUFFICES ASSUME IInv, Mounted, ~formatting, NEW id \in Ids, ~dirty[id]
             PROVE  Read(flash[currentSector], id) = acked[id]
  BY DEF ReadsLastAcked
<1>1. IsBoot(currentSector) /\ currentSector \in Sectors
  BY DEF IInv, Newest, Typed, Mounted
<1>2. id \in Settled
  BY DEF Settled, Mounted
<1> QED BY <1>1, <1>2 DEF IInv, Kept, Serving, Holds

LEMMA BlanksFollow == IInv => ProgramsBlank
<1> SUFFICES ASSUME IInv PROVE ProgramsBlank
  OBVIOUS
<1>1. pc = "header" => flash[currentSector].slot[writeIndex] = Blank
  BY NotRefused
<1>2. pc = "gcCopy" => Log(flash[Other(currentSector)], scan.dst)
  BY DEF IInv, Preparing
<1> QED BY <1>1, <1>2 DEF ProgramsBlank, Log

LEMMA RoomFollows == IInv => RoomAfterCollection
<1> SUFFICES ASSUME IInv, pc = "header",
                    Cardinality(Live(currentSector)) < GcAt - 1, ~(writeIndex < GcAt)
             PROVE  FALSE
  BY DEF RoomAfterCollection
<1>1. writeIndex \in 1 .. ScanEnd /\ GcAt \in Nat /\ ScanEnd \in Nat
  BY NotRefused, Constants
<1>2. \A k \in 1 .. writeIndex - 1 : flash[currentSector].slot[k].st = "valid"
  BY DEF IInv, Position
<1>3. 1 .. writeIndex - 1 \subseteq Live(currentSector)
  BY <1>1, <1>2, Constants DEF Live
<1>4. /\ IsFiniteSet(1 .. writeIndex - 1)
      /\ Cardinality(1 .. writeIndex - 1) = writeIndex - 1
  <2>1. writeIndex - 1 \in Int /\ 1 \in Int /\ ~(1 > writeIndex - 1 + 1)
    BY <1>1
  <2>2. /\ IsFiniteSet(1 .. writeIndex - 1)
        /\ Cardinality(1 .. writeIndex - 1) =
             IF 1 > writeIndex - 1 THEN 0 ELSE writeIndex - 1 - 1 + 1
    BY <2>1, FS_Interval
  <2> QED BY <1>1, <2>2
<1>5. IsFiniteSet(Live(currentSector))
  <2>1. Live(currentSector) \subseteq Slots
    BY DEF Live
  <2>2. IsFiniteSet(Slots)
    BY FS_Interval, Constants
  <2> QED BY <2>1, <2>2, FS_Subset
<1>6. Cardinality(1 .. writeIndex - 1) <= Cardinality(Live(currentSector))
  BY <1>3, <1>5, FS_Subset
<1>7. Cardinality(Live(currentSector)) \in Nat
  BY <1>5, FS_CardinalityType
<1> QED BY <1>1, <1>4, <1>6, <1>7
-----------------------------------------------------------------------------
(***************************************************************************)
(* Every variable keeps its type: _writeIndex stays within the sector, and *)
(* findEntry leads to a slot that it scanned.                              *)
(***************************************************************************)
THEOREM TypeCorrect ==
  ASSUME FailPoints \subseteq {"sector", "entry", "retire"}
  PROVE  /\ Spec /\ []RoomLeft => []TypeOK
         /\ Capacity => (Spec => []TypeOK)
<1>1. Spec /\ []RoomLeft => []TypeOK
  BY Invariant, TypesFollow, PTL
<1>2. ASSUME Capacity PROVE Spec => []TypeOK
  BY <1>1, <1>2, RoomAlwaysLeft, PTL
<1> QED BY <1>1, <1>2

(***************************************************************************)
(* begin() after a reset, at any moment, would mount a sector that answers *)
(* every read as the current one: the two active sectors that a power loss *)
(* in garbageCollection may leave behind agree.                            *)
(***************************************************************************)
THEOREM ResetFindsCurrent ==
  ASSUME FailPoints \subseteq {"sector", "entry", "retire"}
  PROVE  /\ Spec /\ []RoomLeft => []BootFindsCurrent
         /\ Capacity => (Spec => []BootFindsCurrent)
<1>1. Spec /\ []RoomLeft => []BootFindsCurrent
  BY Invariant, BootFollows, PTL
<1>2. ASSUME Capacity PROVE Spec => []BootFindsCurrent
  BY <1>1, <1>2, RoomAlwaysLeft, PTL
<1> QED BY <1>1, <1>2

(***************************************************************************)
(* An id that write() returned true for has a value in flash from then on, *)
(* wherever a write, a collection or begin() is interrupted.               *)
(***************************************************************************)
THEOREM NothingAckedIsLost ==
  ASSUME FailPoints \subseteq {"sector", "entry", "retire"}
  PROVE  /\ Spec /\ []RoomLeft => []NeverLost
         /\ Capacity => (Spec => []NeverLost)
<1>1. Spec /\ []RoomLeft => []NeverLost
  BY Invariant, NothingLost, PTL
<1>2. ASSUME Capacity PROVE Spec => []NeverLost
  BY <1>1, <1>2, RoomAlwaysLeft, PTL
<1> QED BY <1>1, <1>2

(***************************************************************************)
(* read() returns what the last successful write() of that id stored, over *)
(* collections, power losses and resets, unless a write of that id was cut *)
(* between the validation of its entry and the end of the old one.         *)
(***************************************************************************)
THEOREM ReadsReturnLastAcked ==
  ASSUME FailPoints \subseteq {"sector", "entry", "retire"}
  PROVE  /\ Spec /\ []RoomLeft => []ReadsLastAcked
         /\ Capacity => (Spec => []ReadsLastAcked)
<1>1. Spec /\ []RoomLeft => []ReadsLastAcked
  BY Invariant, AnswersKept, PTL
<1>2. ASSUME Capacity PROVE Spec => []ReadsLastAcked
  BY <1>1, <1>2, RoomAlwaysLeft, PTL
<1> QED BY <1>1, <1>2

(***************************************************************************)
(* write() and the collector program blank slots only: the controller is   *)
(* never asked to program a halfword that is not ffff.                     *)
(***************************************************************************)
THEOREM OnlyBlankProgrammed ==
  ASSUME FailPoints \subseteq {"sector", "entry", "retire"}
  PROVE  /\ Spec /\ []RoomLeft => []ProgramsBlank
         /\ Capacity => (Spec => []ProgramsBlank)
<1>1. Spec /\ []RoomLeft => []ProgramsBlank
  BY Invariant, BlanksFollow, PTL
<1>2. ASSUME Capacity PROVE Spec => []ProgramsBlank
  BY <1>1, <1>2, RoomAlwaysLeft, PTL
<1> QED BY <1>1, <1>2

(***************************************************************************)
(* A write that had to collect finds room below the threshold of the next  *)
(* collection, when fewer entries than that are live.                      *)
(***************************************************************************)
THEOREM CollectionMakesRoom ==
  ASSUME FailPoints \subseteq {"sector", "entry", "retire"}
  PROVE  /\ Spec /\ []RoomLeft => []RoomAfterCollection
         /\ Capacity => (Spec => []RoomAfterCollection)
<1>1. Spec /\ []RoomLeft => []RoomAfterCollection
  BY Invariant, RoomFollows, PTL
<1>2. ASSUME Capacity PROVE Spec => []RoomAfterCollection
  BY <1>1, <1>2, RoomAlwaysLeft, PTL
<1> QED BY <1>1, <1>2
-----------------------------------------------------------------------------
(***************************************************************************)
(* What a step does to the flash: nothing, something to a sector that a    *)
(* reset would not read, something to a slot that is not read; or it is    *)
(* one of the four that the abstract store may see.                        *)
(***************************************************************************)
HiddenStep(x, new) ==
  /\ flash' = [flash EXCEPT ![x] = new]
  /\ new.hdr # "active" \/ new = ZeroedSector
  /\ \/ formatting
     \/ ~IsBoot(x) /\ pc # "gcDrop"
     \/ pc = "gcDrop" /\ x = Previous(currentSector)

UnreadStep(e) ==
  /\ pc \in {"header", "payload"} /\ Program(currentSector, writeIndex, e)
  /\ e.st # "valid" /\ flash[currentSector].slot[writeIndex].st # "valid"
  /\ LogSector(Put(flash[currentSector], writeIndex, e))

QuietFlash == \/ flash' = flash
              \/ \E x \in Sectors, new \in SectorStates : HiddenStep(x, new)
              \/ \E e \in Entries : UnreadStep(e)

LEMMA UnreadSlot ==
  ASSUME IInv, pc \in {"header", "payload"},
         pc = "header" => flash[currentSector].slot[writeIndex] = Blank,
         NEW e \in Entries, e.st \in {"raw", "torn"} \/ e = Blank,
         Program(currentSector, writeIndex, e)
  PROVE  UnreadStep(e)
<1> DEFINE sec == flash[currentSector]
           n   == writeIndex
<1>1. sec \in SectorStates /\ LogSector(sec) /\ n \in Slots /\ n \in 1 .. ScanEnd
  BY Working, Constants DEF WriteSteps, IInv, Control, Typed
<1>2. /\ Log(sec, n) \/ Log(sec, n + 1)
      /\ sec.slot[n].st # "valid"
  BY BlankEntry DEF IInv, Position
<1>3. e.st # "valid" /\ Proper(e)
  BY BlankEntry DEF Proper
<1>4. LogSector(Put(sec, n, e))
  BY <1>1, <1>2, <1>3, PutAtEnd
<1> QED BY <1>2, <1>3, <1>4 DEF UnreadStep

LEMMA QuietWrites ==
  ASSUME IInv, WriteHeader \/ WritePayload \/ WriteEntryFails
  PROVE  QuietFlash
<1>1. /\ pc \in {"header", "payload", "validate"}
      /\ pc = "header" => flash[currentSector].slot[writeIndex] = Blank
  BY NotRefused DEF WriteHeader, WritePayload, WriteEntryFails, Step
<1>2. req.id \in Ids /\ req.val \in 0 .. MaxWrites /\ NoData \in 0 .. MaxWrites
  BY <1>1, Working, BlankEntry DEF WriteSteps
<1>3. CASE WriteHeader \/ WritePayload
  <2>1. PICK v \in 0 .. MaxWrites :
          Program(currentSector, writeIndex, Entry(req.id, v, "raw"))
    BY <1>2, <1>3 DEF WriteHeader, WritePayload
  <2>2. Entry(req.id, v, "raw") \in Entries /\ Entry(req.id, v, "raw").st = "raw"
    BY <1>2 DEF Entry, Entries
  <2>3. pc \in {"header", "payload"}
    BY <1>3 DEF WriteHeader, WritePayload, Step
  <2> QED BY <1>1, <2>1, <2>2, <2>3, UnreadSlot DEF QuietFlash
<1>4. CASE WriteEntryFails /\ pc = "header"
  <2>1. PICK e \in CutHeader(req.id, NoData) : Program(currentSector, writeIndex, e)
    BY <1>1, <1>4 DEF WriteEntryFails
  <2>2. e \in Entries /\ (e.st \in {"raw", "torn"} \/ e = Blank)
    BY <1>2, BlankEntry DEF CutHeader, Entry, Entries
  <2> QED BY <1>1, <1>4, <2>1, <2>2, UnreadSlot DEF QuietFlash
<1>5. CASE WriteEntryFails /\ pc # "header"
  BY <1>5 DEF WriteEntryFails, QuietFlash
<1> QED BY <1>3, <1>4, <1>5

LEMMA QuietSectors ==
  ASSUME IInv,
         BeginErase \/ FormatErase \/ FormatPrep \/ GcErase \/ GcPrep \/ GcCopy \/ GcDrop
  PROVE  QuietFlash
<1>1. flash \in [Sectors -> SectorStates] /\ 0 \in Sectors
  BY Constants DEF IInv, Typed
<1>2. CASE BeginErase
  <2> DEFINE x == scan.src
  <2>1. x \in Sectors /\ EraseSector(x) /\ pc = "begin"
    BY <1>2, Constants DEF BeginErase, IInv, Typed, Sectors
  <2>2. ~IsBoot(x)
    BY <1>2 DEF BeginErase, IsBoot, Bootable
  <2> HIDE DEF x
  <2>3. flash' = [flash EXCEPT ![x] = ErasedSector]
    BY <1>1, <2>1, FlashSteps
  <2>4. HiddenStep(x, ErasedSector)
    BY <2>1, <2>2, <2>3, Erased DEF HiddenStep
  <2> QED BY <2>1, <2>4, Erased DEF QuietFlash
<1>3. CASE FormatErase \/ FormatPrep
  <2>1. formatting
    BY <1>3 DEF FormatErase, FormatPrep, Step, IInv, Preparing, FormatSteps
  <2>2. EraseSector(0) \/ SetSectorState(0, "prep")
    BY <1>3 DEF FormatErase, FormatPrep
  <2>3. \E new \in SectorStates : new.hdr # "active" /\ flash' = [flash EXCEPT ![0] = new]
    BY <1>1, <2>2, FlashSteps, Erased
  <2> QED BY <1>1, <2>1, <2>3 DEF HiddenStep, QuietFlash
<1>4. CASE GcErase \/ GcPrep \/ GcCopy \/ GcDrop
  <2> DEFINE cur == currentSector
             oth == Other(currentSector)
             prv == Previous(currentSector)
  <2>1. /\ cur \in Sectors /\ flash[cur] \in SectorStates /\ writeIndex \in 1 .. LastSlot
        /\ pc # "gcDrop" => IsBoot(cur)
    BY <1>4, Working DEF GcErase, GcPrep, GcCopy, GcDrop, Step, CollectSteps
  <2>2. oth \in Sectors /\ oth # cur /\ prv \in Sectors /\ prv # cur
    BY <2>1, Neighbours
  <2>3. ASSUME pc # "gcDrop", NEW new \in SectorStates, new.hdr # "active",
               flash' = [flash EXCEPT ![oth] = new]
        PROVE  QuietFlash
    <3>1. ~IsBoot(oth)
      BY <2>1, <2>2, <2>3, BootSector
    <3>2. HiddenStep(oth, new)
      BY <2>3, <3>1 DEF HiddenStep
    <3> QED BY <2>2, <3>2 DEF QuietFlash
  <2>4. CASE GcDrop
    <3>1. pc = "gcDrop" /\ flash' = [flash EXCEPT ![prv] = ErasedSector]
      BY <1>1, <2>2, <2>4, FlashSteps DEF GcDrop
    <3> QED BY <2>2, <3>1, Erased DEF HiddenStep, QuietFlash
  <2>5. CASE GcErase
    BY <1>1, <2>2, <2>3, <2>5, FlashSteps, Erased DEF GcErase, Step
  <2>6. CASE GcPrep
    BY <1>1, <2>2, <2>3, <2>6, FlashSteps DEF GcPrep, Step
  <2>7. CASE GcCopy
    <3> DEFINE to == flash[oth]
               e  == flash[cur].slot[scan.src]
    <3>1. pc = "gcCopy" /\ GcMore
      BY <2>7 DEF GcCopy
    <3>2. /\ to \in SectorStates /\ to.hdr = "prep"
          /\ 1 <= scan.dst /\ scan.dst <= scan.src /\ scan.src < writeIndex
          /\ scan.dst \in Nat /\ scan.src \in Nat
      BY <1>1, <2>2, <3>1, MoreToCopy DEF IInv, Preparing, Typed
    <3>3. scan.src \in Slots /\ scan.dst \in Slots
      BY <2>1, <3>2, Constants
    <3>4. e \in Entries
      BY <2>1, <3>3 DEF SectorStates
    <3>5. flash' = flash \/ Program(oth, scan.dst, e)
      BY <2>7 DEF GcCopy
    <3> HIDE DEF e
    <3>6. Put(to, scan.dst, e) \in SectorStates /\ Put(to, scan.dst, e).hdr = "prep"
      BY <3>2, <3>3, <3>4, PutValue
    <3>7. CASE Program(oth, scan.dst, e)
      <4>1. flash' = [flash EXCEPT ![oth] = Put(to, scan.dst, e)]
        BY <1>1, <2>2, <3>7, FlashSteps
      <4> QED BY <2>3, <3>1, <3>6, <4>1
    <3> QED BY <3>5, <3>7 DEF QuietFlash
  <2> QED BY <1>4, <2>4, <2>5, <2>6, <2>7
<1> QED BY <1>2, <1>3, <1>4

LEMMA QuietCrash ==
  ASSUME IInv, Crash
  PROVE  QuietFlash
<1>1. flash \in [Sectors -> SectorStates] /\ 0 \in Sectors
  BY Constants DEF IInv, Typed
<1>2. ASSUME NEW x \in Sectors, flash' \in CutErase(x),
             \/ formatting
             \/ ~IsBoot(x) /\ pc # "gcDrop"
             \/ pc = "gcDrop" /\ x = Previous(currentSector)
      PROVE  QuietFlash
  BY <1>1, <1>2, EraseCut DEF HiddenStep, QuietFlash
<1>3. CASE pc = "fmtErase" /\ flash' \in CutErase(0)
  BY <1>1, <1>2, <1>3 DEF IInv, Preparing, FormatSteps
<1>4. CASE pc = "gcErase" /\ flash' \in CutErase(Other(currentSector))
  <2>1. /\ currentSector \in Sectors /\ IsBoot(currentSector)
        /\ Other(currentSector) \in Sectors /\ Other(currentSector) # currentSector
    BY <1>4, Working, Neighbours DEF CollectSteps
  <2>2. ~IsBoot(Other(currentSector))
    BY <2>1, BootSector
  <2> QED BY <1>2, <1>4, <2>1, <2>2
<1>5. CASE pc = "gcDrop" /\ flash' \in CutErase(Previous(currentSector))
  BY <1>2, <1>5, Working, Neighbours DEF CollectSteps
<1>6. CASE /\ pc = "begin" /\ scan.src < NbSectors /\ flash[scan.src] = ZeroedSector
           /\ flash' \in CutErase(scan.src)
  <2>1. scan.src \in Sectors
    BY <1>6, Constants DEF IInv, Typed, Sectors
  <2>2. scan.src \notin Bootable
    BY <1>6, Erased, BlankEntry, Constants DEF Bootable, Sane
  <2> QED BY <1>2, <1>6, <2>1, <2>2 DEF IsBoot
<1>7. CASE /\ pc = "header"
           /\ \E e \in CutHeader(req.id, NoData) : Program(currentSector, writeIndex, e)
  <2>1. PICK e \in CutHeader(req.id, NoData) : Program(currentSector, writeIndex, e)
    BY <1>7
  <2>2. req.id \in Ids /\ flash[currentSector].slot[writeIndex] = Blank
    BY <1>7, Working, NotRefused DEF WriteSteps
  <2>3. e \in Entries /\ (e.st \in {"raw", "torn"} \/ e = Blank)
    BY <2>2, BlankEntry DEF CutHeader, Entry, Entries
  <2> QED BY <1>7, <2>1, <2>2, <2>3, UnreadSlot DEF QuietFlash
<1>8. CASE flash' = flash
  BY <1>8 DEF QuietFlash
<1> QED BY <1>3, <1>4, <1>5, <1>6, <1>7, <1>8, CrashCases

LEMMA FlashEffects ==
  ASSUME FailPoints \subseteq {"sector", "entry", "retire"}, IInv, [Next]_vars
  PROVE  QuietFlash \/ WriteValidate \/ WriteRetire \/ FormatActive \/ GcActivate
<1>1. ~FormatFails /\ ~WriteRefused
  BY NotRefused DEF FormatFails, Failure, WriteRefused, Step
<1>2. CASE UNCHANGED vars
  BY <1>2 DEF vars, QuietFlash
<1>3. CASE Begin \/ BeginSkip \/ BeginMount \/ BeginNone \/ Format \/ GcCopyDone
  BY <1>3 DEF QuietFlash, Begin, BeginSkip, BeginMount, BeginNone, Format, GcCopyDone
<1>4. ASSUME NEW id \in Ids, Write(id)
      PROVE  QuietFlash
  BY <1>4 DEF QuietFlash, Write
<1>5. CASE WriteRetireFails \/ GcFails
  BY <1>5 DEF QuietFlash, WriteRetireFails, GcFails
<1> QED BY <1>1, <1>2, <1>3, <1>4, <1>5, QuietWrites, QuietSectors, QuietCrash DEF Next
-----------------------------------------------------------------------------
\* The number of the last write that may have a live entry only grows.
LEMMA LatestGrows ==
  ASSUME FailPoints \subseteq {"sector", "entry", "retire"}, IInv, Aged, [Next]_vars
  PROVE  /\ Latest \in Int /\ Latest' \in Int /\ Latest <= Latest'
         /\ pc' \in WriteSteps \cup CollectSteps => req'.val = writes'
<1>1. writes \in Nat /\ (Latest = writes \/ Latest = writes - 1)
  BY NvmAssumption DEF IInv, Typed, Latest
<1>2. pc \in WriteSteps \cup CollectSteps => req.val = writes
  BY DEF Aged
<1>3. CASE UNCHANGED <<pc, req, writes>>
  BY <1>1, <1>2, <1>3 DEF Latest, Uncommitted
<1>4. CASE writes' = writes /\ pc' \in {"idle", "begin"} \cup FormatSteps
  <2>1. ~Uncommitted' /\ pc' \notin WriteSteps \cup CollectSteps
    BY <1>4 DEF Uncommitted, FormatSteps, WriteSteps, CollectSteps
  <2>2. Latest' = writes
    BY <1>4, <2>1 DEF Latest
  <2> QED BY <1>1, <2>1, <2>2
<1>5. CASE /\ UNCHANGED <<writes, req>> /\ Uncommitted
           /\ pc' \in WriteSteps \cup CollectSteps
  <2>1. req.val = writes /\ Latest = writes - 1
    BY <1>2, <1>5 DEF Uncommitted, WriteSteps, CollectSteps, Latest
  <2>2. Latest' = writes - 1 \/ Latest' = writes
    BY <1>5 DEF Latest
  <2> QED BY <1>1, <1>5, <2>1, <2>2
<1>6. ASSUME NEW id \in Ids, Write(id)
      PROVE  /\ Latest' \in Int /\ Latest <= Latest' /\ req'.val = writes'
  <2>1. /\ writes' = writes + 1 /\ pc = "idle" /\ pc' \in {"header", "gcErase"}
    BY <1>6 DEF Write
  <2>3. ASSUME writeIndex >= GcAt PROVE req'.val = writes'
    <3>1. req' = [id |-> id, val |-> writes', old |-> 0]
      BY <1>6, <2>3 DEF Write, NoReq
    <3> QED BY <3>1
  <2>4. ASSUME ~(writeIndex >= GcAt) PROVE req'.val = writes'
    BY <1>6, <2>4 DEF Write
  <2>2. Latest = writes /\ Latest' = writes' - 1
    BY <2>1 DEF Latest, Uncommitted, CollectSteps
  <2> QED BY <1>1, <2>1, <2>2, <2>3, <2>4
<1>7. CASE GcDrop
  <2>1. /\ pc = "gcDrop" /\ pc' = "header" /\ writes' = writes
        /\ req' = [req EXCEPT !.old = FindEntry(flash[currentSector], req.id)]
    BY <1>7, DropFinds DEF GcDrop, counts
  <2>2. req'.val = req.val /\ req.val = writes
    BY <1>2, <2>1 DEF IInv, Typed, CollectSteps
  <2>3. Latest = writes - 1 /\ Latest' = writes - 1
    BY <2>1 DEF Latest, Uncommitted, CollectSteps
  <2> QED BY <1>1, <2>1, <2>2, <2>3
<1>8. CASE \/ Begin \/ BeginSkip \/ BeginErase \/ BeginMount \/ BeginNone
           \/ Format \/ FormatErase \/ FormatPrep \/ FormatActive
  <2>1. writes' = writes
    BY <1>8 DEF counts, Begin, BeginSkip, BeginErase, BeginMount, BeginNone,
                Format, FormatErase, FormatPrep, FormatActive
  <2>2. pc' \in {"idle", "begin"} \cup FormatSteps
    BY <1>8 DEF Step, FormatSteps, Begin, BeginSkip, BeginErase, BeginMount, BeginNone,
                Format, FormatErase, FormatPrep, FormatActive
  <2> QED BY <1>4, <2>1, <2>2
<1>9. CASE \/ WriteRetire \/ WriteRefused \/ WriteEntryFails \/ WriteRetireFails
           \/ GcFails \/ Crash
  <2>1. writes' = writes
    BY <1>9 DEF counts, Failure, WriteRetire, WriteRefused, WriteEntryFails,
                WriteRetireFails, GcFails, Crash
  <2>2. pc' = "idle"
    BY <1>9 DEF Step, WriteRetire, WriteRefused, WriteEntryFails,
                WriteRetireFails, GcFails, Crash
  <2> QED BY <1>4, <2>1, <2>2
<1>10. CASE \/ WriteHeader \/ WritePayload
            \/ GcErase \/ GcPrep \/ GcCopy \/ GcCopyDone \/ GcActivate
  <2>1. UNCHANGED <<writes, req>>
    BY <1>10 DEF ram, counts, WriteHeader, WritePayload,
                 GcErase, GcPrep, GcCopy, GcCopyDone, GcActivate
  <2>2. Uncommitted /\ pc' \in WriteSteps \cup CollectSteps
    BY <1>10 DEF Step, Uncommitted, WriteSteps, CollectSteps, WriteHeader, WritePayload,
                 GcErase, GcPrep, GcCopy, GcCopyDone, GcActivate
  <2> QED BY <1>5, <2>1, <2>2
<1>11. CASE WriteValidate
  <2>1. /\ writes' = writes /\ pc = "validate"
        /\ pc' = "idle" \/ (pc' = "retire" /\ req' = req)
    BY <1>11 DEF WriteValidate, counts
  <2>2. CASE pc' = "idle"
    BY <1>4, <2>1, <2>2
  <2>3. CASE pc' = "retire" /\ req' = req
    BY <1>5, <2>1, <2>3 DEF Uncommitted, WriteSteps
  <2> QED BY <2>1, <2>2, <2>3
<1>12. CASE UNCHANGED vars
  BY <1>3, <1>12 DEF vars, ram, counts
<1>13. ~FormatFails
  BY DEF FormatFails, Failure
<1> QED BY <1>1, <1>6, <1>7, <1>8, <1>9, <1>10, <1>11, <1>12, <1>13 DEF Next

\* The order of the live entries: what programming and copying do to it.
LEMMA OrderLater ==
  ASSUME NEW sec \in SectorStates, NEW a \in Int, NEW b \in Int, a <= b, InOrder(sec, a)
  PROVE  InOrder(sec, b)
<1>1. \A k \in Slots : sec.slot[k].val \in Int
  BY DEF SectorStates, Entries
<1> QED BY <1>1 DEF InOrder

LEMMA OrderPut ==
  ASSUME NEW sec \in SectorStates, NEW n \in Slots, NEW e \in Entries, e.st # "valid",
         NEW a, InOrder(sec, a)
  PROVE  InOrder(Put(sec, n, e), a)
<1> DEFINE new == Put(sec, n, e)
<1>1. new.slot[n] = e /\ \A k \in Slots : k # n => new.slot[k] = sec.slot[k]
  BY PutValue
<1> HIDE DEF new
<1>2. \A k \in Slots : new.slot[k].st = "valid" =>
        sec.slot[k].st = "valid" /\ new.slot[k].val = sec.slot[k].val
  BY <1>1
<1>3. InOrder(new, a)
  BY <1>2 DEF InOrder
<1> QED BY <1>3 DEF new

LEMMA OrderAdd ==
  ASSUME NEW sec \in SectorStates, NEW n \in 1 .. ScanEnd, Log(sec, n + 1),
         NEW e \in Entries, sec.slot[n].st = "raw",
         NEW a \in Int, a + 1 = e.val, InOrder(sec, a)
  PROVE  InOrder(Put(sec, n, e), e.val)
<1> DEFINE new == Put(sec, n, e)
           v   == e.val
<1>1. /\ n \in Slots /\ new.slot[n] = e
      /\ \A k \in Slots : k # n => new.slot[k] = sec.slot[k]
      /\ Slots \subseteq Nat /\ v \in Nat
  BY PutValue, Constants DEF Entries
<1>2. \A k \in Slots : sec.slot[k].val \in Nat
  BY DEF SectorStates, Entries
<1>3. \A k \in Slots : k # n /\ sec.slot[k].st = "valid" => k < n /\ sec.slot[k].val < v
  <2> SUFFICES ASSUME NEW k \in Slots, k # n, sec.slot[k].st = "valid"
               PROVE  k < n /\ sec.slot[k].val < v
    OBVIOUS
  <2>1. ~(k >= n + 1)
    BY BlankEntry DEF Log
  <2>2. sec.slot[k].val <= a
    BY DEF InOrder
  <2>3. k < n
    BY <1>1, <2>1
  <2>4. sec.slot[k].val < v
    BY <1>1, <1>2, <2>2
  <2> QED BY <2>3, <2>4
<1> HIDE DEF new, v
<1>4. \A k \in Slots : new.slot[k].st = "valid" => new.slot[k].val <= v
  <2> SUFFICES ASSUME NEW k \in Slots, new.slot[k].st = "valid"
               PROVE  new.slot[k].val <= v
    OBVIOUS
  <2>1. CASE k = n
    BY <1>1, <2>1 DEF v
  <2>2. CASE k # n
    <3>1. new.slot[k] = sec.slot[k] /\ sec.slot[k].val < v
      BY <1>1, <1>3, <2>2
    <3> QED BY <1>1, <1>2, <3>1
  <2> QED BY <2>1, <2>2
<1>5. ASSUME NEW j \in Slots, NEW k \in Slots, j < k,
             new.slot[j].st = "valid", new.slot[k].st = "valid"
      PROVE  new.slot[j].val < new.slot[k].val
  <2>1. CASE j # n /\ k # n
    <3>1. /\ new.slot[j] = sec.slot[j] /\ new.slot[k] = sec.slot[k]
          /\ sec.slot[j].st = "valid" /\ sec.slot[k].st = "valid"
      BY <1>1, <1>5, <2>1
    <3> QED BY <1>5, <3>1 DEF InOrder
  <2>2. CASE k = n
    <3>1. j # n /\ new.slot[j] = sec.slot[j] /\ new.slot[k].val = v
      BY <1>1, <1>5, <2>2 DEF v
    <3> QED BY <1>3, <1>5, <3>1
  <2>3. CASE j = n /\ k # n
    <3>1. k < n
      BY <1>1, <1>3, <1>5, <2>3
    <3> QED BY <1>1, <1>5, <2>3, <3>1
  <2> QED BY <2>1, <2>2, <2>3
<1>6. InOrder(new, v)
  BY <1>4, <1>5 DEF InOrder
<1> QED BY <1>6 DEF new, v

LEMMA OrderCopy ==
  ASSUME NEW new, NEW old, NEW n \in 1 .. LastSlot, Log(new, n),
         IsCopy(new, n - 1, old, LastSlot), NEW a, InOrder(old, a)
  PROVE  InOrder(new, a)
<1>1. /\ Slots = 1 .. LastSlot /\ LastSlot \in Nat
      /\ \A k \in Slots : k \in 1 .. n - 1 \/ k >= n
  BY Constants
<1>2. PICK f \in [1 .. n - 1 -> 1 .. LastSlot] :
        /\ \A j, k \in 1 .. n - 1 : j < k => f[j] < f[k]
        /\ \A k \in 1 .. n - 1 : /\ new.slot[k] = old.slot[f[k]]
                                 /\ old.slot[f[k]].st = "valid"
  BY DEF IsCopy
<1>3. \A k \in Slots : new.slot[k].st = "valid" => k \in 1 .. n - 1
  BY <1>1, BlankEntry DEF Log
<1>4. \A k \in 1 .. n - 1 : f[k] \in Slots
  BY <1>1, <1>2
<1>5. \A k \in Slots : new.slot[k].st = "valid" => new.slot[k].val <= a
  BY <1>2, <1>3, <1>4 DEF InOrder
<1>6. \A j, k \in Slots :
        j < k /\ new.slot[j].st = "valid" /\ new.slot[k].st = "valid" =>
          new.slot[j].val < new.slot[k].val
  <2> SUFFICES ASSUME NEW j \in Slots, NEW k \in Slots, j < k,
                      new.slot[j].st = "valid", new.slot[k].st = "valid"
               PROVE  new.slot[j].val < new.slot[k].val
    OBVIOUS
  <2>1. /\ f[j] \in Slots /\ f[k] \in Slots /\ f[j] < f[k]
        /\ new.slot[j] = old.slot[f[j]] /\ new.slot[k] = old.slot[f[k]]
        /\ old.slot[f[j]].st = "valid" /\ old.slot[f[k]].st = "valid"
    BY <1>2, <1>3, <1>4
  <2> QED BY <2>1 DEF InOrder
<1> QED BY <1>5, <1>6 DEF InOrder

\* A step that changes one sector, which stays in order if it is in use.
LEMMA OrderStep ==
  ASSUME IInv, Aged, Latest \in Int, Latest' \in Int, Latest <= Latest',
         NEW x \in Sectors, NEW new \in SectorStates, flash' = [flash EXCEPT ![x] = new],
         new.hdr = "active" /\ new.slot[1].st # "zero" => InOrder(new, Latest')
  PROVE  \A s \in Bootable' : InOrder(flash'[s], Latest')
<1>1. flash \in [Sectors -> SectorStates]
  BY DEF IInv, Typed
<1>2. /\ flash'[x] = new
      /\ \A s \in Sectors : s # x => flash'[s] = flash[s]
      /\ \A s \in Sectors : s # x => (s \in Bootable' <=> s \in Bootable)
      /\ x \in Bootable' <=> new.hdr = "active" /\ new.slot[1].st # "zero"
      /\ Bootable' \subseteq Sectors
  BY <1>1, OneSector
<1>3. ASSUME NEW s \in Sectors, s # x, s \in Bootable'
      PROVE  InOrder(flash'[s], Latest')
  <2>1. InOrder(flash[s], Latest) /\ flash[s] \in SectorStates
    BY <1>1, <1>2, <1>3 DEF Aged
  <2>2. InOrder(flash[s], Latest')
    BY <2>1, OrderLater
  <2> QED BY <1>2, <1>3, <2>2
<1> QED BY <1>2, <1>3

LEMMA OrderValidated ==
  ASSUME IInv, Aged, WriteValidate, Latest \in Int, Latest' \in Int, Latest <= Latest'
  PROVE  \A s \in Bootable' : InOrder(flash'[s], Latest')
<1> DEFINE cur == currentSector
           n   == writeIndex
           e   == Entry(req.id, req.val, "valid")
           sec == flash[cur]
           new == Put(sec, n, e)
<1>1. /\ cur \in Sectors /\ cur \in Bootable /\ sec \in SectorStates
      /\ req.id \in Ids /\ req.val \in 0 .. MaxWrites
      /\ n \in 1 .. ScanEnd /\ n \in Slots /\ flash \in [Sectors -> SectorStates]
  BY Working, Constants DEF WriteValidate, WriteSteps, CollectSteps, IInv, Control, Typed
<1>2. Log(sec, n + 1) /\ sec.slot[n].st = "raw" /\ pc = "validate"
  BY DEF WriteValidate, IInv, Position
<1>3. e \in Entries /\ e.val = req.val
  BY <1>1 DEF Entry, Entries
<1>4. flash' = [flash EXCEPT ![cur] = new] /\ new \in SectorStates
  BY <1>1, <1>3, FlashSteps, PutValue DEF WriteValidate
<1>5. req.val = writes /\ Latest = writes - 1 /\ writes \in Nat
  BY <1>1, <1>2 DEF Aged, Latest, Uncommitted, WriteSteps
<1>6. Latest' = writes
  <2>1. writes' = writes /\ ~Uncommitted'
    BY DEF WriteValidate, counts, Uncommitted, CollectSteps
  <2> QED BY <2>1 DEF Latest
<1>7. InOrder(sec, Latest)
  BY <1>1 DEF Aged
<1> HIDE DEF sec, e
<1>8. InOrder(new, e.val)
  BY <1>1, <1>2, <1>3, <1>5, <1>7, OrderAdd
<1> HIDE DEF new, cur
<1>9. InOrder(new, Latest')
  BY <1>3, <1>5, <1>6, <1>8
<1> QED BY <1>1, <1>4, <1>9, OrderStep

\* The entry that WriteRetire programs, and where.
LEMMA RetiredEntry ==
  ASSUME IInv, WriteRetire
  PROVE  LET d == [flash[currentSector].slot[req.old] EXCEPT !.st = "dead"]
         IN  /\ req.old \in Valid(flash[currentSector], req.id)
             /\ req.old \in 1 .. ScanEnd /\ req.old \in Slots /\ req.old < writeIndex
             /\ d \in Entries /\ d.st = "dead"
             /\ Program(currentSector, req.old, d)
<1> USE DEF IInv, WriteRetire, Step
<1> DEFINE cur == currentSector
           sec == flash[cur]
           d   == [sec.slot[req.old] EXCEPT !.st = "dead"]
<1>1. /\ cur \in Sectors /\ sec \in SectorStates /\ LogSector(sec)
      /\ req.id \in Ids /\ flash \in [Sectors -> SectorStates] /\ writeIndex \in 1 .. LastSlot
  BY Working DEF WriteSteps, Typed
<1>2. /\ req.old = FindEntry(sec, req.id) /\ req.old \in 0 .. ScanEnd
      /\ 0 < req.old /\ req.old < writeIndex - 1
  BY DEF Replacing, WriteSteps, Typed
<1>3. req.old \in 1 .. ScanEnd /\ req.old < writeIndex /\ req.old \in Slots
  BY <1>1, <1>2, Constants
<1>4. req.old \in Valid(sec, req.id)
  BY <1>1, <1>2, FindValue
<1>5. sec.slot[req.old] \in Entries
  BY <1>1, <1>3 DEF SectorStates
<1>6. d \in Entries /\ d.st = "dead"
  BY <1>5 DEF Entries
<1>7. Program(cur, req.old, d)
  BY <1>1, <1>3 DEF Program, SectorStates
<1> QED BY <1>3, <1>4, <1>6, <1>7

LEMMA OrderRetired ==
  ASSUME IInv, Aged, WriteRetire, Latest \in Int, Latest' \in Int, Latest <= Latest'
  PROVE  \A s \in Bootable' : InOrder(flash'[s], Latest')
<1> DEFINE cur == currentSector
           sec == flash[cur]
           d   == [sec.slot[req.old] EXCEPT !.st = "dead"]
           new == Put(sec, req.old, d)
<1>1. /\ cur \in Sectors /\ cur \in Bootable /\ sec \in SectorStates
      /\ flash \in [Sectors -> SectorStates]
  BY Working DEF WriteRetire, Step, WriteSteps, IInv, Typed
<1>2. req.old \in Slots /\ d \in Entries /\ d.st = "dead" /\ Program(cur, req.old, d)
  BY RetiredEntry
<1>3. InOrder(sec, Latest')
  BY <1>1, OrderLater DEF Aged
<1> HIDE DEF d
<1>4. InOrder(new, Latest')
  BY <1>1, <1>2, <1>3, OrderPut
<1>5. flash' = [flash EXCEPT ![cur] = new] /\ new \in SectorStates
  BY <1>1, <1>2, FlashSteps, PutValue
<1> HIDE DEF new, cur
<1> QED BY <1>1, <1>4, <1>5, OrderStep

LEMMA OrderFormatted ==
  ASSUME IInv, Aged, FormatActive, Latest \in Int, Latest' \in Int, Latest <= Latest'
  PROVE  \A s \in Bootable' : InOrder(flash'[s], Latest')
<1> DEFINE new == Mark(flash[0], "active")
<1>1. flash \in [Sectors -> SectorStates] /\ 0 \in Sectors
  BY Constants DEF IInv, Typed
<1>2. flash' = [flash EXCEPT ![0] = new] /\ new \in SectorStates /\ new.slot = flash[0].slot
  BY <1>1, FlashSteps DEF FormatActive
<1>3. \A k \in Slots : new.slot[k] = Blank
  <2>1. flash[0] = [ErasedSector EXCEPT !.hdr = "prep"]
    BY DEF FormatActive, Step, IInv, Preparing
  <2>2. flash[0].slot = ErasedSector.slot
    BY <2>1, Erased DEF SectorStates
  <2> QED BY <1>2, <2>2, Erased
<1> HIDE DEF new
<1>4. InOrder(new, Latest')
  BY <1>3, BlankEntry DEF InOrder
<1> QED BY <1>1, <1>2, <1>4, OrderStep

\* The sector that a collection makes active: a copy of the current one.
LEMMA ActivatedSector ==
  ASSUME IInv, GcActivate
  PROVE  LET old == flash[currentSector]
             new == Mark(flash[Other(currentSector)], "active")
         IN  /\ Other(currentSector) \in Sectors /\ Other(currentSector) # currentSector
             /\ old \in SectorStates /\ LogSector(old)
             /\ new \in SectorStates /\ new.hdr = "active"
             /\ flash' = [flash EXCEPT ![Other(currentSector)] = new]
             /\ \E n \in 1 .. LastSlot : Log(new, n) /\ IsCopy(new, n - 1, old, LastSlot)
<1> DEFINE cur == currentSector
           oth == Other(currentSector)
           old == flash[currentSector]
           to  == flash[oth]
           new == Mark(to, "active")
<1>1. /\ cur \in Sectors /\ writeIndex \in 1 .. LastSlot
      /\ old \in SectorStates /\ LogSector(old)
      /\ flash \in [Sectors -> SectorStates]
  BY Working DEF GcActivate, Step, CollectSteps, IInv, Typed
<1>2. oth \in Sectors /\ oth # cur
  BY <1>1, Neighbours
<1>3. PICK n \in 1 .. writeIndex : Log(to, n) /\ IsCopy(to, n - 1, old, LastSlot)
  BY DEF GcActivate, Step, IInv, Preparing
<1>4. /\ new \in SectorStates /\ new.slot = to.slot /\ new.hdr = "active"
      /\ flash' = [flash EXCEPT ![oth] = new]
  BY <1>1, <1>2, FlashSteps DEF GcActivate
<1> HIDE DEF new, to, old, oth, cur
<1>5. Log(new, n) /\ IsCopy(new, n - 1, old, LastSlot) /\ n \in 1 .. LastSlot
  BY <1>1, <1>3, <1>4, SameSlots, Constants
<1> QED BY <1>1, <1>2, <1>4, <1>5 DEF new, to, old, oth, cur

LEMMA OrderActivated ==
  ASSUME IInv, Aged, GcActivate, Latest \in Int, Latest' \in Int, Latest <= Latest'
  PROVE  \A s \in Bootable' : InOrder(flash'[s], Latest')
<1> DEFINE oth == Other(currentSector)
           old == flash[currentSector]
           new == Mark(flash[oth], "active")
<1>1. /\ oth \in Sectors /\ old \in SectorStates /\ new \in SectorStates
      /\ flash' = [flash EXCEPT ![oth] = new]
  BY ActivatedSector
<1>2. PICK n \in 1 .. LastSlot : Log(new, n) /\ IsCopy(new, n - 1, old, LastSlot)
  BY ActivatedSector
<1>3. InOrder(old, Latest')
  BY <1>1, Working, OrderLater DEF Aged, GcActivate, Step, CollectSteps
<1> HIDE DEF new, old, oth
<1>4. InOrder(new, Latest')
  BY <1>2, <1>3, OrderCopy
<1> QED BY <1>1, <1>4, OrderStep

LEMMA OrderKept ==
  ASSUME IInv, Aged, QuietFlash, Latest \in Int, Latest' \in Int, Latest <= Latest'
  PROVE  \A s \in Bootable' : InOrder(flash'[s], Latest')
<1>1. CASE flash' = flash
  <2> SUFFICES ASSUME NEW s \in Bootable PROVE InOrder(flash[s], Latest')
    BY <1>1, FlashKept
  <2> QED BY InUse, OrderLater DEF Aged, IInv, Typed
<1>2. ASSUME NEW x \in Sectors, NEW new \in SectorStates, HiddenStep(x, new)
      PROVE  \A s \in Bootable' : InOrder(flash'[s], Latest')
  <2>1. ~(new.hdr = "active" /\ new.slot[1].st # "zero")
    BY <1>2, Erased, BlankEntry, Constants DEF HiddenStep
  <2> QED BY <1>2, <2>1, OrderStep DEF HiddenStep
<1>3. ASSUME NEW e \in Entries, UnreadStep(e)
      PROVE  \A s \in Bootable' : InOrder(flash'[s], Latest')
  <2> DEFINE cur == currentSector
             n   == writeIndex
             sec == flash[cur]
             new == Put(sec, n, e)
  <2>1. e.st # "valid" /\ Program(cur, n, e)
    BY <1>3 DEF UnreadStep
  <2>2. /\ cur \in Sectors /\ cur \in Bootable /\ sec \in SectorStates /\ n \in Slots
        /\ flash \in [Sectors -> SectorStates]
    BY <1>3, Working DEF UnreadStep, WriteSteps, IInv, Typed
  <2>3. InOrder(sec, Latest')
    BY <2>2, OrderLater DEF Aged
  <2>4. InOrder(new, Latest')
    BY <2>1, <2>2, <2>3, OrderPut
  <2>5. flash' = [flash EXCEPT ![cur] = new] /\ new \in SectorStates
    BY <2>1, <2>2, FlashSteps, PutValue
  <2> HIDE DEF new, cur
  <2> QED BY <2>2, <2>4, <2>5, OrderStep
<1> QED BY <1>1, <1>2, <1>3 DEF QuietFlash

LEMMA AgedKeeps ==
  ASSUME FailPoints \subseteq {"sector", "entry", "retire"}, IInv, Aged, [Next]_vars
  PROVE  Aged'
<1>1. /\ Latest \in Int /\ Latest' \in Int /\ Latest <= Latest'
      /\ pc' \in WriteSteps \cup CollectSteps => req'.val = writes'
  BY LatestGrows
<1>2. \A s \in Bootable' : InOrder(flash'[s], Latest')
  BY <1>1, FlashEffects, OrderKept, OrderValidated, OrderRetired, OrderFormatted,
     OrderActivated
<1> QED BY <1>1, <1>2 DEF Aged
-----------------------------------------------------------------------------
(***************************************************************************)
(* The values that a sector holds of an id, and what the abstract store    *)
(* sees of the sector that a reset would mount.                            *)
(***************************************************************************)
Versions == 1 .. MaxWrites
Vals(sec, id) == {sec.slot[k].val : k \in Valid(sec, id)}
Shown == [id \in Ids |-> Copies(id)]
Found == [id \in Ids |-> IF formatting THEN NoData ELSE AtBoot(id)]

Oldest(S) == IF S = {} THEN 0 ELSE Min(S)
Values(c) == [id \in Ids |-> Oldest(c[id])]

LEMMA OldestValue ==
  ASSUME NEW S \in SUBSET Nat
  PROVE  /\ S = {} => Oldest(S) = 0
         /\ S # {} => Oldest(S) \in S /\ \A y \in S : Oldest(S) <= y
         /\ Oldest(S) \in Nat
BY MinValue DEF Oldest

\* read() finds the oldest live entry of an id.
LEMMA ReadOldest ==
  ASSUME NEW sec \in SectorStates, LogSector(sec), NEW a, InOrder(sec, a), NEW id \in Ids
  PROVE  Vals(sec, id) \in SUBSET Versions /\ Read(sec, id) = Oldest(Vals(sec, id))
<1> DEFINE v == Valid(sec, id)
           S == Vals(sec, id)
           f == FindEntry(sec, id)
<1>1. \A k \in v : /\ k \in Slots /\ sec.slot[k].st = "valid"
                   /\ sec.slot[k].val \in 0 .. MaxWrites /\ sec.slot[k].val # NoData
  BY Constants DEF Valid, SectorStates, Entries, LogSector
<1>2. S \in SUBSET Versions
  BY <1>1, NvmAssumption DEF Vals, Versions, NoData
<1>3. S \in SUBSET Nat
  BY <1>2 DEF Versions
<1>4. CASE v = {}
  <2>1. S = {} /\ Read(sec, id) = NoData
    BY <1>4, FindValue DEF Vals
  <2> QED BY <1>2, <1>3, <2>1, OldestValue DEF NoData
<1>5. CASE v # {}
  <2>1. f \in v /\ (\A k \in v : f <= k) /\ Read(sec, id) = sec.slot[f].val
    BY <1>5, FindValue
  <2>2. ASSUME NEW k \in v PROVE sec.slot[f].val <= sec.slot[k].val
    <3>1. /\ f \in Slots /\ k \in Slots /\ f <= k
          /\ sec.slot[f].st = "valid" /\ sec.slot[k].st = "valid"
          /\ sec.slot[f].val \in Nat /\ sec.slot[k].val \in Nat
      BY <1>1, <2>1, <2>2
    <3> HIDE DEF f
    <3>2. f \in Nat /\ k \in Nat
      BY <3>1, Constants
    <3>3. CASE f = k
      BY <3>1, <3>3
    <3>4. CASE f < k
      BY <3>1, <3>4 DEF InOrder
    <3> QED BY <3>1, <3>2, <3>3, <3>4
  <2> DEFINE r == sec.slot[f].val
             o == Oldest(S)
  <2>3. r \in S /\ \A y \in S : r <= y
    BY <2>1, <2>2 DEF Vals
  <2>4. o \in S /\ \A y \in S : o <= y
    BY <1>3, <2>3, OldestValue
  <2>5. r \in Nat /\ o \in Nat
    BY <1>3, <2>3, <2>4
  <2>6. r <= o /\ o <= r
    BY <2>3, <2>4
  <2> HIDE DEF r, o
  <2>7. r = o
    BY <2>5, <2>6
  <2> QED BY <1>2, <2>1, <2>7 DEF r, o
<1> QED BY <1>4, <1>5

\* The least element of a set, and so the sector that a reset would mount.
LEMMA LeastIs ==
  ASSUME NEW S \in SUBSET Nat, NEW s \in S, \A u \in S : s <= u
  PROVE  Min(S) = s
<1> DEFINE m == Min(S)
<1>1. m \in S /\ m <= s
  BY MinValue
<1> HIDE DEF m
<1>2. s <= m /\ m \in Nat /\ s \in Nat
  BY <1>1
<1>3. m = s
  BY <1>1, <1>2
<1> QED BY <1>3 DEF m

LEMMA ShownAt ==
  ASSUME NEW s, IsBoot(s), NEW id \in Ids
  PROVE  /\ Shown[id] = IF formatting THEN {} ELSE Vals(flash[s], id)
         /\ Found[id] = IF formatting THEN NoData ELSE Read(flash[s], id)
<1>1. Bootable \in SUBSET Nat /\ s \in Bootable /\ \A u \in Bootable : s <= u
  BY Constants DEF Bootable, IsBoot
<1>2. Min(Bootable) = s /\ Bootable # {}
  BY <1>1, LeastIs
<1>3. Copies(id) = IF formatting THEN {} ELSE Vals(flash[s], id)
  BY <1>2 DEF Copies, Vals
<1>4. AtBoot(id) = Read(flash[s], id)
  BY <1>2 DEF AtBoot
<1> QED BY <1>3, <1>4 DEF Shown, Found

LEMMA ShownAfter ==
  ASSUME NEW s, IsBoot(s)', NEW id \in Ids
  PROVE  /\ Shown'[id] = IF formatting' THEN {} ELSE Vals(flash'[s], id)
         /\ Found'[id] = IF formatting' THEN NoData ELSE Read(flash'[s], id)
<1>1. Bootable' \in SUBSET Nat /\ s \in Bootable' /\ \A u \in Bootable' : s <= u
  <2>1. Bootable' \subseteq Sectors /\ Sectors \subseteq Nat
    BY Constants DEF Bootable
  <2> QED BY <2>1 DEF IsBoot
<1>2. Min(Bootable') = s /\ Bootable' # {}
  BY <1>1, LeastIs
<1>3. Copies(id)' = IF formatting' THEN {} ELSE Vals(flash'[s], id)
  BY <1>2 DEF Copies, Vals
<1>4. AtBoot(id)' = Read(flash'[s], id)
  BY <1>2 DEF AtBoot
<1> QED BY <1>3, <1>4 DEF Shown, Found

LEMMA ShownNothing ==
  /\ Bootable = {} \/ formatting =>
       Shown = [id \in Ids |-> {}] /\ Found = [id \in Ids |-> NoData]
  /\ Bootable' = {} \/ formatting' =>
       Shown' = [id \in Ids |-> {}] /\ Found' = [id \in Ids |-> NoData]
BY DEF Shown, Found, Copies, AtBoot

LEMMA BootAfter ==
  ASSUME Bootable' # {}
  PROVE  \E s \in Sectors : IsBoot(s)'
<1>1. Bootable' \in SUBSET Nat /\ Bootable' \subseteq Sectors
  BY Constants DEF Bootable
<1>2. Min(Bootable') \in Bootable' /\ \A u \in Bootable' : Min(Bootable') <= u
  BY <1>1, MinValue
<1> QED BY <1>1, <1>2 DEF IsBoot

\* What a reader sees is what is oldest in the sector that a reset mounts.
LEMMA FoundOldest ==
  IInv /\ Aged => /\ Shown \in [Ids -> SUBSET Versions]
                  /\ Found = Values(Shown)
<1> SUFFICES ASSUME IInv, Aged
             PROVE  \A id \in Ids : /\ Shown[id] \in SUBSET Versions
                                    /\ Found[id] = Oldest(Shown[id])
  BY DEF Shown, Found, Values
<1>1. CASE Bootable = {} \/ formatting
  <2>1. \A id \in Ids : Shown[id] = {} /\ Found[id] = 0
    BY <1>1, ShownNothing DEF NoData
  <2> QED BY <2>1, OldestValue
<1>2. CASE Bootable # {} /\ ~formatting
  <2>1. PICK s \in Sectors : IsBoot(s)
    BY <1>2, BootExists
  <2>2. /\ flash[s] \in SectorStates /\ LogSector(flash[s])
        /\ InOrder(flash[s], Latest)
    BY <2>1, InUse DEF IsBoot, IInv, Typed, Aged
  <2>3. ASSUME NEW id \in Ids
        PROVE  Shown[id] = Vals(flash[s], id) /\ Found[id] = Read(flash[s], id)
    BY <1>2, <2>1, ShownAt
  <2> QED BY <2>2, <2>3, ReadOldest
<1> QED BY <1>1, <1>2

\* The same sector, or one that holds the same values, before and after.
LEMMA SameShown ==
  ASSUME formatting' = formatting, NEW s, IsBoot(s), NEW t, IsBoot(t)',
         \A id \in Ids : /\ Vals(flash'[t], id) = Vals(flash[s], id)
                         /\ Read(flash'[t], id) = Read(flash[s], id)
  PROVE  UNCHANGED <<Shown, Found>>
<1>1. \A id \in Ids : Shown'[id] = Shown[id] /\ Found'[id] = Found[id]
  BY ShownAt, ShownAfter
<1> QED BY <1>1 DEF Shown, Found

LEMMA CopyValues ==
  ASSUME NEW new \in SectorStates, NEW old \in SectorStates, LogSector(old),
         NEW n \in 1 .. LastSlot, Log(new, n), IsCopy(new, n - 1, old, LastSlot)
  PROVE  \A id \in Ids : /\ Vals(new, id) = Vals(old, id)
                         /\ Read(new, id) = Read(old, id)
<1> SUFFICES ASSUME NEW id \in Ids
             PROVE  Vals(new, id) = Vals(old, id) /\ Read(new, id) = Read(old, id)
  OBVIOUS
<1>1. /\ Read(new, id) = Read(old, id)
      /\ \A k \in Valid(new, id) : \E j \in Valid(old, id) : new.slot[k] = old.slot[j]
      /\ \A j \in Valid(old, id) : \E k \in Valid(new, id) : new.slot[k] = old.slot[j]
  BY CopyReads
<1>2. Vals(new, id) = Vals(old, id)
  BY <1>1 DEF Vals
<1> QED BY <1>1, <1>2

\* Before the old sector is dropped, either sector answers a reader.
LEMMA DropShows ==
  ASSUME IInv, pc = "gcDrop", NEW s, IsBoot(s)
  PROVE  \A id \in Ids : /\ Vals(flash[currentSector], id) = Vals(flash[s], id)
                         /\ Read(flash[currentSector], id) = Read(flash[s], id)
<1> DEFINE cur == currentSector
           prv == Previous(currentSector)
<1>1. /\ cur \in Bootable /\ prv \in Bootable /\ cur \in Sectors
      /\ \A u \in Bootable \ {prv} : cur <= u
      /\ flash[cur] \in SectorStates /\ flash[prv] \in SectorStates /\ LogSector(flash[prv])
      /\ writeIndex \in 1 .. LastSlot
  BY Working, InUse DEF CollectSteps, IInv, Newest, Typed
<1>2. PICK n \in 1 .. writeIndex :
        Log(flash[cur], n) /\ IsCopy(flash[cur], n - 1, flash[prv], LastSlot)
  BY DEF IInv, Preparing
<1>3. n \in 1 .. LastSlot
  BY <1>1, Constants
<1>4. \A id \in Ids : /\ Vals(flash[cur], id) = Vals(flash[prv], id)
                      /\ Read(flash[cur], id) = Read(flash[prv], id)
  BY <1>1, <1>2, <1>3, CopyValues
<1>5. s = cur \/ s = prv
  <2> HIDE DEF cur, prv
  <2>1. s \in Sectors /\ cur \in Sectors /\ s <= cur /\ (s # prv => cur <= s)
    BY <1>1, BootSector DEF IsBoot
  <2> QED BY <2>1, Constants
<1> QED BY <1>4, <1>5

\* A quiet step shows nothing.
LEMMA HiddenShows ==
  ASSUME IInv, formatting' = formatting, NEW x \in Sectors, NEW new \in SectorStates,
         HiddenStep(x, new)
  PROVE  UNCHANGED <<Shown, Found>>
<1>1. CASE formatting
  BY <1>1, ShownNothing
<1>2. CASE ~formatting
  <2>1. /\ flash \in [Sectors -> SectorStates] /\ Sound
        /\ new.hdr # "active" \/ new = ZeroedSector
        /\ flash' = [flash EXCEPT ![x] = new]
    BY DEF IInv, Typed, HiddenStep
  <2>2. Bootable' = Bootable \ {x}
    BY <2>1, Hidden
  <2>3. \A s \in Sectors : s # x => flash'[s] = flash[s]
    BY <2>1
  <2>4. CASE ~IsBoot(x) /\ Bootable = {}
    <3>1. Bootable' = {}
      BY <2>2, <2>4
    <3> QED BY <2>4, <3>1, ShownNothing
  <2>5. CASE ~IsBoot(x) /\ Bootable # {}
    <3>1. PICK s \in Sectors : IsBoot(s)
      BY <2>5, BootExists
    <3>2. s # x /\ IsBoot(s)'
      BY <2>2, <2>5, <3>1 DEF IsBoot
    <3> QED BY <2>3, <3>1, <3>2, SameShown
  <2>6. CASE pc = "gcDrop" /\ x = Previous(currentSector)
    <3>1. PICK c \in Sectors : c = currentSector
      BY <2>6, Working DEF CollectSteps
    <3>2. c \in Bootable /\ x # c /\ \A u \in Bootable \ {x} : c <= u
      BY <2>6, <3>1, Working, Neighbours DEF CollectSteps, IInv, Newest
    <3>3. PICK s \in Sectors : IsBoot(s)
      BY <3>2, BootExists
    <3>4. IsBoot(c)' /\ flash'[c] = flash[c]
      <4>1. c \in Bootable' /\ \A u \in Bootable' : c <= u
        BY <2>2, <3>2
      <4> QED BY <2>3, <3>2, <4>1 DEF IsBoot
    <3>5. \A id \in Ids : /\ Vals(flash[c], id) = Vals(flash[s], id)
                          /\ Read(flash[c], id) = Read(flash[s], id)
      BY <2>6, <3>1, <3>3, DropShows
    <3> QED BY <3>3, <3>4, <3>5, SameShown
  <2> QED BY <1>2, <2>4, <2>5, <2>6 DEF HiddenStep
<1> QED BY <1>1, <1>2

LEMMA UnreadShows ==
  ASSUME IInv, formatting' = formatting, NEW e \in Entries, UnreadStep(e)
  PROVE  UNCHANGED <<Shown, Found>>
<1> DEFINE cur == currentSector
           n   == writeIndex
           sec == flash[cur]
           new == Put(sec, n, e)
<1>1. /\ e.st # "valid" /\ sec.slot[n].st # "valid" /\ Program(cur, n, e)
      /\ LogSector(new) /\ pc \in WriteSteps
  BY DEF UnreadStep, WriteSteps
<1>2. sec \in SectorStates /\ LogSector(sec) /\ n \in Slots /\ cur \in Sectors
  BY <1>1, Working
<1>3. PICK c \in Sectors : c = cur
  BY <1>2
<1>4. flash'[c] = new /\ IsBoot(c) /\ IsBoot(c)' /\ flash[c] = sec
  BY <1>1, <1>2, <1>3, CurrentProgrammed
<1> HIDE DEF sec, n, cur
<1>5. \A id \in Ids : Valid(new, id) = Valid(sec, id) /\ Read(new, id) = Read(sec, id)
  BY <1>1, <1>2, Unread
<1>6. \A k \in 1 .. ScanEnd : k # n => new.slot[k] = sec.slot[k]
  BY <1>2, PutValue, Constants
<1>7. \A id \in Ids : \A k \in Valid(sec, id) : k # n /\ k \in 1 .. ScanEnd
  BY <1>1 DEF Valid
<1> HIDE DEF new
<1>8. \A id \in Ids : Vals(new, id) = Vals(sec, id)
  <2> SUFFICES ASSUME NEW id \in Ids PROVE Vals(new, id) = Vals(sec, id)
    OBVIOUS
  <2>1. Valid(new, id) = Valid(sec, id)
        /\ \A k \in Valid(sec, id) : new.slot[k] = sec.slot[k]
    BY <1>5, <1>6, <1>7
  <2> QED BY <2>1 DEF Vals
<1> QED BY <1>4, <1>5, <1>8, SameShown

LEMMA QuietShows ==
  ASSUME IInv, QuietFlash, formatting' = formatting
  PROVE  UNCHANGED <<Shown, Found>>
<1>1. CASE flash' = flash
  <2>1. Bootable' = Bootable
    BY <1>1, FlashKept
  <2>2. CASE Bootable = {}
    BY <2>1, <2>2, ShownNothing
  <2>3. CASE Bootable # {}
    <3>1. PICK s \in Sectors : IsBoot(s)
      BY <2>3, BootExists
    <3>2. IsBoot(s)'
      BY <2>1, <3>1 DEF IsBoot
    <3> QED BY <1>1, <3>1, <3>2, SameShown
  <2> QED BY <2>2, <2>3
<1> QED BY <1>1, HiddenShows, UnreadShows DEF QuietFlash
-----------------------------------------------------------------------------
(***************************************************************************)
(* The abstract store, with the copies and the values that the flash store *)
(* shows: it never goes back to an older value.                            *)
(***************************************************************************)
\* NvmStore's definitions, of what is shown.
LEMMA StoreTerms ==
  /\ Store!Nothing = [id \in Ids |-> {}]
  /\ \A c : Store!Values(c) = Values(c)
  /\ Store!Init <=> /\ Shown = [id \in Ids |-> {}]
                    /\ Found = Values([id \in Ids |-> {}]) /\ formatting = FALSE
  /\ Store!Inv <=> /\ Shown \in [Ids -> SUBSET Versions]
                   /\ Found = Values(Shown) /\ formatting \in BOOLEAN
                   /\ formatting => Shown = [id \in Ids |-> {}]
  /\ Store!NotOlder <=> formatting' \/ \A id \in Ids : Found'[id] >= Found[id]
<1>1. Store!Nothing = [id \in Ids |-> {}]
  BY DEF Store!Nothing
<1>2. \A S : Store!Min(S) = Min(S)
  BY DEF Store!Min, Min
<1>3. \A c : Store!Values(c) = Values(c)
  BY <1>2 DEF Store!Values, Store!Oldest, Values, Oldest
<1>4. Store!Init <=> /\ Shown = [id \in Ids |-> {}]
                     /\ Found = Values([id \in Ids |-> {}]) /\ formatting = FALSE
  BY <1>1, <1>3 DEF Store!Init, Shown, Found
<1>5. Store!Inv <=> /\ Shown \in [Ids -> SUBSET Versions]
                    /\ Found = Values(Shown) /\ formatting \in BOOLEAN
                    /\ formatting => Shown = [id \in Ids |-> {}]
  BY <1>1, <1>3 DEF Store!Inv, Shown, Found, Versions
<1>6. Store!NotOlder <=> formatting' \/ \A id \in Ids : Found'[id] >= Found[id]
  BY DEF Store!NotOlder, Found
<1> QED BY <1>1, <1>3, <1>4, <1>5, <1>6

LEMMA StoreSteps ==
  /\ Store!Next <=>
       /\ \/ \E id \in Ids : (\E v \in Versions : Store!Commit(id, v)) \/ Store!Retire(id)
          \/ Store!FormatBegins \/ Store!FormatEnds
       /\ Found' = Values(Shown')
  /\ \A id \in Ids, v \in Versions : Store!Commit(id, v) <=>
       /\ ~formatting /\ formatting' = formatting
       /\ \A c \in Shown[id] : v > c
       /\ Shown' = [Shown EXCEPT ![id] = Shown[id] \cup {v}]
  /\ \A id \in Ids : Store!Retire(id) <=>
       /\ ~formatting /\ formatting' = formatting
       /\ \E c \in Shown[id] : c > Found[id]
       /\ Shown' = [Shown EXCEPT ![id] = Shown[id] \ {Found[id]}]
  /\ Store!FormatBegins <=> formatting' = TRUE /\ Shown' = [id \in Ids |-> {}]
  /\ Store!FormatEnds <=>
       formatting /\ formatting' = FALSE /\ Shown' = [id \in Ids |-> {}]
  /\ UNCHANGED Store!vars <=> UNCHANGED <<Shown, Found, formatting>>
<1>1. Store!Next <=>
        /\ \/ \E id \in Ids : (\E v \in Versions : Store!Commit(id, v)) \/ Store!Retire(id)
           \/ Store!FormatBegins \/ Store!FormatEnds
        /\ Found' = Values(Shown')
  <2>1. \A c : Store!Values(c) = Values(c)
    BY StoreTerms
  <2> QED BY <2>1 DEF Store!Next, Shown, Found, Versions
<1>2. \A id \in Ids, v \in Versions : Store!Commit(id, v) <=>
        /\ ~formatting /\ formatting' = formatting
        /\ \A c \in Shown[id] : v > c
        /\ Shown' = [Shown EXCEPT ![id] = Shown[id] \cup {v}]
  BY DEF Store!Commit, Shown
<1>3. \A id \in Ids : Store!Retire(id) <=>
        /\ ~formatting /\ formatting' = formatting
        /\ \E c \in Shown[id] : c > Found[id]
        /\ Shown' = [Shown EXCEPT ![id] = Shown[id] \ {Found[id]}]
  BY DEF Store!Retire, Shown, Found
<1>4. /\ Store!FormatBegins <=> formatting' = TRUE /\ Shown' = [id \in Ids |-> {}]
      /\ Store!FormatEnds <=>
           formatting /\ formatting' = FALSE /\ Shown' = [id \in Ids |-> {}]
      /\ UNCHANGED Store!vars <=> UNCHANGED <<Shown, Found, formatting>>
  BY DEF Store!FormatBegins, Store!FormatEnds, Store!vars, Store!Nothing, Shown, Found
<1> QED BY <1>1, <1>2, <1>3, <1>4

\* What a step of the store does to the copies and to what is read.
LEMMA StoreStep ==
  ASSUME Store!Inv, [Store!Next]_Store!vars
  PROVE  Store!Inv' /\ Store!NotOlder
<1>1. /\ Shown \in [Ids -> SUBSET Versions] /\ Found = Values(Shown)
      /\ formatting \in BOOLEAN /\ (formatting => Shown = [id \in Ids |-> {}])
  BY StoreTerms
<1>2. Versions \subseteq Nat
  BY DEF Versions
<1>3. ASSUME Shown' \in [Ids -> SUBSET Versions], Found' = Values(Shown'),
             formatting' \in BOOLEAN, formatting' => Shown' = [id \in Ids |-> {}]
      PROVE  Store!Inv'
  <2>1. \A c : Store!Values(c) = Values(c)
    BY StoreTerms
  <2> QED BY <1>3, <2>1 DEF Store!Inv, Store!Nothing, Shown, Found, Versions
<1>4. ASSUME Found' = Values(Shown'),
             \A k \in Ids : Oldest(Shown'[k]) >= Oldest(Shown[k])
      PROVE  Store!NotOlder
  BY <1>1, <1>4, StoreTerms DEF Values
<1>5. \A k \in Ids : Shown[k] \in SUBSET Nat /\ Oldest(Shown[k]) \in Nat
  BY <1>1, <1>2, OldestValue
<1>6. ASSUME NEW id \in Ids, NEW v \in Versions, Store!Commit(id, v),
             Found' = Values(Shown')
      PROVE  Store!Inv' /\ Store!NotOlder
  <2> DEFINE S == Shown[id]
  <2>1. /\ ~formatting /\ formatting' = formatting /\ \A c \in S : v > c
        /\ Shown' = [Shown EXCEPT ![id] = S \cup {v}]
    BY <1>6, StoreSteps
  <2>2. \A k \in Ids : Shown'[k] = IF k = id THEN S \cup {v} ELSE Shown[k]
    BY <1>1, <2>1
  <2>3. Oldest(S \cup {v}) >= Oldest(S)
    <3>1. S \in SUBSET Nat /\ v \in Nat
      BY <1>2, <1>5
    <3>5. \A c \in S : v > c
      BY <2>1
    <3> HIDE DEF S
    <3>2. /\ S \cup {v} # {} /\ Oldest(S \cup {v}) \in S \cup {v}
          /\ Oldest(S \cup {v}) \in Nat
      BY <3>1, OldestValue
    <3>3. CASE S = {}
      BY <3>1, <3>2, <3>3, OldestValue
    <3>4. CASE S # {}
      <4>1. Oldest(S) \in S /\ \A y \in S : Oldest(S) <= y
        BY <3>1, <3>4, OldestValue
      <4>2. v > Oldest(S)
        BY <3>5, <4>1
      <4> DEFINE o == Oldest(S)
                 p == Oldest(S \cup {v})
      <4>3. p \in S \/ p = v
        BY <3>2
      <4>4. o \in Nat /\ p \in Nat
        BY <3>1, <3>2, <4>1
      <4>5. p \in S => o <= p
        BY <4>1
      <4> HIDE DEF o, p
      <4>6. p >= o
        BY <3>1, <4>2, <4>3, <4>4, <4>5 DEF o
      <4> QED BY <4>6 DEF o, p
    <3> QED BY <3>3, <3>4
  <2>4. Store!Inv'
    BY <1>1, <1>3, <1>6, <2>1
  <2>5. \A k \in Ids : Oldest(Shown'[k]) >= Oldest(Shown[k])
    BY <1>5, <2>2, <2>3
  <2> QED BY <1>4, <1>6, <2>4, <2>5
<1>7. ASSUME NEW id \in Ids, Store!Retire(id), Found' = Values(Shown')
      PROVE  Store!Inv' /\ Store!NotOlder
  <2> DEFINE S == Shown[id]
             T == S \ {Found[id]}
  <2>1. /\ ~formatting /\ formatting' = formatting /\ \E c \in S : c > Found[id]
        /\ Shown' = [Shown EXCEPT ![id] = T]
    BY <1>7, StoreSteps
  <2>2. \A k \in Ids : Shown'[k] = IF k = id THEN T ELSE Shown[k]
    BY <1>1, <2>1
  <2>3. Oldest(T) >= Oldest(S)
    <3>1. S \in SUBSET Nat /\ T \in SUBSET Nat /\ T \subseteq S /\ Found[id] = Oldest(S)
      BY <1>1, <1>5 DEF Values
    <3>2. T # {}
      <4>1. PICK c \in S : c > Found[id]
        BY <2>1
      <4>2. c # Found[id]
        BY <1>5, <3>1, <4>1
      <4> QED BY <4>1, <4>2
    <3> HIDE DEF S, T
    <3>3. Oldest(T) \in T /\ Oldest(T) \in Nat /\ Oldest(S) \in Nat
          /\ \A y \in S : Oldest(S) <= y
      BY <3>1, <3>2, OldestValue
    <3> QED BY <3>1, <3>3
  <2>4. Store!Inv'
    BY <1>1, <1>3, <1>7, <2>1
  <2>5. \A k \in Ids : Oldest(Shown'[k]) >= Oldest(Shown[k])
    BY <1>5, <2>2, <2>3
  <2> QED BY <1>4, <1>7, <2>4, <2>5
<1>8. CASE (Store!FormatBegins \/ Store!FormatEnds) /\ Found' = Values(Shown')
  <2>1. /\ formatting' \in BOOLEAN /\ Shown' = [id \in Ids |-> {}]
        /\ formatting' \/ Shown = [id \in Ids |-> {}]
    BY <1>1, <1>8, StoreSteps
  <2>2. Store!Inv'
    BY <1>3, <1>8, <2>1
  <2>3. Store!NotOlder
    <3>1. CASE formatting'
      BY <3>1, StoreTerms
    <3>2. CASE Shown = [id \in Ids |-> {}]
      <4>1. \A k \in Ids : Oldest(Shown'[k]) >= Oldest(Shown[k])
        BY <1>5, <2>1, <3>2
      <4> QED BY <1>4, <1>8, <4>1
    <3> QED BY <2>1, <3>1, <3>2
  <2> QED BY <2>2, <2>3
<1>9. CASE UNCHANGED Store!vars
  <2>1. UNCHANGED <<Shown, Found, formatting>>
    BY <1>9, StoreSteps
  <2> QED BY <1>1, <1>3, <1>4, <1>5, <2>1
<1> QED BY <1>6, <1>7, <1>8, <1>9, StoreSteps

(***************************************************************************)
(* In the abstract store read() finds the oldest surviving copy of an id,  *)
(* and nothing while a format() is pending.                                *)
(***************************************************************************)
THEOREM StoreInvariance == Store!Spec => []Store!Inv
<1>1. Store!Init => Store!Inv
  <2> SUFFICES ASSUME Store!Init PROVE Store!Inv
    OBVIOUS
  <2>1. /\ Shown = [id \in Ids |-> {}] /\ formatting = FALSE
        /\ Found = Values([id \in Ids |-> {}])
    BY StoreTerms
  <2> QED BY <2>1, StoreTerms
<1>2. Store!Inv /\ [Store!Next]_Store!vars => Store!Inv'
  BY StoreStep
<1> QED BY <1>1, <1>2, PTL DEF Store!Spec

(***************************************************************************)
(* The abstract store never goes back: outside format() a value that       *)
(* read() finds is only ever replaced by a newer one.                      *)
(***************************************************************************)
THEOREM StoreNeverOlder == Store!Spec => Store!NeverOlder
<1>1. Store!Inv /\ [Store!Next]_Store!vars => [Store!NotOlder]_Store!vars
  BY StoreStep
<1> QED BY <1>1, StoreInvariance, PTL DEF Store!Spec, Store!NeverOlder
-----------------------------------------------------------------------------
(***************************************************************************)
(* The flash store implements NvmStore.                                    *)
(***************************************************************************)
\* The activation of the collector's copy shows nothing new.
LEMMA ActivateShows ==
  ASSUME IInv, GcActivate
  PROVE  UNCHANGED <<Shown, Found>>
<1> DEFINE old == flash[currentSector]
           new == Mark(flash[Other(currentSector)], "active")
<1>1. /\ old \in SectorStates /\ LogSector(old) /\ new \in SectorStates
      /\ new.hdr = "active"
  BY ActivatedSector
<1>2. PICK n \in 1 .. LastSlot : Log(new, n) /\ IsCopy(new, n - 1, old, LastSlot)
  BY ActivatedSector
<1>3. PICK c \in Sectors : c = currentSector
  BY Working DEF GcActivate, Step, CollectSteps
<1>4. PICK o \in Sectors : o = Other(currentSector)
  BY ActivatedSector
<1>5. /\ o # c /\ flash' = [flash EXCEPT ![o] = new]
      /\ flash[c] = old /\ IsBoot(c) /\ flash \in [Sectors -> SectorStates]
  BY <1>3, <1>4, ActivatedSector, Working DEF GcActivate, Step, CollectSteps, IInv, Typed
<1> HIDE DEF old, new
<1>6. LogSector(new)
  BY <1>1, <1>2, CopySector
<1>7. \A id \in Ids : Vals(new, id) = Vals(old, id) /\ Read(new, id) = Read(old, id)
  BY <1>1, <1>2, CopyValues
<1>8. /\ flash'[o] = new /\ flash'[c] = old
      /\ \A s \in Sectors : s # o => (s \in Bootable' <=> s \in Bootable)
      /\ c \in Bootable' /\ Bootable' \subseteq Sectors
  BY <1>1, <1>5, OneSector DEF IsBoot
<1>9. PICK t \in Sectors : IsBoot(t)'
  BY <1>8, BootAfter
<1>10. t = c \/ t = o
  <2> SUFFICES ASSUME t # o PROVE t = c
    OBVIOUS
  <2>1. t \in Bootable' /\ t <= c
    BY <1>8, <1>9 DEF IsBoot
  <2>2. c <= t
    BY <1>5, <1>8, <2>1 DEF IsBoot
  <2> QED BY <2>1, <2>2, Constants
<1>11. formatting' = formatting
  BY DEF GcActivate, ghost
<1>12. \A id \in Ids : /\ Vals(flash'[t], id) = Vals(flash[c], id)
                       /\ Read(flash'[t], id) = Read(flash[c], id)
  BY <1>5, <1>7, <1>8, <1>10
<1> QED BY <1>5, <1>9, <1>11, <1>12, SameShown

\* What is shown before and after a step that programs the current sector.
LEMMA ProgramShows ==
  ASSUME IInv, pc \in WriteSteps, NEW n \in Slots, NEW e \in Entries,
         LogSector(Put(flash[currentSector], n, e)), Program(currentSector, n, e),
         ~formatting, ~formatting'
  PROVE  \A id \in Ids :
           /\ Shown[id] = Vals(flash[currentSector], id)
           /\ Found[id] = Read(flash[currentSector], id)
           /\ Shown'[id] = Vals(Put(flash[currentSector], n, e), id)
<1>1. PICK c \in Sectors : c = currentSector
  BY Working
<1>2. /\ flash'[c] = Put(flash[currentSector], n, e)
      /\ IsBoot(c) /\ IsBoot(c)'
  BY <1>1, CurrentProgrammed
<1> QED BY <1>1, <1>2, ShownAt, ShownAfter

\* The validation of a new entry is the abstract store's Commit.
LEMMA CommitShows ==
  ASSUME IInv, Aged, WriteValidate, ~formatting
  PROVE  Store!Commit(req.id, req.val) /\ req.id \in Ids /\ req.val \in Versions
<1> DEFINE n   == writeIndex
           id  == req.id
           v   == req.val
           e   == Entry(id, v, "valid")
           sec == flash[currentSector]
           new == Put(sec, n, e)
<1>1. /\ sec \in SectorStates /\ LogSector(sec) /\ currentSector \in Bootable
      /\ id \in Ids /\ v \in 0 .. MaxWrites /\ v # NoData
      /\ n \in 1 .. ScanEnd /\ n \in Slots /\ pc = "validate"
  BY Working, Constants DEF WriteValidate, WriteSteps, CollectSteps, IInv, Control, Typed
<1>2. Log(sec, n + 1) /\ sec.slot[n].st = "raw"
  BY DEF WriteValidate, IInv, Position
<1>3. e \in Entries /\ e.val = v /\ e.id = id /\ e.st = "valid" /\ Proper(e)
  BY <1>1 DEF Entry, Entries, Proper
<1>4. v \in Versions /\ v = writes /\ Latest = writes - 1
  BY <1>1, NvmAssumption DEF Versions, NoData, Aged, Latest, Uncommitted, WriteSteps
<1>5. InOrder(sec, Latest)
  BY <1>1 DEF Aged
<1>6. Program(currentSector, n, e) /\ formatting' = formatting
  BY DEF WriteValidate
<1> HIDE DEF sec, e, n, id, v
<1>7. /\ Valid(new, id) = Valid(sec, id) \cup {n}
      /\ \A i \in Ids : i # id => Valid(new, i) = Valid(sec, i)
      /\ LogSector(new)
  BY <1>1, <1>2, <1>3, Validated, PutAtEnd
<1>8. /\ new.slot[n] = e /\ \A k \in 1 .. ScanEnd : k # n => new.slot[k] = sec.slot[k]
  BY <1>1, <1>3, PutValue, Constants
<1>9. \A i \in Ids : \A k \in Valid(sec, i) : k # n /\ k \in 1 .. ScanEnd
  BY <1>2 DEF Valid
<1> HIDE DEF new
<1>10. Vals(new, id) = Vals(sec, id) \cup {v}
  BY <1>1, <1>3, <1>7, <1>8, <1>9 DEF Vals
<1>11. \A i \in Ids : i # id => Vals(new, i) = Vals(sec, i)
  <2> SUFFICES ASSUME NEW i \in Ids, i # id PROVE Vals(new, i) = Vals(sec, i)
    OBVIOUS
  <2>1. Valid(new, i) = Valid(sec, i) /\ \A k \in Valid(sec, i) : new.slot[k] = sec.slot[k]
    BY <1>7, <1>8, <1>9
  <2> QED BY <2>1 DEF Vals
<1>12. \A c \in Vals(sec, id) : v > c
  <2>1. \A k \in Valid(sec, id) : k \in Slots /\ sec.slot[k].st = "valid"
                                  /\ sec.slot[k].val \in Nat
    BY <1>1, Constants DEF Valid, SectorStates, Entries
  <2>2. \A k \in Valid(sec, id) : sec.slot[k].val <= writes - 1
    BY <1>4, <1>5, <2>1 DEF InOrder
  <2>3. v \in Nat
    BY <1>1
  <2> QED BY <1>4, <2>1, <2>2, <2>3 DEF Vals
<1>13. \A i \in Ids : Shown[i] = Vals(sec, i) /\ Shown'[i] = Vals(new, i)
  BY <1>1, <1>3, <1>6, <1>7, ProgramShows DEF WriteSteps, sec, new
<1>14. Shown' = [Shown EXCEPT ![id] = Shown[id] \cup {v}]
  BY <1>1, <1>10, <1>11, <1>13 DEF Shown
<1>15. Store!Commit(id, v)
  BY <1>1, <1>4, <1>6, <1>12, <1>13, <1>14, StoreSteps
<1> QED BY <1>1, <1>4, <1>15 DEF id, v

\* The invalidation of the entry it replaces is Retire.
LEMMA RetireShows ==
  ASSUME IInv, Aged, WriteRetire, ~formatting
  PROVE  Store!Retire(req.id) /\ req.id \in Ids
<1> DEFINE id  == req.id
           k   == req.old
           m   == writeIndex - 1
           sec == flash[currentSector]
           d   == [sec.slot[k] EXCEPT !.st = "dead"]
           new == Put(sec, k, d)
<1>1. /\ sec \in SectorStates /\ LogSector(sec) /\ currentSector \in Bootable
      /\ id \in Ids /\ pc = "retire" /\ writeIndex \in 1 .. LastSlot /\ writeIndex \in Slots
  BY Working DEF WriteRetire, Step, WriteSteps
<1>2. /\ k \in Valid(sec, id) /\ k \in 1 .. ScanEnd /\ k \in Slots /\ k < writeIndex
      /\ d \in Entries /\ d.st = "dead" /\ Program(currentSector, k, d)
  BY RetiredEntry
<1>3. /\ k = FindEntry(sec, id) /\ 0 < k /\ k < m
      /\ sec.slot[m] = Entry(id, req.val, "valid") /\ Log(sec, writeIndex)
  BY <1>1 DEF IInv, Replacing, WriteSteps, Position
<1>4. InOrder(sec, Latest)
  BY <1>1 DEF Aged
<1>5. m \in 1 .. ScanEnd /\ formatting' = formatting
  BY <1>1, <1>2, <1>3, Constants DEF WriteRetire
<1>6. m \in Valid(sec, id)
  BY <1>3, <1>5 DEF Valid, Entry
<1> HIDE DEF id, sec, d, k, m
<1>7. /\ LogSector(new)
      /\ \A i \in Ids : Valid(new, i) = Valid(sec, i) \ {k}
      /\ \A i \in Ids : i # sec.slot[k].id => Valid(new, i) = Valid(sec, i)
  BY <1>1, <1>2, <1>3, Retired
<1>8. sec.slot[k].id = id /\ sec.slot[k].st = "valid"
  BY <1>2 DEF Valid
<1>9. \A j \in 1 .. ScanEnd : j # k => new.slot[j] = sec.slot[j]
  <2>1. \A j \in Slots : j # k => new.slot[j] = sec.slot[j]
    BY <1>1, <1>2, PutValue
  <2>2. 1 .. ScanEnd \subseteq Slots
    BY Constants
  <2> QED BY <2>1, <2>2
<1> HIDE DEF new
<1>10. \A j \in Valid(sec, id) : /\ j \in 1 .. ScanEnd /\ j \in Slots /\ j \in Nat
                                /\ sec.slot[j].st = "valid" /\ sec.slot[j].val \in Nat
  BY <1>1, Constants DEF Valid, SectorStates, Entries
<1>11. \A j \in Valid(sec, id) : j # k => sec.slot[j].val # sec.slot[k].val
  <2> SUFFICES ASSUME NEW j \in Valid(sec, id), j # k
               PROVE  sec.slot[j].val # sec.slot[k].val
    OBVIOUS
  <2>1. j < k \/ k < j
    <3>1. j \in Nat /\ k \in Nat
      BY <1>2, <1>10
    <3> QED BY <3>1
  <2>2. j < k => sec.slot[j].val < sec.slot[k].val
    BY <1>2, <1>4, <1>10 DEF InOrder
  <2>3. k < j => sec.slot[k].val < sec.slot[j].val
    BY <1>2, <1>4, <1>10 DEF InOrder
  <2> QED BY <1>2, <1>10, <2>1, <2>2, <2>3
<1>12. Vals(new, id) = Vals(sec, id) \ {sec.slot[k].val}
  <2>1. \A j \in Valid(new, id) : j \in Valid(sec, id) /\ j # k
                                  /\ new.slot[j] = sec.slot[j]
    BY <1>1, <1>7, <1>9, <1>10
  <2>2. \A j \in Valid(sec, id) : j # k => j \in Valid(new, id)
    BY <1>1, <1>7
  <2> QED BY <1>11, <2>1, <2>2 DEF Vals
<1>13. \A i \in Ids : i # id => Vals(new, i) = Vals(sec, i)
  <2> SUFFICES ASSUME NEW i \in Ids, i # id PROVE Vals(new, i) = Vals(sec, i)
    OBVIOUS
  <2>1. Valid(new, i) = Valid(sec, i) /\ k \notin Valid(new, i)
    BY <1>7, <1>8
  <2>2. \A j \in Valid(sec, i) : new.slot[j] = sec.slot[j]
    BY <1>9, <2>1 DEF Valid
  <2> QED BY <2>1, <2>2 DEF Vals
<1>14. \A i \in Ids : /\ Shown[i] = Vals(sec, i) /\ Shown'[i] = Vals(new, i)
                      /\ Found[i] = Read(sec, i)
  BY <1>1, <1>2, <1>5, <1>7, ProgramShows DEF WriteSteps, sec, new
<1>15. Read(sec, id) = sec.slot[k].val
  BY <1>1, <1>2, <1>3, FindValue
<1>16. Shown' = [Shown EXCEPT ![id] = Shown[id] \ {Found[id]}]
  BY <1>1, <1>12, <1>13, <1>14, <1>15 DEF Shown
<1>17. \E c \in Shown[id] : c > Found[id]
  <2>1. sec.slot[k].val < sec.slot[m].val
    BY <1>2, <1>3, <1>4, <1>6, <1>10 DEF InOrder
  <2>2. sec.slot[m].val \in Vals(sec, id)
    BY <1>6 DEF Vals
  <2> QED BY <1>1, <1>2, <1>6, <1>10, <1>14, <1>15, <2>1, <2>2
<1>18. Store!Retire(id)
  BY <1>1, <1>5, <1>16, <1>17, StoreSteps
<1> QED BY <1>1, <1>18 DEF id

\* A pending format() hides everything; it shows an empty store once it is done.
LEMMA FormatShows ==
  /\ Format => formatting' = TRUE /\ Shown' = [id \in Ids |-> {}]
  /\ IInv /\ FormatActive =>
       formatting /\ formatting' = FALSE /\ Shown' = [id \in Ids |-> {}]
<1>1. Format => formatting' = TRUE /\ Shown' = [id \in Ids |-> {}]
  BY ShownNothing DEF Format
<1> SUFFICES ASSUME IInv, FormatActive
             PROVE  formatting /\ formatting' = FALSE /\ Shown' = [id \in Ids |-> {}]
  BY <1>1
<1> DEFINE new == Mark(flash[0], "active")
<1>2. flash \in [Sectors -> SectorStates] /\ 0 \in Sectors
  BY Constants DEF IInv, Typed
<1>3. /\ flash' = [flash EXCEPT ![0] = new] /\ new \in SectorStates
      /\ new.hdr = "active" /\ new.slot = flash[0].slot
  BY <1>2, FlashSteps DEF FormatActive
<1>4. \A k \in Slots : new.slot[k] = Blank
  <2>1. flash[0] = [ErasedSector EXCEPT !.hdr = "prep"]
    BY DEF IInv, Preparing, FormatActive, Step
  <2>2. flash[0].slot = ErasedSector.slot
    BY <2>1, Erased DEF SectorStates
  <2> QED BY <1>3, <2>2, Erased
<1> HIDE DEF new
<1>5. LogSector(new) /\ \A id \in Ids : Valid(new, id) = {}
  BY <1>4, BlankSector
<1>6. flash'[0] = new
  BY <1>2, <1>3
<1>7. IsBoot(0)'
  <2>1. 0 \in Bootable'
    BY <1>2, <1>3, <1>5, <1>6, Constants DEF Bootable, Sane, LogSector
  <2>2. Bootable' \subseteq Nat
    BY Constants DEF Bootable
  <2> QED BY <2>1, <2>2 DEF IsBoot
<1>8. formatting' = FALSE /\ formatting
  BY DEF FormatActive, Step, IInv, Preparing, FormatSteps
<1>9. \A id \in Ids : Shown'[id] = {}
  <2> SUFFICES ASSUME NEW id \in Ids PROVE Shown'[id] = {}
    OBVIOUS
  <2>1. Shown'[id] = Vals(flash'[0], id)
    BY <1>7, <1>8, ShownAfter
  <2> QED BY <1>5, <1>6, <2>1 DEF Vals
<1> QED BY <1>8, <1>9 DEF Shown

LEMMA FormattingKept ==
  ASSUME [Next]_vars
  PROVE  Format \/ FormatActive \/ formatting' = formatting
<1> USE DEF ghost
<1>1. CASE UNCHANGED vars
  BY <1>1 DEF vars
<1>2. CASE Begin \/ BeginSkip \/ BeginErase \/ BeginMount \/ BeginNone
  BY <1>2 DEF Begin, BeginSkip, BeginErase, BeginMount, BeginNone
<1>3. CASE FormatErase \/ FormatPrep \/ FormatFails
  BY <1>3 DEF FormatErase, FormatPrep, FormatFails
<1>4. ASSUME NEW id \in Ids, Write(id)
      PROVE  formatting' = formatting
  BY <1>4 DEF Write
<1>5. CASE WriteHeader \/ WritePayload \/ WriteValidate \/ WriteRetire \/ WriteRefused
  BY <1>5 DEF WriteHeader, WritePayload, WriteValidate, WriteRetire, WriteRefused
<1>6. CASE WriteEntryFails
  BY <1>6 DEF WriteEntryFails
<1>7. CASE WriteRetireFails
  BY <1>7 DEF WriteRetireFails
<1>8. CASE GcErase \/ GcPrep \/ GcCopy \/ GcCopyDone
  BY <1>8 DEF GcErase, GcPrep, GcCopy, GcCopyDone
<1>9. CASE GcActivate \/ GcDrop \/ GcFails
  BY <1>9 DEF GcActivate, GcDrop, GcFails
<1>10. CASE Crash
  BY <1>10 DEF Crash
<1> QED BY <1>1, <1>2, <1>3, <1>4, <1>5, <1>6, <1>7, <1>8, <1>9, <1>10 DEF Next

FoundIsOldest == Found = Values(Shown)

\* Every step of the flash store is one of the abstract store, or hidden in it.
LEMMA StepRefines ==
  ASSUME FailPoints \subseteq {"sector", "entry", "retire"}, IInv, Aged, [Next]_vars,
         FoundIsOldest'
  PROVE  [Store!Next]_Store!vars
<1>1. Found' = Values(Shown')
  BY DEF FoundIsOldest
<1>2. CASE Format
  <2>1. Store!FormatBegins
    BY <1>2, FormatShows, StoreSteps
  <2> QED BY <1>1, <2>1, StoreSteps
<1>3. CASE FormatActive
  <2>1. Store!FormatEnds
    BY <1>3, FormatShows, StoreSteps
  <2> QED BY <1>1, <2>1, StoreSteps
<1>4. CASE formatting' = formatting /\ formatting
  <2>1. UNCHANGED <<Shown, Found>>
    BY <1>4, ShownNothing
  <2> QED BY <1>4, <2>1, StoreSteps
<1>5. CASE formatting' = formatting /\ QuietFlash
  BY <1>5, QuietShows, StoreSteps
<1>6. CASE WriteValidate /\ ~formatting
  BY <1>1, <1>6, CommitShows, StoreSteps
<1>7. CASE WriteRetire /\ ~formatting
  BY <1>1, <1>7, RetireShows, StoreSteps
<1>8. CASE formatting' = formatting /\ GcActivate
  BY <1>8, ActivateShows, StoreSteps
<1> QED BY <1>2, <1>3, <1>4, <1>5, <1>6, <1>7, <1>8, FlashEffects, FormattingKept

LEMMA InitRefines == Init => Store!Init /\ Aged
<1> SUFFICES ASSUME Init PROVE Store!Init /\ Aged
  OBVIOUS
<1>1. Bootable = {} /\ formatting = FALSE /\ pc = "idle"
  BY Erased, Constants DEF Init, Bootable
<1>2. Shown = [id \in Ids |-> {}] /\ Found = [id \in Ids |-> NoData]
  BY <1>1, ShownNothing
<1>3. Values([id \in Ids |-> {}]) = [id \in Ids |-> NoData]
  BY DEF Values, Oldest, NoData
<1>4. Store!Init
  BY <1>1, <1>2, <1>3, StoreTerms
<1>5. Aged
  BY <1>1 DEF Aged, WriteSteps, CollectSteps
<1> QED BY <1>4, <1>5

LEMMA StaysAged ==
  ASSUME FailPoints \subseteq {"sector", "entry", "retire"}
  PROVE  Spec /\ []RoomLeft => [](IInv /\ Aged /\ FoundIsOldest)
<1>1. Init => IInv /\ Aged
  BY InitHolds, InitRefines
<1>2. IInv /\ Aged /\ RoomLeft' /\ [Next]_vars => IInv' /\ Aged'
  BY StepKeeps, AgedKeeps
<1>3. IInv /\ Aged => FoundIsOldest
  BY FoundOldest DEF FoundIsOldest
<1> QED BY <1>1, <1>2, <1>3, PTL DEF Spec

(***************************************************************************)
(* The flash store implements the abstract one: a write is visible in two  *)
(* steps, the validation of its entry and the invalidation of the one it   *)
(* replaces; the collector, begin(), a power loss at any point and the     *)
(* errors that FailPoints allows change nothing that a reset would read.   *)
(***************************************************************************)
THEOREM StoreImplemented ==
  ASSUME FailPoints \subseteq {"sector", "entry", "retire"}
  PROVE  /\ Spec /\ []RoomLeft => StoreSpec
         /\ Capacity => (Spec => StoreSpec)
<1>1. Init => Store!Init
  BY InitRefines
<1>2. IInv /\ Aged /\ FoundIsOldest' /\ [Next]_vars => [Store!Next]_Store!vars
  BY StepRefines
<1>3. Spec /\ []RoomLeft => StoreSpec
  BY <1>1, <1>2, StaysAged, PTL DEF Spec, StoreSpec, Store!Spec
<1>4. ASSUME Capacity PROVE Spec => StoreSpec
  BY <1>3, <1>4, RoomAlwaysLeft, PTL
<1> QED BY <1>3, <1>4
-----------------------------------------------------------------------------
(***************************************************************************)
(* What a reset has found so far (NvmHistory): the values in flash, and    *)
(* the floor that a format() sets, lie below the next write.               *)
(***************************************************************************)
Floor ==
  /\ newest \in [Ids -> Nat]
  /\ \A id \in Ids : newest[id] <= writes + 1
                     /\ (~formatting => newest[id] <= Latest + 1)

UpToWrites == /\ writes \in Nat /\ Latest \in Int /\ Latest <= writes
              /\ ~Uncommitted => Latest = writes

LEMMA LatestIs == IInv => UpToWrites
BY NvmAssumption DEF IInv, Typed, Latest, UpToWrites

FoundSoFar == \A id \in Ids :
  Found[id] \in Nat /\ (Found[id] = NoData \/ Found[id] <= Latest)

LEMMA FoundBelow == IInv /\ Aged => FoundSoFar
<1> SUFFICES ASSUME IInv, Aged, NEW id \in Ids
             PROVE  Found[id] \in Nat /\ (Found[id] = NoData \/ Found[id] <= Latest)
  BY DEF FoundSoFar
<1>1. CASE Bootable = {} \/ formatting
  BY <1>1, ShownNothing DEF NoData
<1>2. CASE Bootable # {} /\ ~formatting
  <2>1. PICK s \in Sectors : IsBoot(s)
    BY <1>2, BootExists
  <2> DEFINE sec == flash[s]
             f   == FindEntry(sec, id)
  <2>2. sec \in SectorStates /\ InOrder(sec, Latest) /\ LogSector(sec)
    BY <2>1, InUse DEF IsBoot, IInv, Typed, Aged
  <2>3. Found[id] = Read(sec, id)
    BY <1>2, <2>1, ShownAt
  <2>4. CASE Valid(sec, id) = {}
    BY <2>2, <2>3, <2>4, FindValue DEF NoData
  <2>5. CASE Valid(sec, id) # {}
    <3>1. f \in Valid(sec, id) /\ Read(sec, id) = sec.slot[f].val
      BY <2>2, <2>5, FindValue
    <3>2. f \in Slots /\ sec.slot[f].st = "valid"
      BY <3>1, Constants DEF Valid
    <3>3. sec.slot[f].val \in Nat
      BY <2>2, <3>2, NvmAssumption DEF SectorStates, Entries
    <3> QED BY <2>2, <2>3, <3>1, <3>2, <3>3 DEF InOrder
  <2> QED BY <2>4, <2>5
<1> QED BY <1>1, <1>2

\* What one step may do to what a reset finds, outside format().
LEMMA FoundMoves ==
  ASSUME FailPoints \subseteq {"sector", "entry", "retire"}, IInv, Aged, [Next]_vars,
         FoundIsOldest', ~formatting', NEW id \in Ids
  PROVE  \/ formatting /\ FormatActive /\ Found'[id] = NoData
         \/ ~formatting /\ Found[id] # NoData /\ Found'[id] >= Found[id]
         \/ ~formatting /\ Found[id] = NoData /\ Found'[id] = NoData
         \/ ~formatting /\ Found[id] = NoData /\ WriteValidate /\ Found'[id] = req.val
<1>1. Shown \in [Ids -> SUBSET Versions] /\ Found = Values(Shown)
  BY FoundOldest
<1>2. Found' = Values(Shown')
  BY DEF FoundIsOldest
<1>3. Versions \subseteq Nat /\ 0 \notin Versions
  BY DEF Versions
<1>4. CASE formatting
  <2>1. FormatActive
    BY <1>4, FormattingKept, FormatShows
  <2>2. Shown'[id] = {}
    BY <2>1, FormatShows
  <2>3. Found'[id] = 0
    BY <1>2, <2>2 DEF Values, Oldest
  <2> QED BY <1>4, <2>1, <2>3 DEF NoData
<1>5. CASE ~formatting /\ Found[id] # NoData
  <2>1. formatting \in BOOLEAN
    BY DEF IInv, Typed
  <2>2. Store!Inv
    BY <1>1, <2>1, ShownNothing, StoreTerms
  <2>3. Store!NotOlder
    BY <2>2, StepRefines, StoreStep
  <2>4. Found'[id] >= Found[id]
    BY <2>3, StoreTerms
  <2> QED BY <1>5, <2>4
<1>6. CASE ~formatting /\ Found[id] = NoData
  <2>1. Shown[id] \in SUBSET Nat /\ 0 \notin Shown[id]
    BY <1>1, <1>3
  <2>2. Oldest(Shown[id]) = 0
    BY <1>1, <1>6 DEF Values, NoData
  <2>3. Shown[id] = {}
    BY <2>1, <2>2, OldestValue
  <2>4. ASSUME Shown'[id] = {} PROVE Found'[id] = NoData
    BY <1>2, <2>4 DEF Values, Oldest, NoData
  <2>5. formatting' = formatting /\ ~FormatActive
    BY <1>6, FormattingKept, FormatShows
  <2>6. CASE QuietFlash \/ GcActivate
    BY <2>3, <2>4, <2>5, <2>6, QuietShows, ActivateShows
  <2>7. CASE WriteRetire
    <3>1. Store!Retire(req.id) /\ req.id \in Ids
      BY <1>6, <2>7, RetireShows
    <3>2. Shown' = [Shown EXCEPT ![req.id] = Shown[req.id] \ {Found[req.id]}]
      BY <3>1, StoreSteps
    <3>3. Shown'[id] = {}
      BY <1>1, <2>3, <3>2
    <3> QED BY <1>6, <2>4, <3>3
  <2>8. CASE WriteValidate
    <3> DEFINE v == req.val
    <3>1. Store!Commit(req.id, v) /\ req.id \in Ids /\ v \in Versions
      BY <1>6, <2>8, CommitShows
    <3>2. Shown' = [Shown EXCEPT ![req.id] = Shown[req.id] \cup {v}]
      BY <3>1, StoreSteps
    <3>3. Shown'[id] = {} \/ Shown'[id] = {v}
      BY <1>1, <2>3, <3>2
    <3>4. CASE Shown'[id] = {v}
      <4>1. Oldest({v}) = v
        BY <1>3, <3>1, OldestValue
      <4>2. Found'[id] = v
        BY <1>2, <3>4, <4>1 DEF Values
      <4> QED BY <1>6, <2>8, <4>2
    <3> QED BY <1>6, <2>4, <3>3, <3>4
  <2> QED BY <2>5, <2>6, <2>7, <2>8, FlashEffects
<1> QED BY <1>4, <1>5, <1>6

\* A floor below the next write stays so.
LEMMA FloorRises ==
  ASSUME NEW a \in Nat, NEW b \in Nat, NEW c \in Nat, NEW w \in Nat,
         NEW l \in Int, NEW k \in Int, l <= k, k <= w, c <= l + 1,
         b = 0 \/ b <= k, b = 0 \/ (a # 0 /\ b >= a) \/ (a = 0 /\ b >= c),
         a = 0 \/ a >= c
  PROVE  LET n == IF b > c THEN b ELSE c
         IN  /\ n \in Nat /\ n <= k + 1 /\ n <= w + 1
             /\ b = 0 \/ b >= n
OBVIOUS

\* Without errors in copies nothing is lost.
LEMMA CopiesSucceed ==
  ASSUME FailPoints \subseteq {"sector", "entry", "retire"}
  PROVE  ~GcCopyFails
BY DEF GcCopyFails, Failure

LEMMA HistoryStep ==
  ASSUME FailPoints \subseteq {"sector", "entry", "retire"}, IInv, Aged, Next, Remember,
         FoundIsOldest', UpToWrites, UpToWrites', FoundSoFar, FoundSoFar',
         Floor, NothingOlderBack
  PROVE  Floor' /\ NothingOlderBack'
<1> DEFINE w == writes'
           l == Latest'
<1>1. /\ writes \in Nat /\ Latest \in Int /\ Latest <= writes
      /\ ~Uncommitted => Latest = writes
  BY DEF UpToWrites
<1>2. /\ w \in Nat /\ l \in Int /\ l <= w
      /\ ~Uncommitted' => l = w
  BY DEF UpToWrites
<1>3. Latest <= l
  BY LatestGrows
<1>4. w + 1 \in Nat
  <2> HIDE DEF w, l
  <2> QED BY <1>2
<1>5. ASSUME formatting'
      PROVE  Floor' /\ NothingOlderBack'
  <2>1. newest' = [id \in Ids |-> w + 1]
    BY <1>5 DEF Remember
  <2> DEFINE n == w + 1
  <2>2. n \in Nat /\ newest' = [id \in Ids |-> n]
    BY <1>4, <2>1
  <2>3. n <= n
    <3> HIDE DEF n
    <3> QED BY <2>2
  <2>4. \A id \in Ids : newest'[id] = n
    BY <2>2
  <2>5. newest' \in [Ids -> Nat]
    BY <2>2
  <2>6. \A id \in Ids : newest'[id] <= writes' + 1
    BY <2>3, <2>4
  <2> QED BY <1>5, <2>5, <2>6 DEF Floor, NothingOlderBack
<1>6. ASSUME ~formatting', NEW id \in Ids
      PROVE  /\ newest'[id] \in Nat
             /\ newest'[id] <= writes' + 1 /\ newest'[id] <= Latest' + 1
             /\ AtBoot(id)' = NoData \/ AtBoot(id)' >= newest'[id]
  <2> DEFINE a == Found[id]
             b == Found'[id]
             c == newest[id]
             n == IF b > c THEN b ELSE c
  <2>1. AtBoot(id)' = b /\ newest'[id] = n
    BY <1>6 DEF Remember, Found
  <2>2. b \in Nat /\ (b = 0 \/ b <= l)
    BY DEF FoundSoFar, NoData
  <2>3. c \in Nat /\ c <= writes + 1 /\ (~formatting => c <= Latest + 1)
    BY DEF Floor
  <2>4. a \in Nat
    BY DEF FoundSoFar
  <2>5. ~formatting => a = 0 \/ a >= c
    BY DEF NothingOlderBack, Found, NoData
  <2>6. /\ n \in Nat /\ n <= l + 1 /\ n <= w + 1
        /\ b = 0 \/ b >= n
    <3>1. CASE formatting /\ FormatActive /\ b = NoData
      <4>1. ~Uncommitted' /\ w = writes
        BY <3>1 DEF FormatActive, Step, Uncommitted, CollectSteps, counts
      <4>2. b = 0 /\ l = w /\ c <= w + 1
        BY <1>2, <2>3, <3>1, <4>1 DEF NoData
      <4> HIDE DEF a, b, c, w, l
      <4> QED BY <1>2, <2>3, <4>2
    <3>2. CASE ~formatting /\ a # NoData /\ b >= a
      <4>1. a # 0
        BY <3>2 DEF NoData
      <4> HIDE DEF a, b, c, w, l
      <4> QED BY <1>1, <1>2, <1>3, <2>2, <2>3, <2>4, <2>5, <3>2, <4>1, FloorRises
    <3>3. CASE ~formatting /\ a = NoData /\ b = NoData
      <4>1. a = 0 /\ b = 0
        BY <3>3 DEF NoData
      <4> HIDE DEF a, b, c, w, l
      <4> QED BY <1>1, <1>2, <1>3, <2>2, <2>3, <2>4, <3>3, <4>1, FloorRises
    <3>4. CASE ~formatting /\ a = NoData /\ WriteValidate /\ b = req.val
      <4>1. pc = "validate" /\ req.val = writes
        BY <3>4 DEF WriteValidate, Aged, WriteSteps
      <4>2. Latest = writes - 1
        BY <4>1 DEF Latest, Uncommitted
      <4>3. a = 0 /\ b = writes /\ c <= Latest + 1
        BY <2>3, <3>4, <4>1 DEF NoData
      <4> HIDE DEF a, b, c, w, l
      <4>4. b >= c
        BY <1>1, <2>3, <4>2, <4>3
      <4> QED BY <1>1, <1>2, <1>3, <2>2, <2>3, <2>4, <3>4, <4>3, <4>4, FloorRises
    <3> QED BY <1>6, <3>1, <3>2, <3>3, <3>4, FoundMoves
  <2> HIDE DEF a, b, c, n
  <2> QED BY <2>1, <2>6 DEF NoData
<1>7. ASSUME ~formatting'
      PROVE  Floor' /\ NothingOlderBack'
  <2>1. newest' \in [Ids -> Nat]
    <3>1. newest' = [id \in Ids |-> newest'[id]]
      BY DEF Remember
    <3> QED BY <1>6, <1>7, <3>1
  <2>2. \A id \in Ids : newest'[id] <= writes' + 1 /\ newest'[id] <= Latest' + 1
    BY <1>6, <1>7
  <2>3. NothingOlderBack'
    BY <1>6, <1>7 DEF NothingOlderBack
  <2> QED BY <2>1, <2>2, <2>3 DEF Floor
<1> QED BY <1>5, <1>7

(***************************************************************************)
(* So a reset finds the newest value of an id that was ever found since    *)
(* the last format(), a newer one, or none: no cut of the collector or of  *)
(* a write uncovers a stale entry, then or later.                          *)
(***************************************************************************)
THEOREM NothingOlderReturns ==
  ASSUME FailPoints \subseteq {"sector", "entry", "retire"}
  PROVE  /\ HSpec /\ []RoomLeft => []NothingOlderBack
         /\ Capacity => (HSpec => []NothingOlderBack)
<1>1. HInit => Floor /\ NothingOlderBack
  <2> SUFFICES ASSUME HInit PROVE Floor /\ NothingOlderBack
    OBVIOUS
  <2>1. IInv /\ Aged /\ writes = 0 /\ ~Uncommitted
    BY InitHolds, InitRefines DEF HInit, Init, Uncommitted, CollectSteps
  <2>2. Latest = 0
    BY <2>1 DEF Latest
  <2>3. \A id \in Ids : newest[id] = 0 /\ (~formatting => AtBoot(id) >= 0)
    BY <2>1, FoundBelow DEF HInit, NoData, Found, FoundSoFar
  <2> QED BY <2>1, <2>2, <2>3 DEF Floor, NothingOlderBack, HInit, NoData
<1>2. /\ IInv /\ Aged /\ FoundSoFar /\ FoundSoFar' /\ UpToWrites /\ UpToWrites'
      /\ FoundIsOldest' /\ Floor /\ NothingOlderBack /\ [HNext]_historyVars
      => Floor' /\ NothingOlderBack'
  <2> SUFFICES ASSUME IInv, Aged, FoundSoFar, FoundSoFar', UpToWrites, UpToWrites',
                      FoundIsOldest', Floor, NothingOlderBack, [HNext]_historyVars
               PROVE  Floor' /\ NothingOlderBack'
    OBVIOUS
  <2>1. CASE HNext
    BY <2>1, CopiesSucceed, HistoryStep DEF HNext
  <2>2. CASE UNCHANGED historyVars
    <3>1. UNCHANGED <<flash, pc, writes, formatting, newest>>
      BY <2>2 DEF historyVars, vars, counts, ghost
    <3>2. Latest' = Latest /\ \A id \in Ids : AtBoot(id)' = AtBoot(id)
      BY <3>1 DEF Latest, Uncommitted, AtBoot, Bootable
    <3> QED BY <3>1, <3>2 DEF Floor, NothingOlderBack
  <2> QED BY <2>1, <2>2
<1>3. HSpec => Spec
  <2>1. HInit => Init
    BY DEF HInit
  <2>2. [HNext]_historyVars => [Next]_vars
    BY CopiesSucceed DEF HNext, historyVars
  <2> QED BY <2>1, <2>2, PTL DEF HSpec, Spec
<1>4. HSpec /\ []RoomLeft => []NothingOlderBack
  BY <1>1, <1>2, <1>3, StaysAged, FoundBelow, LatestIs, PTL DEF HSpec
<1>5. ASSUME Capacity PROVE HSpec => []NothingOlderBack
  BY <1>3, <1>4, <1>5, RoomAlwaysLeft, PTL
<1> QED BY <1>4, <1>5
=============================================================================
