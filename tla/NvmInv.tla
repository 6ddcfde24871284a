------------------------------- MODULE NvmInv -------------------------------
(***************************************************************************)
(* Why the flash store keeps its promise: the inductive invariant, in      *)
(* terms of the sector a reset would mount, for a store whose format() and *)
(* collector meet no programming error and which is not full.              *)
(***************************************************************************)
EXTENDS Nvm

FormatSteps  == {"fmtErase", "fmtPrep", "fmtActive"}
WriteSteps   == {"header", "payload", "validate", "retire"}
CollectSteps == {"gcErase", "gcPrep", "gcCopy", "gcActive", "gcDrop"}

Entries == [id : Ids \cup {NoId}, val : 0 .. MaxWrites,
            st : {"blank", "torn", "raw", "valid", "dead", "zero"}]
SectorStates == [hdr : {"erased", "prep", "active"}, slot : [Slots -> Entries]]

Typed ==
  /\ flash \in [Sectors -> SectorStates]
  /\ currentSector \in Sectors \cup {NoSector}
  /\ writeIndex \in 0 .. LastSlot
  /\ req \in [id : Ids \cup {NoId}, val : 0 .. MaxWrites, old : 0 .. ScanEnd]
  /\ scan \in [src : Nat, dst : Nat]
  /\ writes \in 0 .. MaxWrites
  /\ acked \in [Ids -> 0 .. MaxWrites] /\ dirty \in [Ids -> BOOLEAN]
  /\ formatting \in BOOLEAN
-----------------------------------------------------------------------------
\* A log of n - 1 entries, and blank from there on.
Log(sec, n) ==
  \A k \in Slots : /\ k < n => sec.slot[k].st \in {"raw", "valid", "dead"}
                   /\ k >= n => sec.slot[k] = Blank

(***************************************************************************)
(* What a sector that is in use looks like, whatever was cut: entries come *)
(* first, one may be torn, the rest is blank, the last slot always.        *)
(***************************************************************************)
LogSector(sec) ==
  /\ \A k \in Slots : /\ sec.slot[k].st # "zero"
                      /\ sec.slot[k].st = "blank" => sec.slot[k] = Blank
                      /\ sec.slot[k].st = "valid" => /\ sec.slot[k].id \in Ids
                                                     /\ sec.slot[k].val # NoData
  /\ \A j, k \in Slots :
       j < k /\ sec.slot[j].st \in {"blank", "torn"} => sec.slot[k] = Blank
  /\ sec.slot[LastSlot] = Blank

(***************************************************************************)
(* The first m slots of new are the live entries among the first n slots   *)
(* of old, in their order: f says where each was.                          *)
(***************************************************************************)
IsCopy(new, m, old, n) ==
  \E f \in [1 .. m -> 1 .. n] :
    /\ \A j, k \in 1 .. m : j < k => f[j] < f[k]
    /\ \A k \in 1 .. m : /\ new.slot[k] = old.slot[f[k]]
                         /\ old.slot[f[k]].st = "valid"
    /\ \A j \in 1 .. n : old.slot[j].st = "valid" => \E k \in 1 .. m : f[k] = j
-----------------------------------------------------------------------------
\* A reset would mount s.
IsBoot(s) == s \in Bootable /\ \A u \in Bootable : s <= u

Control ==
  /\ pc \in {"idle", "begin"} \cup FormatSteps \cup WriteSteps \cup CollectSteps
  /\ pc \in FormatSteps => currentSector = NoSector
  /\ pc \in WriteSteps \cup CollectSteps =>
       /\ currentSector \in Sectors
       /\ req.id \in Ids /\ req.val # NoData
       /\ writeIndex > 0
  /\ pc \in {"header", "payload", "validate"} => writeIndex <= ScanEnd

Sound == \A s \in Sectors :
  flash[s].hdr = "active" => LogSector(flash[s]) \/ flash[s] = ZeroedSector

(***************************************************************************)
(* The current sector is the one a reset would mount; between the two ends *)
(* of a collection its predecessor may be, too.                            *)
(***************************************************************************)
Newest ==
  /\ currentSector # NoSector /\ pc \notin {"begin", "gcDrop"} =>
       IsBoot(currentSector)
  /\ pc = "gcDrop" =>
       /\ {currentSector, Previous(currentSector)} \subseteq Bootable
       /\ \A s \in Bootable \ {Previous(currentSector)} : currentSector <= s
  /\ pc = "begin" => scan.src <= NbSectors /\ \A s \in Bootable : scan.src <= s

\* Where the next entry goes is where the log ends.
Position ==
  /\ pc \in {"idle", "begin"} /\ writeIndex # 0 =>
       Bootable # {} /\ \A s \in Sectors : IsBoot(s) => Log(flash[s], writeIndex)
  /\ pc \in {"header", "retire", "gcErase", "gcPrep", "gcCopy", "gcActive"} =>
       Log(flash[currentSector], writeIndex)
  /\ pc \in {"payload", "validate"} =>
       /\ Log(flash[currentSector], writeIndex + 1)
       /\ flash[currentSector].slot[writeIndex].st = "raw"
  /\ pc = "header" => \/ writeIndex < GcAt
                      \/ \A k \in 1 .. writeIndex - 1 :
                           flash[currentSector].slot[k].st = "valid"

\* What format() and the collector have done so far.
Preparing ==
  /\ pc \in FormatSteps => formatting /\ \A id \in Ids : acked[id] = NoData
  /\ pc = "fmtPrep" => flash[0] = ErasedSector
  /\ pc = "fmtActive" => flash[0] = [ErasedSector EXCEPT !.hdr = "prep"]
  /\ pc = "gcPrep" => flash[Other(currentSector)] = ErasedSector
  /\ pc \in {"gcCopy", "gcActive"} => flash[Other(currentSector)].hdr = "prep"
  /\ pc = "gcCopy" =>
       /\ 1 <= scan.dst /\ scan.dst <= scan.src /\ scan.src <= writeIndex
       /\ Log(flash[Other(currentSector)], scan.dst)
       /\ IsCopy(flash[Other(currentSector)], scan.dst - 1,
                 flash[currentSector], scan.src - 1)
  /\ pc = "gcActive" => \E n \in 1 .. writeIndex :
       /\ Log(flash[Other(currentSector)], n)
       /\ IsCopy(flash[Other(currentSector)], n - 1, flash[currentSector], LastSlot)
  /\ pc = "gcDrop" => \E n \in 1 .. writeIndex :
       /\ Log(flash[currentSector], n)
       /\ IsCopy(flash[currentSector], n - 1, flash[Previous(currentSector)], LastSlot)

\* The entry a write replaces, and the one it has just made valid.
Replacing ==
  /\ pc \in WriteSteps => req.old = FindEntry(flash[currentSector], req.id)
  /\ pc = "retire" =>
       /\ 0 < req.old /\ req.old < writeIndex - 1
       /\ flash[currentSector].slot[writeIndex - 1] = Entry(req.id, req.val, "valid")
       /\ ~formatting /\ ~dirty[req.id] =>
            Valid(flash[currentSector], req.id) \subseteq {req.old, writeIndex - 1}

(***************************************************************************)
(* A sector holds what was acknowledged, and what is settled, once: every  *)
(* id that no write was cut for, but for the moment in which a write       *)
(* replaces it.                                                            *)
(***************************************************************************)
Holds(sec, values, settled) == \A id \in Ids :
  /\ values[id] # NoData => Valid(sec, id) # {}
  /\ id \in settled => /\ Read(sec, id) = values[id]
                       /\ \A j, k \in Valid(sec, id) : j = k

Settled == {id \in Ids : /\ ~formatting /\ ~dirty[id]
                         /\ ~(pc = "retire" /\ req.id = id)}

Serving(s) == \/ IsBoot(s)
              \/ pc = "gcDrop" /\ s \in {currentSector, Previous(currentSector)}

Kept ==
  /\ Bootable = {} => \A id \in Ids : acked[id] = NoData
  /\ \A s \in Sectors : Serving(s) => Holds(flash[s], acked, Settled)

(***************************************************************************)
(* The live entries of a sector lie in the order of their writing, and all *)
(* are older than a write that has not yet validated its own.              *)
(***************************************************************************)
InOrder(sec, latest) ==
  /\ \A k \in Slots : sec.slot[k].st = "valid" => sec.slot[k].val <= latest
  /\ \A j, k \in Slots :
       j < k /\ sec.slot[j].st = "valid" /\ sec.slot[k].st = "valid" =>
         sec.slot[j].val < sec.slot[k].val

Uncommitted == pc \in CollectSteps \cup {"header", "payload", "validate"}
Latest == IF Uncommitted THEN writes - 1 ELSE writes

Aged == /\ pc \in WriteSteps \cup CollectSteps => req.val = writes
        /\ \A s \in Bootable : InOrder(flash[s], Latest)

IInv == /\ Typed /\ Control /\ Sound /\ Newest /\ Position
        /\ Preparing /\ Replacing /\ Kept

(***************************************************************************)
(* The store is not full: an entry goes where findEntry looks for it.      *)
(***************************************************************************)
RoomLeft == pc = "header" => writeIndex <= ScanEnd
-----------------------------------------------------------------------------
(***************************************************************************)
(* When is it full?  An id has one live entry, and one more for every      *)
(* write that was cut or failed before the old entry was invalidated: that *)
(* one is never invalidated again, and the collector copies it.            *)
(***************************************************************************)
LiveSlots(sec) == {k \in Slots : sec.slot[k].st = "valid"}
Held(sec) == {id \in Ids : Valid(sec, id) # {}}
Bounded(sec, spare) == Cardinality(LiveSlots(sec)) <= Cardinality(Held(sec)) + spare

\* The cuts so far, and the entry that the running write has yet to invalidate.
Spare(s) == crashes + failures + IF pc = "retire" /\ s = currentSector THEN 1 ELSE 0

Counted ==
  /\ crashes \in 0 .. MaxCrashes /\ failures \in 0 .. MaxFailures
  /\ \A s \in Bootable : Bounded(flash[s], Spare(s))

\* Slots for every id, and for every cut there may be.
Capacity == IsFiniteSet(Ids) /\ Cardinality(Ids) + MaxCrashes + MaxFailures < ScanEnd
=============================================================================
