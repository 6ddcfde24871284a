-------------------------------- MODULE Nvm --------------------------------
(***************************************************************************)
(* The NeVerMind key/value store (libraries/NeVerMind): an append-only log *)
(* of entries in one flash sector, garbage collected into the next sector. *)
(*                                                                         *)
(* The flash programs a halfword at a time and is erased a sector at a     *)
(* time, so every operation of lnNvm is a sequence of flash steps.  Here   *)
(* each step that leaves something else behind for the next boot to find   *)
(* is an action of its own; between two of them the power may go (Crash),  *)
(* and a programming step may report an error (the actions ending in       *)
(* Fails, at the places FailPoints names).                                 *)
(*                                                                         *)
(* Data is abstracted: all entries have one size, so an offset is a slot   *)
(* number (slot k is at 4 + (k-1) * entry size, slot 0 stands for offset   *)
(* 0, the code's "write index is invalid"), and the payload of the n-th    *)
(* write is the number n.  erase never reports an error (lnFMC::erase      *)
(* returns true on every path), readSector neither.                        *)
(***************************************************************************)
EXTENDS Naturals, FiniteSets, FiniteSetsExt, Sequences

CONSTANTS
  Ids,          \* the entry ids the application uses
  NbSectors,    \* sectors of the EEPROM area
  GcAt,         \* first slot that a write reaches only through a collection
  ScanEnd,      \* last slot whose offset is below SECTOR_SIZE - 8 - 2
  MaxWrites,    \* bound: write() calls
  MaxCrashes,   \* bound: power losses
  MaxFailures,  \* bound: programming errors
  FailPoints    \* which programming steps may report an error

\* 100 is NVM_INVALID_SECTOR, no sector; 0 stands for an erased id.
ASSUME NvmAssumption ==
  /\ NbSectors \in Nat /\ 2 <= NbSectors /\ NbSectors <= 100
  /\ 0 \notin Ids
  /\ GcAt \in Nat /\ ScanEnd \in Nat /\ 1 < GcAt /\ GcAt <= ScanEnd
  /\ {MaxWrites, MaxCrashes, MaxFailures} \subseteq Nat
  /\ FailPoints \subseteq {"format", "sector", "entry", "retire", "gc"}

Sectors == 0 .. NbSectors - 1
NoSector == 100                  \* NVM_INVALID_SECTOR
NoId == 0                        \* an erased id field; no application id
LastSlot == ScanEnd + 1          \* the last slot that fits in a sector
Slots == 1 .. LastSlot
NoData == 0                      \* a payload that was never programmed

(***************************************************************************)
(* An entry is blank (all ones), torn (id programmed, size still ffff),    *)
(* raw (header programmed, not validated), valid, or dead (state = 0).     *)
(* "zero" is a slot of a sector left at all zeroes by an interrupted       *)
(* erase, the case begin() erases "to remove the zeroes".                  *)
(***************************************************************************)
Entry(id, val, st) == [id |-> id, val |-> val, st |-> st]
Blank == Entry(NoId, NoData, "blank")
Zero  == Entry(NoId, NoData, "zero")
Fill(hdr, e) == [hdr |-> hdr, slot |-> [k \in Slots |-> e]]
ErasedSector == Fill("erased", Blank)
ZeroedSector == Fill("active", Zero)

VARIABLES
  flash,          \* [Sectors -> header state and slots]
  currentSector,  \* _currentSector
  writeIndex,     \* _writeIndex, as a slot
  pc,             \* the flash step the running call performs next
  req,            \* the running write(): id, value, slot of the old entry
  scan,           \* begin(): next sector; garbageCollection(): next slots
  writes, crashes, failures,   \* what the bounds count
  acked,          \* ghost: the last value a write() returned true for
  dirty,          \* ghost: ids with a write cut between validate and retire
  formatting      \* ghost: a format() began and none completed since

ram   == <<currentSector, writeIndex, req, scan>>
ghost == <<acked, dirty, formatting>>
counts == <<writes, crashes, failures>>
vars  == <<flash, pc, ram, counts, ghost>>

NoReq  == [id |-> NoId, val |-> NoData, old |-> 0]
NoScan == [src |-> 0, dst |-> 0]

Other(s) == (s + 1) % NbSectors
\* Mutation: the sector after, not the one before.
PreviousWrong(s) == (s + 1) % NbSectors
Previous(s) == (s + NbSectors - 1) % NbSectors
-----------------------------------------------------------------------------
\* sanityCheck: the slot the walk stops at, and what it concludes.
WalkStop(sec) ==
  LET stops == {k \in 1 .. ScanEnd : sec.slot[k].st \in {"blank", "zero", "torn"}}
  IN  IF stops = {} THEN ScanEnd + 1 ELSE Min(stops)

Sane(sec) == sec.slot[1].st # "zero"

\* _writeIndex after the walk: only a walk that ends on a blank entry sets it.
\* Mutations: a wrong constant for "none"; an index once set is kept.
WriteIndexUnset(sec, old) ==
  LET k == WalkStop(sec)
  IN  IF k <= ScanEnd /\ sec.slot[k].st = "blank" THEN k ELSE NoSector
WriteIndexKept(sec, old) ==
  LET k == WalkStop(sec)
  IN  IF old = 0 /\ k <= ScanEnd /\ sec.slot[k].st = "blank" THEN k ELSE old
WriteIndexAfter(sec, old) ==
  LET k == WalkStop(sec)
  IN  IF k <= ScanEnd /\ sec.slot[k].st = "blank" THEN k ELSE old

\* findEntry: the slot of the first live entry of id, 0 if there is none.
\* Mutations: dead entries are found too; the last live entry is found.
FindEntryDead(sec, id) ==
  LET hits == {k \in 1 .. ScanEnd : k < WalkStop(sec) /\ sec.slot[k].id = id}
  IN  IF hits = {} THEN 0 ELSE Min(hits)
FindEntryLast(sec, id) ==
  LET hits == {k \in 1 .. ScanEnd : /\ k < WalkStop(sec)
                                    /\ sec.slot[k].id = id
                                    /\ sec.slot[k].st = "valid"}
  IN  IF hits = {} THEN 0 ELSE Max(hits)
FindEntry(sec, id) ==
  LET hits == {k \in 1 .. ScanEnd : /\ k < WalkStop(sec)
                                    /\ sec.slot[k].id = id
                                    /\ sec.slot[k].st = "valid"}
  IN  IF hits = {} THEN 0 ELSE Min(hits)

\* read(): the payload findEntry leads to, NoData when it finds none.
Read(sec, id) ==
  LET k == FindEntry(sec, id) IN IF k = 0 THEN NoData ELSE sec.slot[k].val

\* The slots of id's live entries.
Valid(sec, id) == {k \in 1 .. ScanEnd : sec.slot[k].id = id /\ sec.slot[k].st = "valid"}

Program(s, k, e) == flash' = [flash EXCEPT ![s].slot[k] = e]
SetSectorState(s, state) == flash' = [flash EXCEPT ![s].hdr = state]
\* Mutation: the header alone.
EraseHeader(s) == flash' = [flash EXCEPT ![s].hdr = "erased"]
EraseSector(s) == flash' = [flash EXCEPT ![s] = ErasedSector]
-----------------------------------------------------------------------------
Init ==
  /\ flash = [s \in Sectors |-> ErasedSector]
  /\ currentSector = NoSector /\ writeIndex = 0
  /\ pc = "idle" /\ req = NoReq /\ scan = NoScan
  /\ writes = 0 /\ crashes = 0 /\ failures = 0
  /\ acked = [id \in Ids |-> NoData]
  /\ dirty = [id \in Ids |-> FALSE]
  /\ formatting = FALSE

Step(from, to) == pc = from /\ pc' = to

\* A programming error at one of the FailPoints.
Failure(point) ==
  /\ point \in FailPoints /\ failures < MaxFailures
  /\ failures' = failures + 1
  /\ UNCHANGED <<writes, crashes>>

\* What the sector s may hold after its erase was cut short; the CH32 erases
\* it in pieces, the one with the sector header first.
CutErase(s) == {flash, [flash EXCEPT ![s] = ZeroedSector],
                       [flash EXCEPT ![s].hdr = "erased"],
                       [flash EXCEPT ![s] = ErasedSector]}
\* What a slot may hold after the programming of its header was cut short.
CutHeader(id, val) == {Blank, Entry(id, NoData, "torn"), Entry(id, val, "raw")}
-----------------------------------------------------------------------------
\* begin(): the first active sector that passes the sanity check.
Begin ==
  /\ Step("idle", "begin")
  /\ scan' = [src |-> 0, dst |-> 0]
  /\ UNCHANGED <<flash, currentSector, writeIndex, req, counts, ghost>>

BeginSkip ==
  /\ pc = "begin" /\ scan.src < NbSectors
  /\ flash[scan.src].hdr # "active"
  /\ scan' = [scan EXCEPT !.src = @ + 1]
  /\ UNCHANGED <<flash, pc, currentSector, writeIndex, req, counts, ghost>>

BeginErase ==
  /\ pc = "begin" /\ scan.src < NbSectors
  /\ flash[scan.src].hdr = "active" /\ ~Sane(flash[scan.src])
  /\ EraseSector(scan.src)
  /\ currentSector' = scan.src
  /\ scan' = [scan EXCEPT !.src = @ + 1]
  /\ UNCHANGED <<pc, writeIndex, req, counts, ghost>>

BeginMount ==
  /\ pc = "begin" /\ scan.src < NbSectors
  /\ flash[scan.src].hdr = "active" /\ Sane(flash[scan.src])
  /\ currentSector' = scan.src
  /\ writeIndex' = WriteIndexAfter(flash[scan.src], writeIndex)
  /\ pc' = "idle" /\ scan' = NoScan
  /\ UNCHANGED <<flash, req, counts, ghost>>

BeginNone ==
  /\ Step("begin", "idle") /\ scan.src = NbSectors
  /\ currentSector' = NoSector /\ scan' = NoScan
  /\ UNCHANGED <<flash, writeIndex, req, counts, ghost>>
-----------------------------------------------------------------------------
\* format(): prepare sector 0 and make it active.
Format ==
  /\ Step("idle", "fmtErase")
  /\ currentSector' = NoSector
  /\ acked' = [id \in Ids |-> NoData] /\ dirty' = [id \in Ids |-> FALSE]
  /\ formatting' = TRUE
  /\ UNCHANGED <<flash, writeIndex, req, scan, counts>>

FormatErase ==
  /\ Step("fmtErase", "fmtPrep") /\ EraseSector(0)
  /\ UNCHANGED <<ram, counts, ghost>>

FormatPrep ==
  /\ Step("fmtPrep", "fmtActive") /\ SetSectorState(0, "prep")
  /\ UNCHANGED <<ram, counts, ghost>>

FormatActive ==
  /\ Step("fmtActive", "idle") /\ SetSectorState(0, "active")
  /\ currentSector' = 0 /\ writeIndex' = 1
  /\ formatting' = FALSE
  /\ UNCHANGED <<req, scan, counts, acked, dirty>>

FormatFails ==
  /\ pc \in {"fmtPrep", "fmtActive"} /\ pc' = "idle"
  /\ Failure("format")
  /\ UNCHANGED <<flash, ram, ghost>>
-----------------------------------------------------------------------------
\* write(): the guards; a call they refuse returns false and changes nothing.
Write(id) ==
  /\ pc = "idle" /\ writes < MaxWrites
  /\ currentSector # NoSector /\ writeIndex > 0 /\ writeIndex <= LastSlot
  /\ writes' = writes + 1
  /\ IF writeIndex >= GcAt
     THEN /\ pc' = "gcErase"
          /\ req' = [NoReq EXCEPT !.id = id, !.val = writes']
     ELSE /\ pc' = "header"
          /\ req' = [id |-> id, val |-> writes',
                     old |-> FindEntry(flash[currentSector], id)]
  /\ UNCHANGED <<flash, currentSector, writeIndex, scan, crashes, failures, ghost>>

WriteHeader ==
  /\ Step("header", "payload")
  /\ flash[currentSector].slot[writeIndex] = Blank
  /\ Program(currentSector, writeIndex, Entry(req.id, NoData, "raw"))
  /\ UNCHANGED <<ram, counts, ghost>>

WritePayload ==
  /\ Step("payload", "validate")
  /\ Program(currentSector, writeIndex, Entry(req.id, req.val, "raw"))
  /\ UNCHANGED <<ram, counts, ghost>>

\* A write that replaces nothing is acknowledged here.
WriteValidate ==
  /\ pc = "validate"
  /\ Program(currentSector, writeIndex, Entry(req.id, req.val, "valid"))
  /\ writeIndex' = writeIndex + 1
  /\ IF req.old = 0
     THEN /\ acked' = [acked EXCEPT ![req.id] = req.val]
          /\ pc' = "idle" /\ req' = NoReq
     ELSE /\ pc' = "retire" /\ UNCHANGED <<req, acked>>
  /\ UNCHANGED <<currentSector, scan, counts, dirty, formatting>>

\* Invalidate the entry this write replaces.
WriteRetire ==
  /\ Step("retire", "idle")
  /\ flash' = [flash EXCEPT ![currentSector].slot[req.old].st = "dead"]
  /\ acked' = [acked EXCEPT ![req.id] = req.val]
  /\ req' = NoReq
  /\ UNCHANGED <<currentSector, writeIndex, scan, counts, dirty, formatting>>

\* The flash controller refuses to program what is not blank.
WriteRefused ==
  /\ Step("header", "idle")
  /\ flash[currentSector].slot[writeIndex] # Blank
  /\ writeIndex' = 0 /\ req' = NoReq
  /\ UNCHANGED <<flash, currentSector, scan, counts, ghost>>

\* A programming error in the entry: the store refuses writes from then on.
WriteEntryFails ==
  /\ pc \in {"header", "payload", "validate"} /\ pc' = "idle"
  /\ Failure("entry")
  /\ IF pc = "header" /\ flash[currentSector].slot[writeIndex] = Blank
     THEN \E e \in CutHeader(req.id, NoData) : Program(currentSector, writeIndex, e)
     ELSE UNCHANGED flash
  /\ writeIndex' = 0 /\ req' = NoReq
  /\ UNCHANGED <<currentSector, scan, ghost>>

WriteRetireFails ==
  /\ Step("retire", "idle") /\ Failure("retire")
  /\ dirty' = [dirty EXCEPT ![req.id] = TRUE]
  /\ req' = NoReq
  /\ UNCHANGED <<flash, currentSector, writeIndex, scan, acked, formatting>>
-----------------------------------------------------------------------------
\* garbageCollection(), called by write().
GcErase ==
  /\ Step("gcErase", "gcPrep") /\ EraseSector(Other(currentSector))
  /\ UNCHANGED <<ram, counts, ghost>>

GcPrep ==
  /\ Step("gcPrep", "gcCopy") /\ SetSectorState(Other(currentSector), "prep")
  /\ scan' = [src |-> 1, dst |-> 1]
  /\ UNCHANGED <<currentSector, writeIndex, req, counts, ghost>>

\* The loop runs below _writeIndex, to the first entry it cannot step over.
\* Mutation: the last entry is left out.
GcMoreShort == /\ scan.src < writeIndex - 1 /\ scan.src <= LastSlot
               /\ flash[currentSector].slot[scan.src].st \notin {"blank", "torn"}
GcMore == /\ scan.src < writeIndex /\ scan.src <= LastSlot
          /\ flash[currentSector].slot[scan.src].st \notin {"blank", "torn"}

\* One turn of the loop: skip an entry, or copy it (the copy's header
\* already carries validated = 0).
GcCopy ==
  /\ pc = "gcCopy" /\ GcMore
  /\ LET e == flash[currentSector].slot[scan.src]
     IN  IF e.st = "valid"
         THEN /\ Program(Other(currentSector), scan.dst, e)
              /\ scan' = [src |-> scan.src + 1, dst |-> scan.dst + 1]
         ELSE /\ scan' = [scan EXCEPT !.src = @ + 1]
              /\ UNCHANGED flash
  /\ UNCHANGED <<pc, currentSector, writeIndex, req, counts, ghost>>

GcCopyDone ==
  /\ Step("gcCopy", "gcActive") /\ ~GcMore
  /\ UNCHANGED <<flash, ram, counts, ghost>>

GcActivate ==
  /\ Step("gcActive", "gcDrop")
  /\ SetSectorState(Other(currentSector), "active")
  /\ currentSector' = Other(currentSector) /\ scan' = NoScan
  /\ UNCHANGED <<writeIndex, req, counts, ghost>>

\* Erase the previous sector; write() then scans the new one and goes on.
GcDrop ==
  /\ pc = "gcDrop"
  /\ EraseSector(Previous(currentSector))
  /\ LET sec == flash[currentSector]
     IN  /\ writeIndex' = WriteIndexAfter(sec, writeIndex)
         /\ IF Sane(sec) /\ writeIndex' > 0
            THEN /\ pc' = "header"
                 /\ req' = [req EXCEPT !.old = FindEntry(sec, req.id)]
            ELSE pc' = "idle" /\ req' = NoReq
  /\ UNCHANGED <<currentSector, scan, counts, ghost>>

\* prepareSector or the activation failed: write() returns false.
GcFails ==
  /\ pc \in {"gcPrep", "gcActive"} /\ pc' = "idle"
  /\ Failure("sector")
  /\ req' = NoReq /\ scan' = NoScan
  /\ UNCHANGED <<flash, currentSector, writeIndex, ghost>>
-----------------------------------------------------------------------------
\* The power goes; the step under way is done in part or not at all.  The
\* constructor of the next run finds no sector and no write index.
Crash ==
  /\ crashes < MaxCrashes /\ crashes' = crashes + 1
  /\ CASE pc = "fmtErase" -> flash' \in CutErase(0)
       [] pc = "gcErase"  -> flash' \in CutErase(Other(currentSector))
       [] pc = "gcDrop"   -> flash' \in CutErase(Previous(currentSector))
       [] pc = "begin" /\ scan.src < NbSectors /\ flash[scan.src] = ZeroedSector
                          -> flash' \in CutErase(scan.src)
       [] pc = "header" /\ flash[currentSector].slot[writeIndex] = Blank
                          -> \E e \in CutHeader(req.id, NoData) :
                               Program(currentSector, writeIndex, e)
       [] OTHER           -> UNCHANGED flash
  /\ dirty' = IF pc = "retire" THEN [dirty EXCEPT ![req.id] = TRUE] ELSE dirty
  /\ currentSector' = NoSector /\ writeIndex' = 0
  /\ pc' = "idle" /\ req' = NoReq /\ scan' = NoScan
  /\ UNCHANGED <<writes, failures, acked, formatting>>

\* All but an error in one of the collector's copies (NvmHistory).
Next ==
  \/ Begin \/ BeginSkip \/ BeginErase \/ BeginMount \/ BeginNone
  \/ Format \/ FormatErase \/ FormatPrep \/ FormatActive \/ FormatFails
  \/ \E id \in Ids : Write(id)
  \/ WriteHeader \/ WritePayload \/ WriteValidate \/ WriteRetire
  \/ WriteRefused \/ WriteEntryFails \/ WriteRetireFails
  \/ GcErase \/ GcPrep \/ GcCopy \/ GcCopyDone
  \/ GcActivate \/ GcDrop \/ GcFails
  \/ Crash

Spec == Init /\ [][Next]_vars
-----------------------------------------------------------------------------
\* What a reset at this moment would find: the lowest active sane sector.
Bootable == {s \in Sectors : flash[s].hdr = "active" /\ Sane(flash[s])}
AtBoot(id) == IF Bootable = {} THEN NoData ELSE Read(flash[Min(Bootable)], id)

Mounted == pc = "idle" /\ currentSector # NoSector

TypeOK ==
  /\ flash \in [Sectors -> [hdr : {"erased", "prep", "active"},
        slot : [Slots -> [id : Ids \cup {NoId}, val : 0 .. MaxWrites,
                          st : {"blank", "torn", "raw", "valid", "dead", "zero"}]]]]
  /\ currentSector \in Sectors \cup {NoSector}
  /\ writeIndex \in 0 .. LastSlot + 1
  /\ req.id \in Ids \cup {NoId} /\ req.val \in 0 .. MaxWrites
  /\ req.old \in 0 .. ScanEnd
  /\ scan.src \in Nat /\ scan.dst \in Nat
  /\ acked \in [Ids -> 0 .. MaxWrites] /\ dirty \in [Ids -> BOOLEAN]
  /\ formatting \in BOOLEAN

(***************************************************************************)
(* While a sector is in use, a reset would mount a sector that answers     *)
(* every read as the current one does: begin()'s choice of the lowest      *)
(* active sector is never a stale one, although a power loss between the   *)
(* activation of the new sector and the erase of the old one leaves two.   *)
(***************************************************************************)
BootFindsCurrent ==
  currentSector # NoSector /\ pc # "begin" =>
    \A id \in Ids : AtBoot(id) = Read(flash[currentSector], id)

(***************************************************************************)
(* A value write() returned true for is not lost: at every moment, in the  *)
(* middle of a write or of a collection too, a reset finds some value      *)
(* for that id.                                                            *)
(***************************************************************************)
NeverLost == \A id \in Ids : acked[id] # NoData => AtBoot(id) # NoData

(***************************************************************************)
(* read() returns the last value write() returned true for, unless a write *)
(* of that id was cut between the validation of the new entry and the      *)
(* invalidation of the old one.                                            *)
(***************************************************************************)
ReadsLastAcked ==
  Mounted /\ ~formatting =>
    \A id \in Ids : ~dirty[id] => Read(flash[currentSector], id) = acked[id]

(***************************************************************************)
(* Flash is programmed once per erase: an entry goes to a blank slot, in   *)
(* write() and in the collector.  (The flash controller reports an error   *)
(* otherwise, which write() takes for a broken sector: WriteRefused.)      *)
(***************************************************************************)
ProgramsBlank ==
  /\ pc = "header" => flash[currentSector].slot[writeIndex] = Blank
  /\ pc = "gcCopy" => \A k \in Slots :
       k >= scan.dst => flash[Other(currentSector)].slot[k] = Blank

(***************************************************************************)
(* A collection makes room: with fewer live entries than GcAt the entry    *)
(* being written lies within the part findEntry scans.                     *)
(***************************************************************************)
Live(s) == {k \in Slots : flash[s].slot[k].st = "valid"}
RoomAfterCollection ==
  pc = "header" /\ Cardinality(Live(currentSector)) < GcAt - 1 =>
    writeIndex < GcAt

(***************************************************************************)
(* The store implements NvmStore: the copies of an id are the live entries *)
(* a reset would find, and its value is what read() would answer then, the *)
(* oldest of them.  Only the validation of a new entry, the invalidation   *)
(* of the oldest one and format() are visible there; the steps of the      *)
(* collector, of begin() and a power loss are not, so a reader never goes  *)
(* back to an older value.                                                 *)
(***************************************************************************)
Copies(id) ==
  IF formatting \/ Bootable = {} THEN {}
  ELSE LET sec == flash[Min(Bootable)]
       IN  {sec.slot[k].val : k \in Valid(sec, id)}

Store == INSTANCE NvmStore WITH
  Versions <- 1 .. MaxWrites,
  copies   <- [id \in Ids |-> Copies(id)],
  value    <- [id \in Ids |-> IF formatting THEN NoData ELSE AtBoot(id)]
StoreSpec == Store!Spec
-----------------------------------------------------------------------------
(***************************************************************************)
(* The code keeps neither this nor the next property (README, section 5).  *)
(* demoProject/bp/nvm/hello.cpp:56-61 writes a value and expects read() to *)
(* return it whenever write() returned true.                               *)
(***************************************************************************)
ReadsWhatWriteAcked ==
  Mounted => \A id \in Ids :
    acked[id] # NoData => Read(flash[currentSector], id) = acked[id]

(***************************************************************************)
(* demoProject/bp/nvm/hello.cpp:77-88 writes as soon as begin() returned   *)
(* true and expects write() to return true: with no programming error the  *)
(* store accepts writes once it is mounted.                                *)
(***************************************************************************)
BegunAcceptsWrites == Mounted => writeIndex > 0
=============================================================================
