----------------------------- MODULE NvmHistory -----------------------------
(***************************************************************************)
(* The flash store when the collector's copies may fail, too, which loses  *)
(* values; and a memory of what a reset would have found so far, to say    *)
(* that what is lost is never replaced by something older.                 *)
(***************************************************************************)
EXTENDS Nvm

\* For each id, the oldest value that a reset may find from now on.
VARIABLE newest

historyVars == <<vars, newest>>

\* An error ends the loop, and the sector is made active all the same.
GcCopyFails ==
  /\ Step("gcCopy", "gcActive") /\ GcMore /\ Failure("gc")
  /\ LET e == flash[currentSector].slot[scan.src]
     IN  /\ e.st = "valid"
         /\ \E cut \in {Blank, Entry(e.id, NoData, "torn"), Entry(e.id, NoData, "valid")} :
              Program(Other(currentSector), scan.dst, cut)
  /\ UNCHANGED <<ram, ghost>>
-----------------------------------------------------------------------------

HInit == Init /\ newest = [id \in Ids |-> NoData]

\* The newest value found so far; what was written before a format() is older
\* than anything that may be found after it.
Remember ==
  newest' = [id \in Ids |->
    IF formatting' THEN writes' + 1
    ELSE IF AtBoot(id)' > newest[id] THEN AtBoot(id)' ELSE newest[id]]

HNext ==
  \/ Next /\ Remember
  \/ GcCopyFails /\ Remember

HSpec == HInit /\ [][HNext]_historyVars
-----------------------------------------------------------------------------
(***************************************************************************)
(* A reset finds the newest value of an id that was ever found, a newer    *)
(* one, or none: what an error while collecting may do is to lose a value, *)
(* and a value that is lost is never replaced by one older than it, nor    *)
(* does anything come back that was written before a format().  While a    *)
(* format() is pending it says nothing.                                    *)
(***************************************************************************)
NothingOlderBack ==
  ~formatting => \A id \in Ids : AtBoot(id) = NoData \/ AtBoot(id) >= newest[id]
=============================================================================
