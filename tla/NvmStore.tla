------------------------------ MODULE NvmStore ------------------------------
(***************************************************************************)
(* What the NeVerMind store promises, without sectors, slots or resets:    *)
(* each id has the set of its surviving copies, read() returns the oldest. *)
(* A write adds a copy and then takes the oldest away; a write that is cut *)
(* in between leaves one copy too many for good.  Collecting, mounting and *)
(* losing the power change nothing.                                        *)
(***************************************************************************)
EXTENDS Naturals, FiniteSetsExt

CONSTANTS
  Ids,       \* the entry ids the application uses
  Versions   \* the values written: positive numbers, in the order of writing

VARIABLES
  copies,      \* [Ids -> the values of the surviving copies]
  value,       \* [Ids -> what read() finds, 0 when there is nothing]
  formatting   \* a format() has begun and none has completed

vars == <<copies, value, formatting>>

Nothing == [id \in Ids |-> {}]

\* read(): the oldest copy.
Oldest(S) == IF S = {} THEN 0 ELSE Min(S)
Values(c) == [id \in Ids |-> Oldest(c[id])]

Init == copies = Nothing /\ value = Values(Nothing) /\ formatting = FALSE

\* The new entry is validated; it is newer than every copy there is.
Commit(id, v) ==
  /\ ~formatting
  /\ \A c \in copies[id] : v > c
  /\ copies' = [copies EXCEPT ![id] = @ \cup {v}]
  /\ UNCHANGED formatting

\* The entry read so far is invalidated, never the only one.
Retire(id) ==
  /\ ~formatting
  /\ \E c \in copies[id] : c > value[id]
  /\ copies' = [copies EXCEPT ![id] = @ \ {value[id]}]
  /\ UNCHANGED formatting

FormatBegins == formatting' = TRUE /\ copies' = Nothing
FormatEnds   == formatting /\ formatting' = FALSE /\ copies' = Nothing

Next ==
  /\ \/ \E id \in Ids : \/ \E v \in Versions : Commit(id, v)
                        \/ Retire(id)
     \/ FormatBegins \/ FormatEnds
  /\ value' = Values(copies')

Spec == Init /\ [][Next]_vars
-----------------------------------------------------------------------------
Inv == /\ copies \in [Ids -> SUBSET Versions]
       /\ value = Values(copies)
       /\ formatting \in BOOLEAN
       /\ formatting => copies = Nothing

NotOlder == formatting' \/ \A id \in Ids : value'[id] >= value[id]

(***************************************************************************)
(* A reader never goes back in time: outside format() the value read for   *)
(* an id is never replaced by an older one, and never vanishes.            *)
(***************************************************************************)
NeverOlder == [][NotOlder]_vars
=============================================================================
