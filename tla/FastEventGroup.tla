--------------------------- MODULE FastEventGroup ---------------------------
(***************************************************************************)
(* lnFastEventGroup (src/lnFreeRTOS_pp.cpp): event flags for one owner     *)
(* task, built on a critical section and on one FreeRTOS direct-to-task    *)
(* notification.                                                           *)
(*                                                                         *)
(* Every critical section is one action.  setEvents() gives the            *)
(* notification after it left the critical section, so a setter is two     *)
(* actions; waitEvents() looks at the flags, then takes the notification,  *)
(* then looks again.  All groups of a task share the notification slot     *)
(* EVENT_INDEX, hence one "notified" for all groups of the owner.          *)
(*                                                                         *)
(* External (FreeRTOS): a give makes the notified value non-zero, a take   *)
(* waits for a non-zero value and zeroes it; only zero or not matters, the *)
(* take being pdTRUE.  xTaskNotifyStateClearIndexed, called on the fast    *)
(* path of waitEvents, resets the pending state but not the value, and the *)
(* take looks at the value only: it changes nothing here.                  *)
(***************************************************************************)
EXTENDS Naturals, FiniteSets

CONSTANTS
  Groups,    \* the event groups the task owns
  Events,    \* the bits of a group
  Setters    \* tasks and interrupt handlers that call setEvents()

VARIABLES
  value,     \* _value of each group
  mask,      \* _mask of each group
  owned,     \* groups whose _waitingTask is set
  notified,  \* the owner's notified value is not zero
  owner,     \* the owner's call: where it is, on which group, for which bits
  setter,    \* each setter: "idle", or "notify" between unlock and give
  returned   \* what the last waitEvents or readEvents returned, and why

vars == <<value, mask, owned, notified, owner, setter, returned>>

Idle == [at |-> "run"]
\* Mutation: the group is not kept.
WaitingAnywhere(at, g, m) == [at |-> at, mask |-> m]
Waiting(at, g, m) == [at |-> at, group |-> g, mask |-> m]
Returned(why, bits) == [why |-> why, bits |-> bits]

Init ==
  /\ value = [g \in Groups |-> {}] /\ mask = [g \in Groups |-> {}]
  /\ owned = {}
  /\ notified = FALSE
  /\ owner = Idle
  /\ setter = [s \in Setters |-> "idle"]
  /\ returned = Returned("none", {})

\* Flags leave a group.  Mutation: all of them, not those asked for.
ClearAll(g, bits) == value' = [value EXCEPT ![g] = {}]
Clear(g, bits) == value' = [value EXCEPT ![g] = @ \ bits]

Publish(g, m) == mask' = [mask EXCEPT ![g] = m]

\* Does the owner wait for what is set now?  Mutation: was set before.
MustNotifyStale(g, events) == value[g] \cap mask[g] # {} /\ g \in owned
MustNotify(g, events) ==
  (value[g] \cup events) \cap mask[g] # {} /\ g \in owned

TakeOwnership(g) ==
  /\ owner = Idle /\ g \notin owned
  /\ owned' = owned \cup {g}
  /\ UNCHANGED <<value, mask, notified, owner, setter, returned>>
-----------------------------------------------------------------------------
\* setEvents(): the critical section, then the notification if it is due.
SetEvents(s, g, events) ==
  /\ setter[s] = "idle"
  /\ value' = [value EXCEPT ![g] = @ \cup events]
  /\ setter' = [setter EXCEPT ![s] =
                   IF MustNotify(g, events) THEN "notify" ELSE "idle"]
  /\ UNCHANGED <<mask, owned, notified, owner, returned>>

NotifyGive(s) ==
  /\ setter[s] = "notify"
  /\ notified' = TRUE
  /\ setter' = [setter EXCEPT ![s] = "idle"]
  /\ UNCHANGED <<value, mask, owned, owner, returned>>
-----------------------------------------------------------------------------
\* waitEvents(): the flags are there already.
WaitFast(g, m) ==
  /\ owner = Idle /\ g \in owned
  /\ m \cap value[g] # {}
  /\ Clear(g, m) /\ mask' = [mask EXCEPT ![g] = {}]
  /\ returned' = Returned("events", m \cap value[g])
  /\ UNCHANGED <<owned, notified, owner, setter>>

\* waitEvents(): publish the mask and go for the notification.
WaitArm(g, m) ==
  /\ owner = Idle /\ g \in owned
  /\ m \cap value[g] = {}
  /\ Publish(g, m)
  /\ owner' = Waiting("take", g, m)
  /\ UNCHANGED <<value, owned, notified, setter, returned>>

\* ulTaskNotifyTakeIndexed found a notification, at once or after a while.
WaitNotified ==
  /\ owner.at = "take" /\ notified
  /\ notified' = FALSE
  /\ owner' = [owner EXCEPT !.at = "recheck"]
  /\ UNCHANGED <<value, mask, owned, setter, returned>>

\* It did not, in time: the mask stays published.
WaitTimeout ==
  /\ owner.at = "take" /\ ~notified
  /\ owner' = Idle
  /\ returned' = Returned("timeout", {})
  /\ UNCHANGED <<value, mask, owned, notified, setter>>

\* waitEvents(): take what is there, which may be nothing.
WaitRecheck ==
  /\ owner.at = "recheck"
  /\ LET g   == owner.group
         set == owner.mask \cap value[g]
     IN  /\ Clear(g, set)
         /\ mask' = [mask EXCEPT ![g] = {}]
         /\ returned' = Returned(IF set = {} THEN "stray" ELSE "events", set)
  /\ owner' = Idle
  /\ UNCHANGED <<owned, notified, setter>>

ReadEvents(g, m) ==
  /\ owner = Idle
  /\ Clear(g, m)
  /\ returned' = Returned("events", value[g] \cap m)
  /\ UNCHANGED <<mask, owned, notified, owner, setter>>
-----------------------------------------------------------------------------
Bits == SUBSET Events \ {{}}

SetterNext(s) == NotifyGive(s) \/ \E g \in Groups, e \in Bits : SetEvents(s, g, e)

OwnerNext ==
  \/ \E g \in Groups : TakeOwnership(g)
  \/ \E g \in Groups, m \in Bits : WaitFast(g, m) \/ WaitArm(g, m) \/ ReadEvents(g, m)
  \/ WaitNotified \/ WaitTimeout \/ WaitRecheck

Next == OwnerNext \/ \E s \in Setters : SetterNext(s)

Spec == Init /\ [][Next]_vars

(***************************************************************************)
(* The scheduler runs every ready task and lets an interrupt handler run   *)
(* to its end.  Nothing is assumed of the timeout: a wake-up owes nothing  *)
(* to it.                                                                  *)
(***************************************************************************)
Fairness ==
  /\ \A s \in Setters : WF_vars(NotifyGive(s))
  /\ WF_vars(WaitNotified) /\ WF_vars(WaitRecheck)

FairSpec == Spec /\ Fairness
-----------------------------------------------------------------------------
TypeOK ==
  /\ value \in [Groups -> SUBSET Events]
  /\ mask \in [Groups -> SUBSET Events]
  /\ owned \subseteq Groups
  /\ notified \in BOOLEAN
  /\ owner \in {Idle} \cup
       [at : {"take", "recheck"}, group : Groups, mask : SUBSET Events]
  /\ setter \in [Setters -> {"idle", "notify"}]
  /\ returned \in [why : {"none", "events", "timeout", "stray"}, bits : SUBSET Events]

Due(s) == setter[s] = "notify"

(***************************************************************************)
(* No wake-up is lost: when the owner is about to sleep, or sleeps, on     *)
(* flags one of which is set, the notification that will wake it has been  *)
(* given or a setter is on its way to give it.                             *)
(***************************************************************************)
NoLostWakeup ==
  owner.at = "take" /\ owner.mask \cap value[owner.group] # {} =>
    notified \/ \E s \in Setters : Due(s)

\* The strengthening that makes it inductive: a sleeping owner has published
\* what it waits for, in a group it owns.
Published ==
  owner.at = "take" => /\ owner.group \in owned
                       /\ mask[owner.group] = owner.mask

IInv == TypeOK /\ Published /\ NoLostWakeup

(***************************************************************************)
(* A flag leaves a group only by being returned to the owner, and what a   *)
(* call returns was set: no step of a setter, of another group or of a     *)
(* timed-out wait drops a flag or makes one up.                            *)
(***************************************************************************)
ByReturn ==
  \A g \in Groups : value[g] \ value'[g] # {} =>
    /\ returned'.bits = value[g] \ value'[g]
    /\ \A h \in Groups \ {g} : value[h] \subseteq value'[h]

FlagsLeaveByReturn == [][ByReturn]_vars

(***************************************************************************)
(* A waiting owner is woken up by a flag it waits for, with no help from   *)
(* its timeout.                                                            *)
(***************************************************************************)
WakesUp ==
  \A g \in Groups, e \in Events :
    (owner.at = "take" /\ owner.group = g /\ e \in owner.mask /\ e \in value[g])
      ~> (owner = Idle)

(***************************************************************************)
(* include/lnFreeRTOS_pp.h:125-127: a timeout of -1 means wait forever,    *)
(* waitEvents returns 0 if timeout.  So a wait that returns no flag has    *)
(* timed out.  The code does not keep this (README, section 5).            *)
(***************************************************************************)
EmptyOnlyOnTimeout == returned.why # "stray"
=============================================================================
