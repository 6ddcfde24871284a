------------------------ MODULE FastEventGroup_proofs ------------------------
(***************************************************************************)
(* lnFastEventGroup loses no wake-up and no flag, for any number of        *)
(* groups, flags and setters.                                              *)
(***************************************************************************)
EXTENDS FastEventGroup, TLAPS

LEMMA InitIInv == Init => IInv
<1> SUFFICES ASSUME Init PROVE IInv
  OBVIOUS
<1>1. owner = Idle /\ owner.at = "run"
  BY DEF Init, Idle
<1>2. value \in [Groups -> SUBSET Events] /\ mask \in [Groups -> SUBSET Events]
  BY DEF Init
<1>3. setter \in [Setters -> {"idle", "notify"}]
  BY DEF Init
<1>4. returned \in [why : {"none", "events", "timeout", "stray"}, bits : SUBSET Events]
  BY DEF Init, Returned
<1>5. TypeOK
  BY <1>1, <1>2, <1>3, <1>4 DEF Init, TypeOK
<1> QED BY <1>1, <1>5 DEF IInv, Published, NoLostWakeup

(***************************************************************************)
(* The steps of the setters: a setter that makes a flag of the published   *)
(* mask true leaves the critical section on its way to the notification.   *)
(***************************************************************************)
LEMMA SetterKeepsIInv ==
  ASSUME IInv, NEW s \in Setters, SetterNext(s)
  PROVE  IInv'
<1> USE DEF IInv
<1>1. ASSUME NEW g \in Groups, NEW e \in Bits, SetEvents(s, g, e) PROVE IInv'
  <2>1. TypeOK'
    BY <1>1 DEF SetEvents, MustNotify, TypeOK, Bits
  <2>2. Published'
    BY <1>1 DEF SetEvents, MustNotify, Published
  <2>3. NoLostWakeup'
    <3> SUFFICES ASSUME owner.at = "take",
                        owner.mask \cap value'[owner.group] # {}
                 PROVE  notified \/ \E t \in Setters : setter'[t] = "notify"
      BY <1>1 DEF SetEvents, MustNotify, NoLostWakeup, Due
    <3>1. /\ owner.group \in owned
          /\ mask[owner.group] = owner.mask
          /\ owner.group \in Groups
      BY DEF Published, TypeOK
    <3>2. CASE owner.group = g
      <4>1. value'[g] \cap mask[g] # {} /\ g \in owned
        BY <3>1, <3>2
      <4>2. setter'[s] = "notify"
        BY <1>1, <4>1 DEF SetEvents, MustNotify, TypeOK
      <4> QED BY <4>2
    <3>3. CASE owner.group # g
      <4>1. value'[owner.group] = value[owner.group]
        BY <1>1, <3>1, <3>3 DEF SetEvents, MustNotify, TypeOK
      <4>2. notified \/ \E t \in Setters : setter[t] = "notify"
        BY <4>1 DEF NoLostWakeup, Due
      <4>3. \A t \in Setters : setter[t] = "notify" => setter'[t] = "notify"
        BY <1>1 DEF SetEvents, MustNotify, TypeOK
      <4> QED BY <4>2, <4>3
    <3> QED BY <3>2, <3>3
  <2> QED BY <2>1, <2>2, <2>3
<1>2. ASSUME NotifyGive(s) PROVE IInv'
  BY <1>2 DEF NotifyGive, TypeOK, Published, NoLostWakeup
<1> QED BY <1>1, <1>2 DEF SetterNext

(***************************************************************************)
(* The steps of the owner: it publishes its mask only in the critical      *)
(* section in which it found none of the flags.                            *)
(***************************************************************************)
LEMMA OwnerKeepsIInv == IInv /\ OwnerNext => IInv'
<1> SUFFICES ASSUME IInv, OwnerNext PROVE IInv'
  OBVIOUS
<1> USE DEF IInv
<1>1. ASSUME NEW g \in Groups, TakeOwnership(g) PROVE IInv'
  BY <1>1 DEF TakeOwnership, TypeOK, Published, NoLostWakeup, Idle, Due
<1>2. ASSUME NEW g \in Groups, NEW m \in Bits, WaitFast(g, m) PROVE IInv'
  <2>1. TypeOK'
    BY <1>2 DEF WaitFast, Clear, TypeOK, Returned, Bits
  <2> QED BY <1>2, <2>1 DEF WaitFast, Clear, Published, NoLostWakeup, Idle
<1>3. ASSUME NEW g \in Groups, NEW m \in Bits, WaitArm(g, m) PROVE IInv'
  <2>1. owner' = [at |-> "take", group |-> g, mask |-> m]
    BY <1>3 DEF WaitArm, Publish, Waiting
  <2>2. TypeOK'
    BY <1>3, <2>1 DEF WaitArm, Publish, TypeOK, Bits
  <2>3. Published'
    BY <1>3, <2>1 DEF WaitArm, Publish, TypeOK, Published
  <2>4. NoLostWakeup'
    BY <1>3, <2>1 DEF WaitArm, Publish, NoLostWakeup
  <2> QED BY <2>2, <2>3, <2>4
<1>4. ASSUME NEW g \in Groups, NEW m \in Bits, ReadEvents(g, m) PROVE IInv'
  <2>1. TypeOK'
    BY <1>4 DEF ReadEvents, Clear, TypeOK, Returned, Bits
  <2> QED BY <1>4, <2>1 DEF ReadEvents, Clear, Published, NoLostWakeup, Idle
<1>5. CASE WaitNotified
  <2>1. owner \in [at : {"take", "recheck"}, group : Groups, mask : SUBSET Events]
    BY <1>5 DEF WaitNotified, TypeOK, Idle
  <2>2. owner'.at = "recheck" /\ TypeOK'
    BY <1>5, <2>1 DEF WaitNotified, TypeOK
  <2> QED BY <2>2 DEF Published, NoLostWakeup
<1>6. CASE WaitTimeout
  BY <1>6 DEF WaitTimeout, TypeOK, Published, NoLostWakeup, Idle, Returned
<1>7. CASE WaitRecheck
  <2>1. owner'.at = "run"
    BY <1>7 DEF WaitRecheck, Clear, Idle
  <2>2. TypeOK'
    <3>1. owner.group \in Groups /\ owner.mask \in SUBSET Events
      BY <1>7 DEF WaitRecheck, Clear, TypeOK, Idle
    <3> QED BY <1>7, <3>1 DEF WaitRecheck, Clear, TypeOK, Returned, Idle
  <2> QED BY <2>1, <2>2 DEF Published, NoLostWakeup
<1> QED BY <1>1, <1>2, <1>3, <1>4, <1>5, <1>6, <1>7 DEF OwnerNext

LEMMA Inductive == IInv /\ [Next]_vars => IInv'
<1> SUFFICES ASSUME IInv, [Next]_vars PROVE IInv'
  OBVIOUS
<1>1. CASE OwnerNext
  BY <1>1, OwnerKeepsIInv
<1>2. ASSUME NEW s \in Setters, SetterNext(s) PROVE IInv'
  BY <1>2, SetterKeepsIInv
<1>3. CASE UNCHANGED vars
  BY <1>3 DEF vars, IInv, TypeOK, Published, NoLostWakeup, Due
<1> QED BY <1>1, <1>2, <1>3 DEF Next

(***************************************************************************)
(* Every variable keeps its type.                                          *)
(***************************************************************************)
THEOREM TypeCorrect == Spec => []TypeOK
<1>1. IInv => TypeOK
  BY DEF IInv
<1> QED BY <1>1, InitIInv, Inductive, PTL DEF Spec

(***************************************************************************)
(* The owner never sleeps on a flag that is set with nobody left to wake   *)
(* it: waitEvents() and setEvents() lose no wake-up.                       *)
(***************************************************************************)
THEOREM WakeupSafety == Spec => []NoLostWakeup
<1>1. IInv => NoLostWakeup
  BY DEF IInv
<1> QED BY <1>1, InitIInv, Inductive, PTL DEF Spec

(***************************************************************************)
(* A flag leaves a group only by being returned to the owner.              *)
(***************************************************************************)
THEOREM FlagSafety == Spec => FlagsLeaveByReturn
<1>1. TypeOK /\ [Next]_vars => [ByReturn]_vars
  <2> SUFFICES ASSUME TypeOK, Next PROVE ByReturn
    OBVIOUS
  <2> SUFFICES ASSUME NEW g \in Groups, value[g] \ value'[g] # {}
               PROVE  /\ returned'.bits = value[g] \ value'[g]
                      /\ \A h \in Groups \ {g} : value[h] \subseteq value'[h]
    BY DEF ByReturn
  <2>1. ASSUME NEW h \in Groups, NEW m \in Bits, WaitFast(h, m) \/ ReadEvents(h, m)
        PROVE  /\ value' = [value EXCEPT ![h] = @ \ m]
               /\ returned'.bits = value[h] \cap m
    BY <2>1 DEF WaitFast, Clear, ReadEvents, Returned
  <2>2. CASE WaitRecheck
    <3>1. /\ value' = [value EXCEPT ![owner.group] = @ \ (owner.mask \cap value[owner.group])]
          /\ returned'.bits = owner.mask \cap value[owner.group]
      BY <2>2 DEF WaitRecheck, Clear, Returned
    <3>2. owner.group \in Groups /\ owner.group = g
      BY <2>2, <3>1 DEF WaitRecheck, Clear, TypeOK, Idle
    <3> QED BY <3>1, <3>2 DEF TypeOK
  <2>3. ASSUME NEW h \in Groups, NEW m \in Bits, WaitFast(h, m) \/ ReadEvents(h, m)
        PROVE  /\ returned'.bits = value[g] \ value'[g]
               /\ \A k \in Groups \ {g} : value[k] \subseteq value'[k]
    <3>1. g = h
      BY <2>1, <2>3 DEF TypeOK
    <3> QED BY <2>1, <2>3, <3>1 DEF TypeOK
  <2>4. ASSUME NEW s \in Setters, SetterNext(s) PROVE FALSE
    BY <2>4 DEF SetterNext, SetEvents, MustNotify, NotifyGive, TypeOK
  <2>5. ASSUME NEW h \in Groups, NEW m \in Bits, WaitArm(h, m) PROVE FALSE
    BY <2>5 DEF WaitArm, Publish
  <2>6. CASE WaitNotified \/ WaitTimeout
    BY <2>6 DEF WaitNotified, WaitTimeout
  <2>7. ASSUME NEW h \in Groups, TakeOwnership(h) PROVE FALSE
    BY <2>7 DEF TakeOwnership
  <2> QED BY <2>2, <2>3, <2>4, <2>5, <2>6, <2>7 DEF Next, OwnerNext
<1> QED BY <1>1, TypeCorrect, PTL DEF Spec, FlagsLeaveByReturn
=============================================================================
