-------------------------- MODULE MCFastEventGroup --------------------------
(***************************************************************************)
(* Event groups for TLC: one owner, one or two groups, two setters.        *)
(***************************************************************************)
EXTENDS FastEventGroup

CONSTANTS g1, g2, e1, e2, s1, s2
OneGroup == {g1}
TwoGroups == {g1, g2}
TwoEvents == {e1, e2}
TwoSetters == {s1, s2}
=============================================================================
