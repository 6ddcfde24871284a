\* Two groups of one task share its notification; two setters race the owner.
SPECIFICATION FairSpec
CONSTANTS
  g1 = g1
  g2 = g2
  e1 = e1
  e2 = e2
  s1 = s1
  s2 = s2
  Groups <- TwoGroups
  Events <- TwoEvents
  Setters <- TwoSetters
INVARIANTS TypeOK NoLostWakeup
PROPERTIES FlagsLeaveByReturn WakesUp
