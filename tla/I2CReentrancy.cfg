\* Two tasks write a byte each.
SPECIFICATION Spec
CONSTANTS
  Tasks <- TwoTasks
  Writes <- ShortWrites
  Reads <- NoReads
  DmaFrom = 3
  MaxCalls = 2
INVARIANT NoAssertionFails
CHECK_DEADLOCK FALSE
