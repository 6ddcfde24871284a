\* One task, every kind of write and reads of up to five bytes; slaves that
\* answer, refuse and fall silent, and timeouts at any time.
SPECIFICATION FairSpec
CONSTANTS
  Tasks <- OneTask
  Writes <- SomeWrites
  Reads <- SomeReads
  DmaFrom = 3
  MaxCalls = 3
INVARIANTS ResultTells NoAssertionFails
PROPERTY CallReturns
CHECK_DEADLOCK FALSE
