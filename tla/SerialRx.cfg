\* Eleven bytes through a buffer of four: the indexes wrap and come down.
SPECIFICATION FairSpec
CONSTANTS
  Size = 4
  Word = 64
  MaxBytes = 11
  MaxAfter = 6
  MaxCycles = 1
INVARIANT ReadInOrder
PROPERTY AllRead
CHECK_DEADLOCK FALSE
