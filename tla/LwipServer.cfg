\* Two clients of three segments, a fifo of three, a send buffer of one;
\* the link goes down once.
SPECIFICATION FairSpec
CONSTANTS
  Conns = 2
  MaxBytes = 3
  FifoSize = 4
  SndBuf = 1
  Links = 1
  WriteBuffer = 2
  Manners <- Any
INVARIANTS EchoInOrder NoFault
PROPERTIES ServesAgain EchoComes
CHECK_DEADLOCK FALSE
