\* Two clients of two bytes, a transmit buffer of one; polite clients or hasty ones.
SPECIFICATION FairSpec
CONSTANTS
  Conns = 2
  MaxBytes = 2
  TxSize = 1
  RxBuf = 2
  WriteBuffer = 2
  Environments <- Any
INVARIANTS EchoInOrder
PROPERTIES ServesAgain EchoComes
CHECK_DEADLOCK FALSE
