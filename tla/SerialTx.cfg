\* Two tasks, a ring of four bytes that wraps around; no callback is set.
SPECIFICATION FairSpec
CONSTANTS
  t1 = t1
  t2 = t2
  Size = 4
  Tasks <- TwoTasks
  WithCallback = FALSE
  FreshTxing <- Zeroed
  MaxCall = 4
  MaxBytes = 9
INVARIANTS TypeOK NoStall InFlightReserved WakeupComes
PROPERTIES StreamSpec TransmitReturns EverythingSent
CHECK_DEADLOCK FALSE
