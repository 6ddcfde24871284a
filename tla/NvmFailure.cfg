\* Programming errors outside the collector's copies, and a power loss.
SPECIFICATION Spec
CONSTANTS
  Ids <- Ids2
  NbSectors = 2
  GcAt = 4
  ScanEnd = 5
  MaxWrites = 5
  MaxCrashes = 1
  MaxFailures = 2
  FailPoints <- WriteFailures
INVARIANT ReadsLastAcked
PROPERTY StoreSpec
