\* A programming error while the collector copies an entry: what a loss leaves.
SPECIFICATION HSpec
CONSTANTS
  Ids <- Ids2
  NbSectors = 3
  GcAt = 3
  ScanEnd = 4
  MaxWrites = 5
  MaxCrashes = 1
  MaxFailures = 2
  FailPoints <- CollectFailures
INVARIANTS ProgramsBlank NothingOlderBack
