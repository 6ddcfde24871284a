\* Power losses at every step; three sectors, so that a stale one can lie apart.
SPECIFICATION Spec
CONSTANTS
  Ids <- Ids1
  NbSectors = 3
  GcAt = 3
  ScanEnd = 4
  MaxWrites = 7
  MaxCrashes = 2
  MaxFailures = 0
  FailPoints <- NoFailures
INVARIANTS TypeOK BootFindsCurrent NeverLost ReadsLastAcked ProgramsBlank RoomAfterCollection
PROPERTY StoreSpec
