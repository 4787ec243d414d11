\* With every result delivered and the faults used up nothing is left to do.
CHECK_DEADLOCK FALSE
SPECIFICATION FairSpec
CONSTANTS
  Jobs = {j1, j2}
  MaxRetries = 1
  BatchSize = 1
  StrayAcks = FALSE
  CrashInSend = TRUE
  DiskFails = TRUE
  MaxFaults = 3
INVARIANTS
  TypeOK
  UndeliveredIsWatched
  HistoryResolves
PROPERTIES
  ImplementsResultDelivery
  EventuallyDelivered
CONSTRAINT OneJobFaults
