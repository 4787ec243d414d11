\* With every result delivered and the faults used up nothing is left to do.
CHECK_DEADLOCK FALSE
SPECIFICATION Spec
CONSTANTS
  Jobs = {j1}
  MaxRetries = 1
  BatchSize = 1
  StrayAcks = FALSE
  CrashInSend = FALSE
  DiskFails = TRUE
  MaxFaults = 3
INVARIANTS
  DisconnectResets
