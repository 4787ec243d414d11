\* With every result delivered and the faults used up nothing is left to do.
CHECK_DEADLOCK FALSE
SPECIFICATION Spec
CONSTANTS
  Jobs = {j1}
  MaxRetries = 1
  BatchSize = 2
  StrayAcks = TRUE
  CrashInSend = TRUE
  DiskFails = FALSE
  MaxFaults = 2
INVARIANTS
  UnsentRefusesAck
