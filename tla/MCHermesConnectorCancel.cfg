SPECIFICATION FairSpec
CONSTANTS
  j1 = j1
  j2 = j2
  Jobs = {j1, j2}
  NoJob = NoJob
  LocalStops = FALSE
  MaxConnections = 1
  MaxAttempts = 1
  MaxCancels = 1
  MaxBreaks = 0
  MaxQueue = 2
  MaxFailures = 0
PROPERTIES
  CancelIsSettled
\* The bounds on connections, attempts and cancels let the system stop.
CHECK_DEADLOCK FALSE
