SPECIFICATION FairSpec
CONSTANTS
  j1 = j1
  j2 = j2
  Jobs = {j1, j2}
  NoJob = NoJob
  LocalStops = TRUE
  MaxConnections = 2
  MaxAttempts = 2
  MaxCancels = 1
  MaxBreaks = 1
  MaxQueue = 2
  MaxFailures = 1
INVARIANTS
  TypeOK
  AtMostOnce
  NotStartedIsTrue
  StoredIsDurable
  SettledUnlessRefused
PROPERTIES
  AbandonedIsSettled
\* The bounds on connections, attempts and cancels let the system stop.
CHECK_DEADLOCK FALSE

CONSTRAINT CancelOrFailure
