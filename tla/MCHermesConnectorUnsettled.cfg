SPECIFICATION Spec
CONSTANTS
  j1 = j1
  j2 = j2
  Jobs = {j1, j2}
  NoJob = NoJob
  LocalStops = TRUE
  MaxConnections = 2
  MaxAttempts = 1
  MaxCancels = 0
  MaxBreaks = 1
  MaxQueue = 2
  MaxFailures = 1
SYMMETRY Permutations2
INVARIANTS
  OldGenerationSettled
\* The bounds on connections, attempts and cancels let the system stop.
CHECK_DEADLOCK FALSE
