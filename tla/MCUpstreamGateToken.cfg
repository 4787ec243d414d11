\* The bounds on loops, tokens and proofs let the system stop.
SPECIFICATION Spec
CONSTANTS
  j1 = j1
  none = none
  Jobs = {j1}
  NoJob = none
  MaxRuns = 1
  MaxConnects = 0
  MaxSaves = 1
PROPERTIES
  ClosedGateIsOffline
CHECK_DEADLOCK FALSE
