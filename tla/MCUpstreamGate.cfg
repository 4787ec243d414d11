\* The bounds on loops, tokens and proofs let the system stop.
SPECIFICATION FairSpec
CONSTANTS
  j1 = j1
  none = none
  Jobs = {j1}
  NoJob = none
  MaxRuns = 2
  MaxConnects = 1
  MaxSaves = 1
INVARIANTS
  TypeOK
  OpenGateIsWatched
  OneLoop
PROPERTIES
  StopIsFinal
  ExpiredSubmitsNothing
  StopsReturn
CHECK_DEADLOCK FALSE

CONSTRAINT SecondLoop
