SPECIFICATION Spec
CONSTANTS
  Jobs = {1, 2}
  MaxBacklog = 2
  MaxTries = 2
  LateCancels = FALSE
INVARIANTS
  TypeOK
  CheckpointFollowsTail
  StoppedIsQuiet
PROPERTIES
  ImplementsExecutionPromise
  ClaimedJobsSettle
CHECK_DEADLOCK FALSE

CONSTRAINT SecondJob
