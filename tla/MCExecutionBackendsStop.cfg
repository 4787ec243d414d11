SPECIFICATION Spec
CONSTANTS
  Jobs = {1, 2}
  MaxBacklog = 2
  MaxTries = 2
  LateCancels = TRUE
INVARIANT NotSentMeansUnsent
CHECK_DEADLOCK FALSE
