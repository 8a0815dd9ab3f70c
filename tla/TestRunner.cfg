SPECIFICATION Spec
CONSTANTS
  NTESTS = 3
  ErrorLimits = {0, 1}
INVARIANTS PassMeansPassed
PROPERTIES EveryTestEnds
CHECK_DEADLOCK FALSE
