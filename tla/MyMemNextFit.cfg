SPECIFICATION Spec
CONSTANTS
  Pools = {3}
  Requests = {1, 2, 3}
  IntBits = 8
PROPERTIES
  AllocatesIfAvailable
CHECK_DEADLOCK FALSE
