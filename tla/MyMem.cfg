SPECIFICATION Spec
CONSTANTS
  Pools = {3, 6}
  Requests = {1, 2, 3, 6}
  IntBits = 3
INVARIANTS
  TypeOK
  LastAllocatedListed
  StatusAgrees
PROPERTIES
  ImplementsAllocator
CHECK_DEADLOCK FALSE
