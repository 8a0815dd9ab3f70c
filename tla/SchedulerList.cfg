CONSTANTS
  NumWorkers = 3
  QueueSize = 2
  Iterations = 1
  Policy = "rr"
SPECIFICATION FairSpec
CHECK_DEADLOCK FALSE
INVARIANTS
  WellLinked
  WalkEnds
  UnusedWhenFreed
  FreedOnce
PROPERTIES
  AtomicUnlessRaced
