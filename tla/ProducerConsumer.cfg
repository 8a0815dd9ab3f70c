SPECIFICATION FairSpec
CONSTANTS
  Size = 3
  MaxThreads = 2
  Items = {0, 1}
  Producers = {1, 2, 3}
  Consumers = {0, 1}
  Modes = {0, 1, 2}
INVARIANTS TypeOK MutualExclusion NoGaps NeverOverflows ReportsOwnChange
PROPERTIES ImplementsBoundedBuffer SemaphoreReleased
