CONSTANTS
  NumWorkers = 3
  QueueSize = 2
  Iterations = 2
  Policy = "rr"
SPECIFICATION LogFairSpec
INVARIANTS
  TypeOK
  OneOnCpu
  RemainingRaceFree
  RemainingExact
  PlaceKept
  RejectsOnlyReuse
  NobodyTwice
  WaitBound
PROPERTIES
  ImplementsCpuTurns
  Termination
