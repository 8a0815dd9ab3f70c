CONSTANTS
  NumWorkers = 3
  QueueSize = 2
  Iterations = 2
  Policy = "fifo"
SPECIFICATION LogFairSpec
INVARIANTS
  PlacesInQueue
  CheckFifo
PROPERTIES
  ImplementsCpuTurns
  Termination
