SPECIFICATION LogSpec
CONSTANTS
  NumWorkers = 2
  QueueSize = 2
  Iterations = 2
  Policy = "rr"
INVARIANT CheckRR
