CONSTANTS
  NumWorkers = 2
  QueueSize = 2
  Iterations = 1
  Policy = "rr"
SPECIFICATION FairSpec
CHECK_DEADLOCK FALSE
PROPERTIES
  SchedulerPrintsDone
