SPECIFICATION Spec
CONSTANTS
  CLOSE_FILE = CLOSE_FILE
  AOF_FSYNC = AOF_FSYNC
  Type = {CLOSE_FILE, AOF_FSYNC}
  MaxJobs = 3
INVARIANTS IInv ZeroMeansAllRun
PROPERTIES EveryJobRuns ImplementsJobQueue
CHECK_DEADLOCK FALSE
