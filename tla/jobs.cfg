CONSTANTS
  Finished = {"complete", "failed"}
  Procs = {p1, p2}
  MaxWorkers = 1  RecoverLimit = 2
  MayOverrun = FALSE  StartsOverlap = FALSE
  MaxJobs = 2  MaxFailures = 1
SPECIFICATION FairSpec
INVARIANTS OneRunner RepeatsAreRecoveries
PROPERTIES JobsFinish ImplementsJobLife
CHECK_DEADLOCK FALSE
