CONSTANTS
  Jobs <- MCJobs
  Finished <- MCFinished
  Keys = {k1}  NoKey = NoKey
  Sizes = {1, 2}
  Quota = 2
  MaxActive = 2
  Concurrency = 2
  Coordinators = 2
  MaxBatches = 2  MaxRepeats = 1  MaxFailures = 1
SPECIFICATION FairSpec
INVARIANTS ReservedExactly FinishedIsTrue
PROPERTY BatchCloses
CHECK_DEADLOCK FALSE
