CONSTANTS
  Jobs = {j1, j2}  Workers = {w1, w2}  NoJob = NoJob
  Reports = {"complete"}
  MaxAttempts = 2
  MaxFailures = 1
SPECIFICATION FairSpec
INVARIANT JobsAreSafe
PROPERTY JobsEnd
CHECK_DEADLOCK FALSE
