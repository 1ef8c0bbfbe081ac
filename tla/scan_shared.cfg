\* Two threads of ScanService, its default, share one AnvilFork.
SPECIFICATION Spec
CONSTANTS
  Workers = {w1, w2}
  Tokens = {"cooldown"}
  Kinds = {"sequence"}
  Blocks = 1
  MaxJobs = 2
  MaxFaults = 0
INVARIANTS BlockedIsProven
CHECK_DEADLOCK FALSE
