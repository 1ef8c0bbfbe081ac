\* One worker at a time, as in the process of worker_cli.
SPECIFICATION Spec
CONSTANTS
  Workers = {w1}
  Tokens = {"fair", "dust", "closed", "blocks", "masked", "panics", "frozen", "limit", "cooldown", "swallows", "taxed", "grabs", "rising"}
  Kinds = {"sequence", "scenarios", "matrix", "matrix_erc20"}
  Blocks = 2
  MaxJobs = 2
  MaxFaults = 1
INVARIANTS BlockedIsProven AttemptsIndependent AnvilIsStopped MatrixVerdict
PROPERTIES ScansEnd
CHECK_DEADLOCK FALSE
