CONSTANTS
  Window = 2
  NumProviders = 2  Dead = {1}
  MaxHeight = 7  MaxReorgs = 2  MaxFaults = 1
SPECIFICATION IndexerFairSpec
INVARIANT HeadsAreJoined
PROPERTY CatchesUp
CHECK_DEADLOCK FALSE
