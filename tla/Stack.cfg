SPECIFICATION FairSpec
CONSTANTS
  Network = "mainnet"
  Chain = "mainnet"
  MAX_TIP_AGE = 1
  Tries = 2
  MaxRuns = 2
INVARIANTS
  NothingOutlivesScript
  RefusedOnlyWithoutPool
PROPERTIES
  FrozenNodeStopsPool
  ScriptEndsWithoutPool
