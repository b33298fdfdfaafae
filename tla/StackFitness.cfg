SPECIFICATION Spec
CONSTANTS
  Network = "mainnet"
  Chain = "mainnet"
  MAX_TIP_AGE = 1
  Tries = 2
  MaxRuns = 1
PROPERTIES
  StopsForLastingCause
