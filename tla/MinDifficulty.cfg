SPECIFICATION FairWindowSpec
CONSTANTS
  MIN_DIFFICULTY_GAP = 1
  MAX_FUTURE_BLOCK_TIME = 4
  MAX_SUBMISSION_HOLD = 3
  U32 = 16
  MaxNow = 6
  TimeRoll = {0}
INVARIANTS
  
  HoldIsExact

  
