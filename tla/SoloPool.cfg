SPECIFICATION FairSpec
CONSTANTS
  c1 = c1
  Conns <- MCConns
  MaxTip = 2
  MaxJobs = 3
  Bits = {0, 1}
  JOB_HISTORY = 2
  Refresh = 1
  Outage = 2
  None = None
INVARIANTS
  TypeOK
  NoMissedJob
  WakeupNotLost
  
PROPERTIES
  DeadJobIsReplacedOrPoolStops
