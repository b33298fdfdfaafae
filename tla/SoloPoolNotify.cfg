SPECIFICATION Spec
CONSTANTS
  c1 = c1
  Conns <- MCConns
  MaxTip = 2
  MaxJobs = 2
  Bits = {0}
  JOB_HISTORY = 2
  Refresh = 1
  Outage = 2
  None = None
INVARIANT LastNotifyIsCurrent
