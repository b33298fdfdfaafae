SPECIFICATION Spec
CONSTANTS
  t1 = t1
  t2 = t2
  Threads <- MCThreads
  MaxJobs = 2
  Batches = 2
  Extranonce2Space = 2
INVARIANT HeldJobIsCurrent
