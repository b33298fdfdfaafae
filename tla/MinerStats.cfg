SPECIFICATION FairSpec
CONSTANTS
  t1 = t1
  t2 = t2
  Threads <- MCThreads
  MaxHash = 3
  Width = 2
  ZeroBits <- MCZeroBits
  MaxBatches = 3
  MaxSessions = 2
  None = None
INVARIANTS
  TypeOK
  
PROPERTIES
  TotalsAreDurable
  TotalsNeverGoBack
  CountedIsSaved
