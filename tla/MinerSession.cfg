SPECIFICATION FairSpec
CONSTANTS
  JOB_HISTORY = 2
  MaxJobs = 3
  MaxShares = 2
INVARIANTS
  NewestJobIsReceived
  
PROPERTIES
  HandshakeCompletes
  
