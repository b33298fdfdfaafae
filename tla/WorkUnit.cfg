SPECIFICATION PureSpec
CONSTANTS
  Templates <- MCTemplates
  Extranonce1s <- MCExtranonce1s
  Extranonce2s <- MCExtranonce2s
  EXTRANONCE2_SIZE = 1
  SENTINEL <- MCSentinel
  TAG <- MCTag
  MAX_SCRIPT_SIG = 7
  U32 = 16
  Times = {5, 6}
  MaxJobs = 2
  None = None
  Inputs <- MCInputs
  Byte = 5
  Size = 2
  NONCES = 5
  BATCH = 2
  MAGIC = 5
  KeyLength = 2
  CHUNK = 3
  GENESIS = 1
  Parent <- MCParent
INVARIANTS
  HeaderAgrees
  AnnouncedSizeDecides
  BlockIsWhole
  EncodingsAreUnambiguous
  TargetsAreNumbers
  SearchFindsTheBlock
  JoinedFilesScanAlike
  ChainIsReachability
