SPECIFICATION FairSpec
CONSTANTS
  poller = poller
  session = session
  Callers <- MCCallers
  MaxStarts = 3
  None = None
INVARIANTS
  TypeOK
  UnauthorizedIsGenuine
  CarriedOutOnce
PROPERTIES
  RestartHeals
