SPECIFICATION FairSpec
CONSTANTS
  Request <- TwoRequests
  None = None
  MaxKeys = 2
  MaxRevision = 2
  MaxGens = 2
  MaxTasks = 1
  MaxFaults = 1
  MaxStarts = 2
INVARIANTS
  KeysInForceKept
  NoOrphanKey
  LedgerLoads
  HouseholdCanReturn
PROPERTIES
  StopEnds
CHECK_DEADLOCK FALSE
