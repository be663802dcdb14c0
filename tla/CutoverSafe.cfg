SPECIFICATION FairSpec
CONSTANTS
  c1 = c1
  c2 = c2
  Call <- TwoCalls
  None = None
  MaxAsk = 3
  MaxMeddle = 1
  MaxLate = 1
  MaxCrash = 2
INVARIANTS
  ClosedIsRestored
  ActiveWasVerified
PROPERTIES
  NeverBoth
  DecidedSwitchEnds
CHECK_DEADLOCK FALSE
