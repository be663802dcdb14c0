SPECIFICATION FairSpec
CONSTANTS
  Call = {c1, c2, c3}
  None = None
  MaxAsk = 3
  MaxMeddle = 1
  MaxCrash = 1
PROPERTIES ClosedIsFinal EnablingEnds Converges
CHECK_DEADLOCK FALSE
