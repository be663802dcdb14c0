SPECIFICATION Spec
CONSTANTS
  c1 = c1
  c2 = c2
  Call <- TwoCalls
  None = None
  MaxAsk = 2
  MaxMeddle = 0
  MaxLate = 0
  MaxCrash = 0
PROPERTIES
  NeverTogether
CHECK_DEADLOCK FALSE
