SPECIFICATION FairSpec
CONSTANTS
  Request = {r1}
  Ticket = {t1, t2}
  Call = {c1}
  None = None
  MaxReads = 2
  MaxCrash = 2
  MaxFailure = 0
CHECK_DEADLOCK FALSE
INVARIANTS UndoAgrees NoOrphan
PROPERTY Concludes
