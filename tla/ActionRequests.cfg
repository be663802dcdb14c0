SPECIFICATION Spec
CONSTANTS
  Request = {r1}
  Ticket = {t1, t2}
  Call = {c1, c2}
  None = None
  MaxReads = 1
  MaxCrash = 1
  MaxFailure = 1
CHECK_DEADLOCK FALSE
SYMMETRY Symmetry
INVARIANTS OneExecutionPerRequest ConfirmedBeforeExecution DecisionOnTimeline AnnouncedOnce
PROPERTY ImplementsLifecycle
