SPECIFICATION Spec
CONSTANTS
  Proposals = {c1, c2}
  Keys = {k1, k2}
  Plans = {a1}
  Texts = {t1}
  Requests = {r1, r2, r3}
  Lanes = {"standard"}
  MaxReady = 1
  MaxPreparing = 2
  MaxAttempts = 1
  MaxRevision = 3
  None = None
SYMMETRY Symmetry
INVARIANTS ReadyWithinCapacity OneCardPerBehavior HeardOnce
PROPERTY DecisionsAreFinal
CHECK_DEADLOCK FALSE
