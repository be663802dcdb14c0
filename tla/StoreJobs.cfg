SPECIFICATION LiveSpec
CONSTANTS
  Proposals = {c1}
  Keys = {k1}
  Plans = {a1, a2}
  Texts = {}
  Requests = {r1, r2}
  Lanes = {"standard", "migration"}
  MaxReady = 1
  MaxPreparing = 1
  MaxAttempts = 2
  MaxRevision = 5
  None = None
INVARIANTS ReadyIsPrepared OneAttemptAtATime
PROPERTY EveryCardCloses
CHECK_DEADLOCK FALSE
