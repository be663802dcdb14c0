SPECIFICATION Spec
CONSTANTS
  d1 = d1
  v1 = v1
  v2 = v2
  Device = {d1}
  Value = {v1, v2}
  None = None
  MaxEpoch = 2
  MaxSeq = 4
  MaxRows = 5
  MaxFaults = 1
  Stream <- MCStream
SYMMETRY Sym
INVARIANTS
  JournalHasNoHole
  ConsistentIsComplete
  RebuildsVerified
PROPERTY VerifiedViewHolds
CHECK_DEADLOCK FALSE
