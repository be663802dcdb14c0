SPECIFICATION Spec
CONSTANTS
  Proc = {p1, p2}
  Inode = {i1, i2, i3}
  NoFile = NoFile
  StaleAfter = 2
  MaxAttempt = 3
  MaxClock = 3
  MaxCrash = 1
INVARIANT OneOwner
