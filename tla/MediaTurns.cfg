SPECIFICATION FairSpec
CONSTANTS
  Turn = {k1, k2}
  None = None
  MaxCrash = 1
  MaxDown = 1
INVARIANT NoOrphanTurn
PROPERTIES RevokedCannotRequest TicketWins EndedNeverActs TurnEnds
CHECK_DEADLOCK FALSE
