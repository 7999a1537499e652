SPECIFICATION FairSpec
CONSTANTS
  Socket = {s1, s2}
  MaxSockets = 2
  Gap = TRUE
  None = None
INVARIANTS
  ReaperFinishesOnce
CHECK_DEADLOCK FALSE
