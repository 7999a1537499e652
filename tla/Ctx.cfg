SPECIFICATION FairSpec
CONSTANTS
  Socket = {s1, s2, s3}
  MaxSockets = 2
  Gap = FALSE
  None = None
INVARIANTS
  SocketsAccounted
PROPERTIES
  BlockedCallsInterrupted
  TermCompletes
CHECK_DEADLOCK FALSE
