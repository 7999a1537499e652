SPECIFICATION FairSpec
CONSTANTS
  Setting <- PushOnly
  MaxHiccups = 1
PROPERTIES
  TerminationCompletes
CHECK_DEADLOCK FALSE
