SPECIFICATION FairSpec
CONSTANTS
  Setting <- LingeringOnly
  MaxHiccups = 1
PROPERTIES
  TerminationCompletes
CHECK_DEADLOCK FALSE
