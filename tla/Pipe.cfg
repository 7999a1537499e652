SPECIFICATION FairSpec
CONSTANTS
  Setting <- AllSettings
  MaxHiccups = 2
INVARIANTS
  CleanEnd
  FlowControl
PROPERTIES
  ReadInOrder
  LingerDelivers
  QuietTerminationCompletes
CHECK_DEADLOCK FALSE
