CONSTANTS
  Setting <- HalfRead
  HWM = 1
  Batch = 2
  MaxConns = 2
  MaxOut = 2
  MaxIn = 2
SPECIFICATION Spec
INVARIANTS
  WholeOnWire
CHECK_DEADLOCK FALSE
