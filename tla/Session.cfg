CONSTANTS
  Setting <- MCSetting
  HWM = 1
  Batch = 2
  MaxConns = 2
  MaxOut = 2
  MaxIn = 2
SPECIFICATION Spec
INVARIANTS
  WholeOnWire
  WholeToSocket
  OneConnection
  NotStuck
PROPERTIES
  LingerEnds
CHECK_DEADLOCK FALSE
