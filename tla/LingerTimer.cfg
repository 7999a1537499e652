CONSTANTS
  Setting <- Lingering
  HWM = 1
  Batch = 2
  MaxConns = 2
  MaxOut = 2
  MaxIn = 2
SPECIFICATION Spec
INVARIANTS
  TimerSafe
CHECK_DEADLOCK FALSE
