SPECIFICATION FairSpec
CONSTANTS
  Pipe = {p1, p2}
  Delayed = {p1, p2}
  MaxQueue = 2
  NoPipe = NoPipe
PROPERTIES
  EveryPipeServed
CHECK_DEADLOCK FALSE
