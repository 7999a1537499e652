SPECIFICATION Spec
CONSTANTS
  Checked = {"lb", "fq", "calls", "poller", "endpoint"}
  Pipe = {p1, p2, p3}
  NoPipe = NoPipe
  LbSetting <- Hasty
  Delayed = {p1, p2}
  MaxQueue = 2
  HWM = 2
  Delay = 1
  CallSetting <- Interrupted
  PollSetting <- Timed
  Fd = {3, 4, 5}
  MaxEvents = 2
  EndSetting <- AtLimits
  Listener = {"l1", "l2"}
  Width = 5
  MaxFd = 4
  Base = 4
  LongSize = 2
  BufSize = 2
  MaxMsgSize = 5
  max_vsm_size = 2
  Sizes = {0, 1, 2, 3, 5, 6}
  NMsgs = 2
INVARIANTS
  NoAbort
  ActiveFirst
  MessageInOnePipe
  MessageKept
  Punctual
  NeverOversleeps
  EndpointsKept
  IntervalBounded
  WithinMaximum
CHECK_DEADLOCK FALSE
