SPECIFICATION Spec
CONSTANTS
  Checked = {"pubsub"}
  DistPipe = {p1, p2, p3}
  NULL = NULL
  Sock = {s1, s2}
  MaxSubs = 2
  MaxConns = 2
  PubSetting <- PubConnects
  Kind = {"pf", "sf", "tf"}
  Sub = {p1, p2}
  User = u
  MaxFilterSubs = 4
  Msg = {m1, m2, m3, m4}
  Content = {c1, c2}
INVARIANTS
  NoDeadPipe
CHECK_DEADLOCK FALSE
