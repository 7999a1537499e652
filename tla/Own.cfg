SPECIFICATION FairSpec
CONSTANTS
  Root = Root
  Listener = {l1}
  Transient = {t1, t2}
  Connecting = {c1}
  Connecter = {k1, k2}
  Peer = {q1, q2}
  Pipe = {p1, p2, p3}
  None = None
  LateTimer = FALSE
  Scenario = {{l1, t1, t2}, {c1, k1, k2}, {l1, t1, q1, q2}}
INVARIANTS
  TreeSafe
PROPERTIES
  CloseCompletes
CHECK_DEADLOCK FALSE
