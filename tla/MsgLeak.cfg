CONSTANTS
  Msg = {m1, m2, m3, m4}
  Content = {c1, c2}
SPECIFICATION Spec
INVARIANTS
  NoLeak
CHECK_DEADLOCK FALSE
