SPECIFICATION Spec
CONSTANTS
  Checked = {"survey", "reqrep"}
  None = None
  HWM = 1
  Client = {c1, c2}
  MaxConns = 2
  ReqSetting <- SameIdAsked
  Surveyor = {s1, s2}
  Respondent = {r1, r2}
  SurveySetting <- Polled
INVARIANTS
  AnswerMatches
  RoutedBack
  PollSafe
CHECK_DEADLOCK FALSE
