SPECIFICATION Spec
CONSTANTS
  Checked = {"reqrep", "survey"}
  None = None
  HWM = 1
  Client = {c1, c2}
  MaxConns = 2
  ReqSetting <- Asked
  Surveyor = {s1, s2}
  Respondent = {r1, r2}
  SurveySetting <- Surveyed
INVARIANTS
  AnswerMatches
  RoutedBack
PROPERTIES
  Answered
CHECK_DEADLOCK FALSE
