SPECIFICATION Spec
CONSTANTS
  Checked = {"reqrep"}
  None = None
  HWM = 1
  Client = {c1, c2}
  MaxConns = 2
  ReqSetting <- AskedTwice
  Surveyor = {s1, s2}
  Respondent = {r1, r2}
  SurveySetting <- Surveyed
PROPERTIES
  Answered
CHECK_DEADLOCK FALSE
