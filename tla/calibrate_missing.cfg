SPECIFICATION Spec
CHECK_DEADLOCK FALSE
CONSTANTS
  None = None
  Unbound = Unbound
  s1 = s1
  s2 = s2
  c1 = c1
  c2 = c2
  m1 = m1
  m2 = m2
  Service = {s1, s2}
  Command = {}
  Forced = {}
  Serves <- SameModel
  Existing <- Missing
  AutoCalibrate = TRUE
  MayDelete = FALSE
  MaxKills = 0
PROPERTIES
  MissingIsGenerated
