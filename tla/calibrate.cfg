SPECIFICATION FairSpec
CHECK_DEADLOCK FALSE
CONSTANTS
  None = None
  Unbound = Unbound
  s1 = s1
  s2 = s2
  c1 = c1
  c2 = c2
  m1 = m1
  m2 = m2
  Service = {s1, s2}
  Command = {c1, c2}
  Forced = {c2}
  Serves <- TwoModels
  Existing <- SomeFile
  AutoCalibrate = TRUE
  MayDelete = TRUE
  MaxKills = 1
INVARIANTS
  TypeOK
  ServedIsBound
  SameStatistics
  PublishedWhole
PROPERTIES
  NeverOverwritten
  ComesToRest
