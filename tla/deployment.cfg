CONSTANTS
  engine = engine
  w1 = w1
  w2 = w2
  c1 = c1
  c2 = c2
  c3 = c3
  c4 = c4
  a1 = a1
  a2 = a2
  b1 = b1
  b2 = b2
  b3 = b3
  Proc = {engine, w1, w2}
  Engine = engine
  Hosts <- Builds
  MaxFailures = 1
  Address = {a1, a2}
  Buffer = {b1, b2, b3}
  Value = {0, 1}
  Tracked = {b1}
  Unset = Unset
  MaxEntries = 1
  MaxFills = 1
  Case = {c1, c2, c3, c4}
  Rank = {engine, w1, w2}
  Runs <- Scripts
  MaxCommits = 2
  Deployments <- Configurations
SPECIFICATION Spec
SYMMETRY Alike
CHECK_DEADLOCK FALSE
INVARIANTS TypeOK ServingIsHooked ListIsCurrent VerdictIsEarned
