CONSTANTS
  t1 = t1
  t2 = t2
  e1 = e1
  e2 = e2
  o1 = o1
  o2 = o2
  Writers = {t1, t2}
  Events = {e1, e2}
  Others = {o1, o2}
  Versions = {v1}
  NoValue = NoValue
  NoRequest = NoRequest
  MayTear = TRUE
  GivesUp = FALSE
  MaxCalls = 3
  MaxMishaps = 2
SPECIFICATION DbSpec
SYMMETRY MCSymmetry
INVARIANTS MirrorAgrees
CHECK_DEADLOCK FALSE
