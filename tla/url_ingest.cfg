CONSTANTS
  a = a
  b = b
  c = c
  p = p
  q = q
  UrlJobs = {j1, j2}
  Items = {a, b, c}
  Papers = {p, q}
  IdOf <- IdOfItem
  Lists <- SomeLists
  MaxOther = 1
  NoItem = NoItem
SPECIFICATION UrlFairSpec
INVARIANTS OneJobPerPaper RegistryExact
PROPERTIES OverwritesOnlyStrange JobEnds
CHECK_DEADLOCK FALSE
