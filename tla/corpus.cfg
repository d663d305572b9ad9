CONSTANTS
  p1 = p1
  p2 = p2
  s1 = s1
  s2 = s2
  v1 = v1
  v2 = v2
  Papers = {p1, p2}
  Slots = {s1, s2}
  Versions = {v1, v2}
  SlotsOf <- SlotsOfVersion
  Twins <- AllTwins
  Workers = {w1, w2}
  Kinds <- LoggingKinds
  Overlap = FALSE
  BatchSize = 1
  MaxOps = 3
  MaxFaults = 2
  MaxTimeouts = 1
  MaxCrashes = 1
  NoChunk = NoChunk
  NoRow = NoRow
SPECIFICATION Spec
INVARIANTS NoSilentDivergence
PROPERTIES RollbackOnlyOwn LogRowsAreBacked
SYMMETRY Alike
CHECK_DEADLOCK FALSE
