CONSTANTS
  p1 = p1
  p2 = p2
  s1 = s1
  s2 = s2
  v1 = v1
  v2 = v2
  Papers = {p1}
  Slots = {s1, s2}
  Versions = {v1, v2}
  SlotsOf <- SlotsOfVersion
  Twins <- NoTwins
  Workers = {w1}
  Kinds <- IngestOnly
  Overlap = FALSE
  BatchSize = 1
  MaxOps = 2
  MaxFaults = 0
  MaxTimeouts = 1
  MaxCrashes = 0
  NoChunk = NoChunk
  NoRow = NoRow
SPECIFICATION Spec
INVARIANTS AllOrNothing
CHECK_DEADLOCK FALSE
