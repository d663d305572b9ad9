CONSTANTS
  t1 = t1
  t2 = t2
  Ids = {i1, i2}
  Texts = {old, new}
  Threads = {t1, t2}
  Overlap = FALSE
  Persist = TRUE
  MaxOps = 3
  MaxFaults = 0
  MaxRestarts = 0
  NoText = NoText
  NoThread = NoThread
  NoFile = NoFile
SPECIFICATION Spec
INVARIANTS NoStaleText
CHECK_DEADLOCK FALSE
