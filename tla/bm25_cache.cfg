CONSTANTS
  t1 = t1
  t2 = t2
  Ids = {i1, i2}
  Texts = {old, new}
  Threads = {t1, t2}
  Overlap = TRUE
  Persist = TRUE
  MaxOps = 3
  MaxFaults = 1
  MaxRestarts = 1
  NoText = NoText
  NoThread = NoThread
  NoFile = NoFile
SPECIFICATION Spec
INVARIANTS IdsCurrent BuiltIsCurrent
SYMMETRY Alike
CHECK_DEADLOCK FALSE
