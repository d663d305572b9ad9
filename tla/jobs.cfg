CONSTANTS
  j1 = j1
  j2 = j2
  a = a
  b = b
  Jobs = {j1, j2}
  Procs = {a, b}
  Reports = {j1}
  Fragile = {j2}
  Silent = {}
  Lease = 3
  MinInterval = 2
  Gap = 1
  TTL = 1
  EvictEvery = 1
  MaxTime = 5
  MaxCrashes = 1
  NoJob = NoJob
  NoProc = NoProc
  NoTime = NoTime
SPECIFICATION Spec
INVARIANTS LiveJobKept RunnerKnowsJob
PROPERTIES OutcomeKept
CHECK_DEADLOCK FALSE
