CONSTANTS
  j1 = j1
  j2 = j2
  a = a
  b = b
  Jobs = {j1}
  Procs = {a}
  Reports = {}
  Fragile = {}
  Silent = {}
  Lease = 3
  MinInterval = 2
  Gap = 1
  TTL = 1
  EvictEvery = 1
  MaxTime = 5
  MaxCrashes = 1
  NoJob = NoJob
  NoProc = NoProc
  NoTime = NoTime
SPECIFICATION FairSpec
PROPERTIES AbandonedJobFails
CHECK_DEADLOCK FALSE
