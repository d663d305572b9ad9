CONSTANTS
  Watches = {w1, w2}
  Loops = {a, b}
  Callers = {}
  Papers = {}
  Lease = 2
  Cadence = 3
  RunTime = 1
  SweepTime = 3
  Prompt = TRUE
  MaxTime = 7
  MaxFails = 0
  MaxRestarts = 0
  NoRow = NoRow
  NoWatch = NoWatch
SPECIFICATION Spec
INVARIANT OnlyClaimerRuns
CHECK_DEADLOCK FALSE
