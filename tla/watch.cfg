CONSTANTS
  Watches = {w1}
  Loops = {a, b}
  Callers = {c}
  Papers = {x}
  Lease = 2
  Cadence = 2
  RunTime = 1
  SweepTime = 1
  Prompt = FALSE
  MaxTime = 4
  MaxFails = 1
  MaxRestarts = 1
  NoRow = NoRow
  NoWatch = NoWatch
SPECIFICATION FairSpec
INVARIANTS OneScheduledRun NotFetchedAgain NewPapersAnnounced
PROPERTIES DueWatchRuns
CHECK_DEADLOCK FALSE
