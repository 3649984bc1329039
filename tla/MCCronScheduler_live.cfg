SPECIFICATION FairSpec
CONSTANTS
  j1 = j1 j2 = j2 j3 = j3 s1 = s1 s2 = s2 w1 = w1 w2 = w2
  Jobs = {j1, j2, j3}
  Schedulers = {s1}
  Workers = {w1}
  None = None
  MaxConcurrent = 1
  ClaimLimit = 2
  LongRuns = FALSE
  CrashAllowed = FALSE
  MaxStarts = 1
  MaxEdits = 0
  MaxFaults = 0
PROPERTIES DueJobsAreDriven CancelledLoopStops
CHECK_DEADLOCK FALSE
