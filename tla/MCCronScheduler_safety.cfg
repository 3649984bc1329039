SPECIFICATION Spec
CONSTANTS
  j1 = j1 j2 = j2 j3 = j3 s1 = s1 s2 = s2 w1 = w1 w2 = w2
  Jobs = {j1, j2}
  Schedulers = {s1, s2}
  Workers = {w1, w2}
  None = None
  MaxConcurrent = 1
  ClaimLimit = 2
  LongRuns = FALSE
  CrashAllowed = TRUE
  MaxStarts = 2
  MaxEdits = 1
  MaxFaults = 1
SYMMETRY Symmetry
INVARIANTS
  OneWorkerPerJob RunOnceDeliversOnce
PROPERTY ImplementsLease
CHECK_DEADLOCK FALSE
