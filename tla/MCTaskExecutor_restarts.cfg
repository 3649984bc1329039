SPECIFICATION Spec
CONSTANTS
  t1 = t1 t2 = t2 e1 = e1 e2 = e2 r1 = r1 r2 = r2 c1 = c1 c2 = c2
  Tasks = {t1, t2}
  Executors = {e1}
  Runs = {r1, r2}
  Calls = {c1}
  NoTask = NoTask NoRun = NoRun StaleRun = StaleRun
  AgentOf <- OneAgent
  ParentOf <- NoParents
  Blocking = {}
  Legacy = {t2}
  MaxParallel = 2
  MaxResumes = 1
  BootFirst = TRUE
  CallersMayDrop = FALSE
  CrashAllowed = TRUE
  Sweeper = TRUE
  MaxBoots = 4
  MaxFaults = 2
SYMMETRY RunSymmetry
INVARIANTS
  OneRunPerTask PausedRowsAreIdle RunningRowsAreBacked OnlyInvoluntaryPausesCount LimitFailsPoisonTasksOnly
CHECK_DEADLOCK FALSE
