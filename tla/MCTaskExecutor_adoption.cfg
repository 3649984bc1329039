SPECIFICATION Spec
CONSTANTS
  t1 = t1 t2 = t2 e1 = e1 e2 = e2 r1 = r1 r2 = r2 c1 = c1 c2 = c2
  Tasks = {t1, t2}
  Executors = {e1, e2}
  Runs = {r1, r2}
  Calls = {c1}
  NoTask = NoTask NoRun = NoRun StaleRun = StaleRun
  AgentOf <- TwoAgents
  ParentOf <- NoParents
  Blocking = {}
  Legacy = {}
  MaxParallel = 1
  MaxResumes = 1
  BootFirst = TRUE
  CallersMayDrop = FALSE
  CrashAllowed = TRUE
  Sweeper = FALSE
  MaxBoots = 2
  MaxFaults = 0
PROPERTY AdoptionSparesLiveRuns
CHECK_DEADLOCK FALSE
