SPECIFICATION FairSpec
CONSTANTS
  r1 = r1 r2 = r2 r3 = r3 chat = chat dm = dm
  Runs = {r1, r2, r3}
  Sessions = {chat, dm}
  SessionOf <- Assigned
  MaxTurns = 2
  MaxAttempts = 2
  MaxMessages = 4
  KeepRecent = 1
  MaxBatch <- Batches
  Budgets <- Scenarios
INVARIANTS
  AcceptedInputSurvives ExecutedWorkSurvives NoDanglingHistory RequestsAreWellFormed
  ResponsesComeFromOneAttempt NotifiesArriveOnce
PROPERTIES
  ImplementsAgentRun HungRunsEnd KernelShutdownReturns
CHECK_DEADLOCK FALSE
