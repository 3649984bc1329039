SPECIFICATION Spec
CONSTANTS
  r1 = r1 r2 = r2 r3 = r3 chat = chat dm = dm
  Runs = {r1, r2, r3}
  Sessions = {chat, dm}
  SessionOf <- AllInOne
  MaxTurns = 2
  MaxAttempts = 2
  MaxMessages = 4
  KeepRecent = 2
  MaxBatch <- NoTools
  Budgets <- Cancels
INVARIANT
  HistorySurvivesCancel
CHECK_DEADLOCK FALSE
