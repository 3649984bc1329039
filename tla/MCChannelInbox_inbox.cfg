SPECIFICATION FairSpec
CONSTANTS
  m1 = m1 m2 = m2 stop1 = stop1 c1 = c1
  Messages = {m1, m2, stop1}
  Convs = {c1}
  ConvOf <- OneConv
  Stops = {stop1}
  None = None
  MaxConcurrent = 1
  MaxTurns = 2
  MaxFaults = 1
INVARIANTS
  RunsOwnTheirConv ClaimsHaveOwners NextTurnSeesInjected ShutdownLeavesNoRun
PROPERTIES
  HandlersReturn ConversationsAreFreed StoppedRunsEnd InboxShutdownReturns
CHECK_DEADLOCK FALSE
