SPECIFICATION Spec
CONSTANTS
  m1 = m1 m2 = m2 stop1 = stop1 c1 = c1
  Messages = {m1, m2}
  Convs = {c1}
  ConvOf <- OneConv
  Stops = {}
  None = None
  MaxConcurrent = 1
  MaxTurns = 2
  MaxFaults = 0
INVARIANT InjectedMessagesAreSeen
CHECK_DEADLOCK FALSE
