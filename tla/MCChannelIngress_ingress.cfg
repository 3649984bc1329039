SPECIFICATION FairSpec
CONSTANTS
  u1 = u1 u2 = u2 c1 = c1 c2 = c2 e1 = e1 e2 = e2 e3 = e3
  Users = {u1, u2}
  MaxUpdates = 3
  Conns = {c1, c2}
  Envelopes = {e1, e2, e3}
  Capacity = 2
  Budgets <- Traffic
INVARIANTS
  ConfirmedUpdatesAreServed PairingIsDurable EnvelopesDispatchOnce
PROPERTIES
  UpdatesSettle
CHECK_DEADLOCK FALSE
