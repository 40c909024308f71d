CONSTANTS
  u1 = u1
  u2 = u2
  c1 = c1
  c2 = c2
  c3 = c3
  NoOne = NoOne
  NoNodes = NoNodes
  Users = {u1, u2}
  Clients = {c1, c2}
  UserOf <- UserPerClient
  Edits = {e1}
  LockDelays = {0, 2}
  Calls = {k1, k2}
  InOrder = TRUE
  Failures = {"error", "lost"}
  MAX_LOCK_TIME = 1
  LOCK_TIME_EXTRA_TIME = 1
  MaxRoundTrip = 1
  MaxTime = 4
SPECIFICATION ProviderSpec
INVARIANTS
  ProviderTypeOK
  SaverHoldsLock
PROPERTIES
  LeaseRespected
  LeasedGraphSpec
CHECK_DEADLOCK FALSE
SYMMETRY CallSymmetry
