CONSTANTS
  u1 = u1
  u2 = u2
  c1 = c1
  c2 = c2
  NoOne = NoOne
  NoNodes = NoNodes
  Users = {u1, u2}
  Clients = {c1, c2}
  UserOf <- UserPerClient
  Edits = {}
  LockDelays = {2}
  Calls = {k1, k2}
  InOrder = TRUE
  Failures = {}
  MAX_LOCK_TIME = 2
  LOCK_TIME_EXTRA_TIME = 1
  MaxRoundTrip = 1
  MaxTime = 5
  AutoSaves = {TRUE, FALSE}
  AutoSaveDelay = 2
  RESET_LOCK_DELAY = 2
SPECIFICATION EditorSpec
INVARIANTS
  EditorHoldsLock
PROPERTIES
  ViewersChangeNothing
CHECK_DEADLOCK FALSE
SYMMETRY CallAndClientSymmetry
