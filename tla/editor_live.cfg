CONSTANTS
  u1 = u1
  u2 = u2
  c1 = c1
  c2 = c2
  NoOne = NoOne
  NoNodes = NoNodes
  Users = {u1, u2}
  Clients = {c1, c2}
  UserOf <- UserPerClient
  Edits = {}
  LockDelays = {2}
  Calls = {k1}
  InOrder = TRUE
  Failures = {"error"}
  MAX_LOCK_TIME = 2
  LOCK_TIME_EXTRA_TIME = 1
  MaxRoundTrip = 1
  MaxTime = 3
  AutoSaves = {TRUE}
  AutoSaveDelay = 2
  RESET_LOCK_DELAY = 2
SPECIFICATION FairEditorSpec
PROPERTIES
  EditAnswered
  BusyClears
  ClosingEnds
CHECK_DEADLOCK FALSE
