CONSTANTS
  root = root
  n1 = n1
  e1 = e1
  NoID = NoID
  NodeIDs = {root, n1, n2}
  EdgeIDs = {e1, e2}
  NewContent = new
  Contents = {new, changed}
  managedBy = managedBy
  EdgeKinds = {managedBy, suppliedBy}
  InitialGraphs <- SmallGraphs
  Calls = {k1}
  MaxFaults = 1
  MaxEdits = 2
SPECIFICATION FairGraphSpec
INVARIANTS
  WhatIsShownIsSaved
  GraphIsSound
PROPERTIES
  EditsGetStored
CHECK_DEADLOCK FALSE
