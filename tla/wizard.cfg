CONSTANTS
  Users = {u1}
  IssueIDs = {i1, i2}
  Names = {n1, n2}
  BadNames = {b}
  Texts = {t}
  Elements = {e1, e2}
  Options = {e1}
  Blank = Blank
  Away = Away
  Ecosystem = Ecosystem
  Slots = {s1, s2}
  MaxEdits = 1
  MaxVisits = 1
  MaxItems = 2
  MaxFaults = 1
SPECIFICATION Spec
INVARIANTS
  AChannelPerIssue
PROPERTIES
  WhatIsShownIsSent
  UntouchedPartsSurvive
CHECK_DEADLOCK FALSE
SYMMETRY WizardSymmetry
