CONSTANTS
  IssueIDs = {i1, i2}
  UUIDs = {a, b, c}
  Names = {n1}
  Contents = {x, y}
  MaxCopies = 2
  Requests = {r1, r2}
SPECIFICATION Spec
INVARIANTS
  IssuesTypeOK
  ItemIDsMeanOneItem
PROPERTIES
  DeletedStaysDeleted
  UnchangedItemsKeepID
CHECK_DEADLOCK FALSE
SYMMETRY IssuesSymmetry
