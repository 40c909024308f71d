CONSTANTS
  Nothing = Nothing
  Thrown = Thrown
  Organizations <- TheOrganizations
  Rows <- TheRows
  Contents <- TheContents
  Channels <- TheChannels
  Includes <- TheIncludes
  Starts <- TheStarts
  Ellipsed <- TheEllipsed
  Pieces <- ThePieces
  Typed = {"Br", "Notes"}
  MaxTyped = 1
  MaxTokens = 7
  MaxRequests = 2
  MaxSwitches = 1
SPECIFICATION Spec
INVARIANTS
  AcceptedLeadsThere
  WrongReferencesStillPost
CHECK_DEADLOCK FALSE
