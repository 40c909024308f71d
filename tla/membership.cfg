CONSTANTS
  A = A
  B = B
  Organizations = {A, B, Eco}
  Ecosystem = Eco
  NoOrg = NoOrg
  NoRow = NoRow
  All = All
  c1 = c1
  c2 = c2
  c3 = c3
  c4 = c4
  ChannelIDs = {c1, c2, c3, c4}
  InitialChannels <- FirstChannels
  InitialOrgs = {NoOrg, All}
  Names = {A}
  MaxArchived = 1
  Archivable = {c4}
  Resettable = {A}
  Users = {u1}
  UserPages <- FullOrEmpty
  ChannelPages <- WithOrWithoutNew
  Calls = {k1, k2}
  MaxCalls = 2
  MaxFaults = 1
  createChannelPatience = 1
SPECIFICATION Spec
INVARIANTS
  MembersFollowOrganization
  PickerShowsStored
PROPERTIES
  CleanTidies
CHECK_DEADLOCK FALSE
SYMMETRY CallSymmetry
