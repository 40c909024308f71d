CONSTANTS
  a = a
  b = b
  i = i
  leaf = leaf
  x = x
  y = y
  Absent = Absent
  Hooks <- GuardedHooks
  Values = {a, b, i, Absent, 0, 2}
  ValuesOf <- ParameterValues
  MaxRenders = 2
  MaxFetches <- TwoFetches
  MaxNavigations = 1
  ROW_PER_PAGE = 1
  RowsAt <- TwoTables
  Searches <- TwoSearches
  Sorters <- OneSorter
  ContainedIn <- RowsOfHashes
  NodesAt <- TwoGraphs
  EdgesAt <- OneEdge
  NodeIn <- NodesOfHashes
  InfoIn <- InfoHashes
  WorkflowAt <- TwoWorkflows
  StartAt <- TwoStarts
  ReferencesAt <- SameReferences
  POSTS_PER_PAGE = 1
  PostsAt <- TwoPosts
  NewsFor <- NewsOfSearches
  MessagesAt <- TwoTemplates
  Ongoing = Ongoing
  MaxRemovals = 2
  Boxes = {"single", "list"}
  MaxCreations = 2
SPECIFICATION FairSpec
INVARIANTS
  LatestAnswerStays
  LinkedPartIsShown
  NewsPageFits
  GraphFollowsData
  TargetStandsOut
  NameBelongsToSection
PROPERTIES
  CatchesUp
  LinkIsReached
  RemovedStaysRemoved
CHECK_DEADLOCK FALSE
