CONSTANTS
  Texts <- FiveTexts
  Trimmed <- WithoutBlanks
  Rank <- RankOfName
  Catalogs <- ThreeCatalogs
  kMaxSearchResults = 2
  MaxSyncs = 2
  None = None
  LocalDatabases <- TwoLocalDatabases
  SyncDatabases <- TwoSyncs
  RepositoryOrder <- TwoRepositories
  SearchTexts = {"", "k"}
  NameHas <- OddNames
  MaxInstalls = 1
  NoPackage = NoPackage
  MaxServiceChecks = 1
  MaxStarts = 2
  MaxCalls = 1
SPECIFICATION GuiSpec
INVARIANTS SelectionIsShown RowsAnswerTheText ActiveIsShown NothingLost AnnouncedIsRead
PROPERTIES ActiveStays ControlReturns
CHECK_DEADLOCK FALSE
