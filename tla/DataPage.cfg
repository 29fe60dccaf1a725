SPECIFICATION MCSpec
CONSTANTS
  A = A  B = B
  Nothing = Nothing
  Tables = {A, B}
  Queries = {"home", "other"}
  Home = "home"
  LeftOver <- MCLeftOver
  MaxChanges = 1
  MaxCalls = 1
  MaxFetches = 2
  Keys = {"k1", "k2"}
  ChunkSize = 1
  RowIds = {"r1", "r2", "r3"}
  PageSizes = {1, 2}
  Cap = 2
  LastPage = 3
  M2MCols = {1, 2}
  Targets = {"t1"}
  MaxForeign = 1
  Cards = {1, 2}
  Values = {"todo"}
  NoValue = "none"
  Gone = "gone"
  Matching = {1}
  CardsPerPage = 1
  MaxPages = 2
  MaxReads = 3
  MaxWrites = 2
INVARIANTS
  PageTypeOK
  OwnWritesShow
  FormWritesItsTable
  BulkReportAddsUp
  AllRowsRead
  BoardMatchesServer
PROPERTIES
  UntoggledLinksStay
  ReadingEnds
CHECK_DEADLOCK FALSE
