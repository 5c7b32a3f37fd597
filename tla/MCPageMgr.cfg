CONSTANTS
  NULL = NULL
  FT_PAGE_MIN = 2
  FT_PAGE_IDLE_RATE = 30
  PageCounts = {1, 2, 3}
  FirstPage = 1
  BreakLimit = 7
  SbrkFails = FALSE
  MaxTreeSize = 4
SPECIFICATION Spec
INVARIANTS PageMgrTypeOK PagesHaveOneOwner BooksRight
PROPERTIES SuppliesPages RequestsMet
CHECK_DEADLOCK FALSE
