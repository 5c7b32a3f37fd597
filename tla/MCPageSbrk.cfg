CONSTANTS
  NULL = NULL
  FT_PAGE_MIN = 2
  FT_PAGE_IDLE_RATE = 30
  PageCounts = {1, 2, 3}
  FirstPage = 1
  BreakLimit = 4
  SbrkFails = TRUE
  MaxTreeSize = 4
SPECIFICATION Spec
INVARIANT HandsOutMemory
CHECK_DEADLOCK FALSE
