CONSTANTS
  Threads = {t1, t2, t3}
  NoThread = NoThread
  Pages = {p1, p2, p3}
  PageSize = 5
  NodeSize = 2
  NULL = NULL
  Object = Object
  ReleaseLocks = FALSE
  MaxHeld = 1
SYMMETRY SlabSymmetry
SPECIFICATION Spec
INVARIANT HandedOutOnce
