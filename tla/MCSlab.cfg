CONSTANTS
  Threads = {t1, t2}
  NoThread = NoThread
  Pages = {p1, p2, p3}
  PageSize = 5
  NodeSize = 2
  NULL = NULL
  Object = Object
  ReleaseLocks = TRUE
  MaxHeld = 3
SYMMETRY SlabSymmetry
SPECIFICATION Spec
INVARIANTS SlabTypeOK HandedOutOnce NodesKept
