CONSTANTS
  NULL = NULL
  NoThread = NoThread
  Threads = {t1, t2}
  Classes = {1, 2}
  Runs = {1, 2, 3}
  PageSize = 6
  IntModulus = 32
  PageCounts = {1, 3}
  class_to_size <- MCClassSize
  class_to_pages <- MCClassPages
SPECIFICATION ListSpec
SYMMETRY ThreadSymmetry
INVARIANT BytesAlwaysExact
