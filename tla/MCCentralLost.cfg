CONSTANTS
  NULL = NULL
  NoThread = NoThread
  Threads = {t1}
  Classes = {1}
  Runs = {1, 2, 3}
  PageSize = 6
  IntModulus = 32
  PageCounts = {}
  class_to_size <- MCClassSize
  class_to_pages <- MCClassPages
SPECIFICATION ListSpec
INVARIANT NothingLost
