CONSTANTS
  NULL = NULL
  NoThread = NoThread
  Threads = {t1, t2}
  Classes = {1}
  Runs = {1}
  PageSize = 2
  IntModulus = 32
  PageCounts = {}
  class_to_size <- MCClassSize
  class_to_pages <- MCClassPages
SPECIFICATION CacheSpec
INVARIANT FetchAsksForSomething
CHECK_DEADLOCK FALSE
