CONSTANTS
  NULL = NULL
  NoThread = NoThread
  Threads = {t1, t2}
  Classes = {1}
  Runs = {1}
  PageSize = 3
  IntModulus = 32
  PageCounts = {1}
  class_to_size <- MCClassSize
  class_to_pages <- MCClassPages
SPECIFICATION FairCacheSpec
PROPERTIES ExitCompletes LockReleased
CHECK_DEADLOCK FALSE
