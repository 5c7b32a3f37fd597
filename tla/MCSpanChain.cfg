CONSTANTS
  NULL = NULL
  NoThread = NoThread
  Data = Data
  Threads = {t1, t2}
  Classes = {1, 2}
  Runs = {1, 2}
  PageSize = 5
  IntModulus = 32
  PageCounts = {1}
  class_to_size <- MCClassSize
  class_to_pages <- MCClassPages
SPECIFICATION ChainSpec
SYMMETRY ThreadSymmetry
INVARIANTS CacheTypeOK OutsideIsHeldOnce LengthExact CacheBounded ExitReturnsEverything ChainsExact BlocksUntouched
PROPERTIES ImplementsHeap UsesCentralCache
\* A program whose threads are gone and hold nothing may stop, and an
\* uninitialised pointer ends it.
CHECK_DEADLOCK FALSE
