CONSTANTS
  NoThread = NoThread
  Threads = {t1, t2}
  BufferFromMalloc = FALSE
  MaxSteps = 20
SPECIFICATION FairSpec
INVARIANT LocksSound
PROPERTY CallsReturn
