CONSTANTS
  NoThread = NoThread
  Threads = {t1, t2}
  BufferFromMalloc = TRUE
  MaxSteps = 20
SPECIFICATION Spec
INVARIANT BufferAskedOnce
