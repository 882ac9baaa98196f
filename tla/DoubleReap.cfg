\* Two threads of a process may wait for the same child.
CONSTANTS
  MAX_PROC = 4
  Threads = {t1, t2, t3, t4}
  InitThread = t1
  NULL = NULL
  MaxThreads = 4
  ConcurrentWaits = TRUE
SPECIFICATION Spec
PROPERTIES
  WaitedChildIsZombie
