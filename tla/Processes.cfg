\* Init and three more processes, three threads at a time, or four that are alone.
CONSTANTS
  MAX_PROC = 5
  Threads = {t1, t2, t3, t4}
  InitThread = t1
  NULL = NULL
  MaxThreads = 3
  ConcurrentWaits = FALSE
CONSTRAINT RoomForThreads
SYMMETRY Symmetry
SPECIFICATION Spec
INVARIANTS
  ThreadsExact
  JoinsExact
  TreeExact
  FreelistExact
  SleepersHaveReason
PROPERTIES
  ReapsOwnZombies
