\* Two bytes of buffer, three threads.
CONSTANTS
  Threads = {t1, t2, t3}
  Bytes = {a, b}
  PIPE_BUFFER_SIZE = 2
  MaxSize = 2
  MaxFds = 2
SPECIFICATION FairSpec
INVARIANTS
  EndsExact
  SleepersHaveReason
PROPERTIES
  ReturnsForAReason
  ImplementsFifo
  ClosedEndIsNoticed
