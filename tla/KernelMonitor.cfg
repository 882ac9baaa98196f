\* Three threads, one of which returns from its task, and one channel.
CONSTANTS
  Threads = {t1, t2, t3}
  Channels = {pipe}
  kernel_sem_cv = kernel_sem_cv
  ReturningThreads = {t3}
  Nobody = Nobody
SPECIFICATION FairSpec
INVARIANTS
  KernelExclusionUnlessIntruded
  SemaphoreExact
  RingsExact
  SignalsTrue
  NoLostWakeup
PROPERTIES
  SignalFindsSleeper
  KernelIsUsed
  TimedWaitEnds
