\* Two threads make system calls, the task of a third returns.
CONSTANTS
  Threads = {t1, t2, t3}
  Channels = {pipe}
  kernel_sem_cv = kernel_sem_cv
  ReturningThreads = {t3}
  Nobody = Nobody
SYMMETRY Symmetry
SPECIFICATION Spec
INVARIANTS
  KernelExclusion
