\* Two cores, two threads, two different timeouts.
CONSTANTS
  Cores = {c1, c2}
  Threads = {t1, t2}
  InitThread = t1
  Timeouts = {0, 1}
  NO_TIMEOUT = 99
  MaxTime = 1
  NoCore = NoCore
SPECIFICATION FairSpec
INVARIANTS
  QueueExact
  OneCorePerStack
  GainAssertion
  TimeoutsExact
  ActiveThreadsExact
PROPERTIES
  YieldWakesExpired
  ReadyRuns
  SleeperWakes
  MachineShutsDown
