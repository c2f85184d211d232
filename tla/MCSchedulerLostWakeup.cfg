\* The smallest hive: one worker, one external postIO.
CONSTANTS
  p1 = p1
  NoTask = NoTask
  NumWorkers = 1
  Posters = {p1}
  Task = {t1}
  Calls = {"io"}
  Backends = {"LINUX_EPOLL"}
  Delays = {}
  LocalMax <- EvenLocalMax
  MaxClock = 0
  LocalBatch = 2
  GlobalBatch = 2
  StealThreshold = 1
  StealFactor = 2
  KTries = 1
  WillSteal = TRUE
  TicksPerMs = 1
SPECIFICATION Spec
INVARIANT NoStrandedGlobal
