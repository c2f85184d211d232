\* Private and delayed tasks to one worker; two ticks are a millisecond.  The channel of
\* the first backend is emptied by a callback, that of the second by the wait.
CONSTANTS
  p1 = p1
  NoTask = NoTask
  NumWorkers = 1
  Posters = {p1}
  Task = {t1, t2}
  Calls = {"private", "delayed"}
  Backends = {"LINUX_EPOLL", "WINDOWS_IOCP"}
  Delays = {0, 3}
  LocalMax <- EvenLocalMax
  MaxClock = 3
  LocalBatch = 2
  GlobalBatch = 2
  StealThreshold = 1
  StealFactor = 2
  KTries = 1
  WillSteal = FALSE
  TicksPerMs = 2
SPECIFICATION FairSpec
INVARIANTS
  NoStrandedInbound
PROPERTIES
  DelayedEventuallyRuns
