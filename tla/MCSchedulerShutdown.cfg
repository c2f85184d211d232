\* A task in the global pool, exits and single stops.
CONSTANTS
  p1 = p1
  NoTask = NoTask
  NumWorkers = 2
  Posters = {p1}
  Task = {t1}
  Calls = {"io", "exit", "stop"}
  Backends = {"MACOS_COCOA"}
  Delays = {}
  LocalMax <- EvenLocalMax
  MaxClock = 0
  LocalBatch = 2
  GlobalBatch = 2
  StealThreshold = 1
  StealFactor = 2
  KTries = 1
  WillSteal = TRUE
  TicksPerMs = 1
SPECIFICATION FairSpec
PROPERTIES
  ExitStopsAll
  IoRunsWhileWorkersWake
