\* Three tasks posted by callbacks and tasks, unequal local deques that overflow into the
\* global pool, a thief, exits.
CONSTANTS
  NoTask = NoTask
  NumWorkers = 2
  Posters = {}
  Task = {t1, t2, t3}
  Calls = {"local", "exit"}
  Backends = {"LINUX_POLL"}
  Delays = {}
  LocalMax <- UnevenLocalMax
  MaxClock = 0
  LocalBatch = 2
  GlobalBatch = 3
  StealThreshold = 0
  StealFactor = 1
  KTries = 1
  WillSteal = TRUE
  TicksPerMs = 1
SPECIFICATION Spec
SYMMETRY Symmetry
INVARIANTS
  TaskInOnePlace
  CountsSettle
