\* Two workers that take up to two tasks at a time, exits, a spurious wakeup.
CONSTANTS
  NoTask = NoTask
  Nobody = Nobody
  Workers = {w1, w2}
  Posters = {p1}
  Task = {a, b, c}
  BatchSize = 2
  MayExit = TRUE
  MaxSpurious = 1
SPECIFICATION FairSpec
CHECK_DEADLOCK FALSE
INVARIANTS
  NoIdleWorkerWhileQueued
PROPERTIES
  ComputeEventuallyRuns
