SPECIFICATION FairSpec
CONSTANTS
  p1 = p1
  t1 = t1
  t2 = t2
  s1 = s1
  s2 = s2
  Callers = {p1}
  Loop = Loop
  Tasks = {t1, t2}
  Sources = {s1, s2}
  WakeUp = WakeUp
  Programs <- MCPrograms
  Capacity = 2
  MaxWakeUps = 1
  Delays = {2}
  TicksPerMs = 2
  MaxClock = 2
  MaxOps = 2
PROPERTIES
  NothingSleptThrough
  SourceServed
CHECK_DEADLOCK FALSE
