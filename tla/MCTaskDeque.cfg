\* Two thieves, four slots (three usable), indices that wrap around the buffer.
CONSTANTS
  t1 = t1
  t2 = t2
  owner = owner
  Thieves = {t1, t2}
  Owner = owner
  Capacity = 4
  SizeModulus = 16
  MaxPush = 6
SPECIFICATION Spec
CHECK_DEADLOCK FALSE
INVARIANTS
  TypeOK
  CursorsInRange
  ReservedSlotIsFree
  MovesClaimedTaskUnlessOverrun
PROPERTY ImplementsWorkDeque
