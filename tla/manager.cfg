SPECIFICATION FairSpec
CONSTANTS
  x = x
  y = y
  p1 = p1
  p2 = p2
  p3 = p3
  Nil = Nil
  Ids = {x, y}
  Objs = {p1, p2, p3}
  Start = 1
  End = 2
  Width = 4
CHECK_DEADLOCK FALSE
INVARIANTS UniqueUserIDs PoolIsExact ManagedOnce AllocatesInRange
PROPERTIES RemovalCompletes
