SPECIFICATION MCSpec
CONSTANTS
  u1 = u1  u2 = u2
  Capacity = 3
  MaxGeneration = 2
  Users = {u1, u2}
  FutureCapacity = 1
  FutureGenerations = 2
  MaxTime = 2
INVARIANTS TypesOK LeasePins NoOrphanBox
PROPERTIES ElapsedIsRight Reclaimed WaitsEnd
CHECK_DEADLOCK FALSE
