SPECIFICATION MCSpec
CONSTANTS
  Capacity = 2
  MaxGeneration = 2
  None = None
  Users = {w1, w2}
  Irqs = {i1, i2}
  Sources = 2
  Handlers = {h1}
  MaxIds = 1
  MaxRaises = 1
  w1 = w1
  w2 = w2
  Closers = {h1}
  MaxPosts = 1
  Plans <- MCPlans
  Interrupted = {w1}
  MaxPermits = 2
  MaxNotifies = 1
INVARIANTS TypesOK IrqNotLost SleeperReachable
PROPERTIES SleepersWake
CHECK_DEADLOCK FALSE
