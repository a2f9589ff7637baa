SPECIFICATION Safety
CONSTANTS
  c1 = c1  c2 = c2  w1 = w1  w2 = w2  w3 = w3  s1 = s1
  Cpus = {c1, c2}
  Wakers = {w1, w2, w3}
  Setters = {s1}
  Task = task
  NoCpu = none
  Stealing = TRUE
  MaxRefusals = 1
  MaxSessions = 2
  MaxWakes = 1
  MaxSets = 1
  MaxSelfSets = 1
  MaxContention = 1
  Masks <- AllMasks
SYMMETRY Symmetry
CONSTRAINT Together
INVARIANTS TypeOK NoFailStop OneStack NoLostWake AffinityHolds
CHECK_DEADLOCK FALSE
