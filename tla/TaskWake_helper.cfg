SPECIFICATION Safety
CONSTANTS
  c1 = c1  c2 = c2  w1 = w1  w2 = w2  w3 = w3  s1 = s1 
  Cpus = {c1, c2}
  Wakers = {w1}
  Setters = {s1}
  Task = task
  NoCpu = none
  Stealing = FALSE
  MaxRefusals = 0
  MaxSessions = 1
  MaxWakes = 1
  MaxSets = 2
  MaxSelfSets = 0
  MaxContention = 1
  Masks <- AllMasks
SYMMETRY CpuSymmetry
INVARIANTS HelperAdmitted
CHECK_DEADLOCK FALSE
