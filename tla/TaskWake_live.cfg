SPECIFICATION Spec
CONSTANTS
  c1 = c1  c2 = c2  w1 = w1  w2 = w2  w3 = w3  s1 = s1 
  Cpus = {c1, c2}
  Wakers = {w1}
  Setters = {s1}
  Task = task
  NoCpu = none
  Stealing = FALSE
  MaxRefusals = 0
  MaxSessions = 1
  MaxWakes = 1
  MaxSets = 1
  MaxSelfSets = 0
  MaxContention = 1
  Masks <- AllMasks
PROPERTIES OccurrenceConsumed
CHECK_DEADLOCK FALSE
