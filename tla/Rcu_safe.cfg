SPECIFICATION Safety
CONSTANTS
  w1 = w1  w2 = w2  o1 = o1  o2 = o2  Null = null  Drainer = drainer
  Cpus = {0, 1}
  Interrupts = {0}
  Writers = {w1, w2}
  Objects = {o1, o2}
  Capacity = 2
  Limit = 1
  MaxEpoch = 4
  MaxReads = 1
  MaxOffline = 1
SYMMETRY Symmetric
CONSTRAINT Together
INVARIANTS TypeOK NoUseAfterFree NoLostReclaim
PROPERTIES AnswersCurrent
CHECK_DEADLOCK FALSE
