SPECIFICATION MCSpec
CONSTANTS
  t1 = t1
  t2 = t2
  t3 = t3
  j1 = j1
  Tasks = {t1, t2}
  Queues = {1, 2}
  NoTask = NoTask
  Params <- MCParams
  Setup <- MCSetup
  NICE_0 = 2
  RR_SLICE = 2
  RT_PRIORITY_MAX = 3
  SEQ_MAX = 3
  MaxTicks = 3
  MaxCalls = 5
  ListTasks = {t1, t2, t3}
  MAX_TIME_SLICE = 2
  Nodes = {1, 2, 3, 4, 5, 6, 7, 8}
  Key <- MCKey
  Times = {1, 2}
  Home = 1
  Roaming = {8}
  MaxEarly = 1
  LimbBits = 2
  WordSet = {0, 1, 2, 3, 4, 5, 6, 7, 8, 9, 10, 11, 12, 13, 14, 15}
  Factors = {0, 3, 6, 13, 15}
  Joiners = {j1}
  target <- MCTarget
  RetryMax = 2
  W = 2
  SCRATCH_WORDS = 2
  MAX_INSTRUCTIONS = 6
  Ancillary = {3}
  Programs <- MCPrograms
  Lengths = {1, 4}
  Counters = {1, 2}
  Events = {1, 2, 9}
  Requestable = {1, 2}
  Capacity = 2
  Recorders = {1}
  MaxCount = 1
  MaxRecords = 2
  MaxResets = 1
  TRACE_DEPTH = 3
  SEQUENCES = 6
  Script <- MCScript
  MaxTimers = 1
INVARIANTS QueuesSound ArithExact CbpfSound CountersSound
PROPERTIES CfsKeepsDistance RrEveryoneRuns 
CHECK_DEADLOCK FALSE
