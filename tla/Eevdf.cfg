\* Three tasks on two queues of one deadline domain.
CONSTANTS
  t1 = t1
  t2 = t2
  t3 = t3
  Tasks = {t1, t2, t3}
  Scheds = {1, 2}
  NoTask = NoTask
  InDomain = {1, 2}
  ONE = 3
  PERIOD = 2
  NICE_0 = 2
  TargetTicks <- MCTarget
  GRACE = 2
  DECAY_WINDOW = 4
  RR_SLICE = 2
  UTIL_SCALE = 4
  DomainCapacity = 6
  RT_PRIORITY_MAX = 3
  Elapsed = {1, 3}
  Configs <- MCConfigs
  Runtimes = {0, 1}
  Profiles <- MCProfiles
SPECIFICATION Spec
 
PROPERTIES LagConserved StateCarried AnswerRight
\* Budgets end the scenarios.
CHECK_DEADLOCK FALSE
