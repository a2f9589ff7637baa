SPECIFICATION LiveSpec
CONSTANTS
  i1 = i1  i2 = i2  x1 = x1
  Maint = maint  resched = resched
  Cpus = {0, 1}
  Classes = {0}
  Reasons = {maint, resched}
  Issuers = {i1, i2}
  Controllers = {x1}
  Offlining = FALSE
  Recovering = FALSE
  MaxEpoch = 2
  MaxAdmissions = 2
PROPERTIES GraceReached
