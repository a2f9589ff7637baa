SPECIFICATION Safety
CONSTANTS
  i1 = i1  i2 = i2  x1 = x1
  Maint = maint  resched = resched
  Cpus = {0, 1}
  Classes = {0}
  Reasons = {maint}
  Issuers = {i1, i2}
  Controllers = {x1}
  Offlining = TRUE
  Recovering = TRUE
  MaxEpoch = 2
  MaxAdmissions = 2
SYMMETRY Symmetry
INVARIANTS TypeOK GraceSound NoLostWork OfflineDrained
