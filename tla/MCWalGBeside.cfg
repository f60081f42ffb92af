\* A verification and a restart request beside two backups and a restore, over
\* a store of two jobs.
SPECIFICATION Spec
CONSTANTS
  b1 = b1
  b2 = b2
  r1 = r1
  r2 = r2
  v1 = v1
  v2 = v2
  p1 = p1
  p2 = p2
  NoOp = NoOp
  JobId = {b1, b2, r1, v1}
  Op = {b1, b2, r1, v1}
  MaxJobs = 2
  KindOf <- MCKindOf
  Restarter = {p1}
  RetainCounts = {0, 1, 2}
  Faults <- AllFaults
INVARIANTS
  StoreIsTrue
  BesideExplained
PROPERTIES
  NothingTakenBack
