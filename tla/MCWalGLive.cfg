\* Every accepted request ends, and the fair abstract specification.
SPECIFICATION FairSpec
CONSTANTS
  b1 = b1
  b2 = b2
  r1 = r1
  r2 = r2
  v1 = v1
  v2 = v2
  p1 = p1
  p2 = p2
  NoOp = NoOp
  JobId = {b2, r1, v1}
  Op = {b2, r1, v1}
  MaxJobs = 2
  KindOf <- MCKindOf
  Restarter = {}
  RetainCounts = {1}
  Faults = {"backup-push", "stop", "fetch", "start", "report"}
PROPERTIES
  AbstractFairSpec
