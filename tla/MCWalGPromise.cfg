\* No command fails without a reason, and still the server need not return.
SPECIFICATION FairSpec
CONSTANTS
  b1 = b1
  b2 = b2
  r1 = r1
  r2 = r2
  v1 = v1
  v2 = v2
  p1 = p1
  p2 = p2
  NoOp = NoOp
  JobId = {b1, r1}
  Op = {b1, r1}
  MaxJobs = 2
  KindOf <- MCKindOf
  Restarter = {}
  RetainCounts = {1}
  Faults = {}
PROPERTIES
  ServerReturns
