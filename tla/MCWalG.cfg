\* Two backups, two restores and a store of two jobs: evictions of running
\* jobs, queued restores whose backup is pruned, every command failing.
SPECIFICATION Spec
CONSTANTS
  b1 = b1
  b2 = b2
  r1 = r1
  r2 = r2
  v1 = v1
  v2 = v2
  p1 = p1
  p2 = p2
  NoOp = NoOp
  JobId = {b1, b2, r1, r2}
  Op = {b1, b2, r1, r2}
  MaxJobs = 2
  KindOf <- MCKindOf
  Restarter = {}
  RetainCounts = {0, 1, 2}
  Faults <- AllFaults
INVARIANTS
  TypeOK
  MutualExclusion
  BackupsStand
  DirExplained
PROPERTIES
  AbstractSpec
