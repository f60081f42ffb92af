\* Two exports, a vacuum and a download over a store of two jobs, and an import
\* with every combination of options beside any one of them.
SPECIFICATION MCSpec
CONSTANTS
  e1 = e1
  e2 = e2
  i1 = i1
  v1 = v1
  d1 = d1
  None = None
  JobId = {e1, e2, i1, v1}
  Op = {e1, e2, i1, v1}
  MaxJobs = 2
  DefaultLimit = 1
  KindOf <- MCKindOf
  Download = {d1}
INVARIANTS
  ListFollowsTime
  WhatIsLeft
PROPERTIES
  JobsEnd
