\* Two requests at once.
SPECIFICATION Spec
CONSTANTS
  j1 = j1
  j2 = j2
  c1 = c1
  c2 = c2
  None = None
  JobId = {j1, j2}
  Run = {j1, j2}
  Canceler = {}
  MaxJobs = 2
INVARIANTS
  OneRepackAtATime
