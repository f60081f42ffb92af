\* Two jobs per page, two analyses or detections, two renderings of the editor,
\* three plans in a store of two with two loads of their list, two saves of three
\* forms.
SPECIFICATION WorkSpec
CONSTANTS
  Job = {j1, j2}
  NoJob = nojob
  Of = {"backups", "vacuum", "database"}
  MaxVisits = 2
  MaxPolls = 2
  Cores = 64
  Typed <- TypedNegative
  Setting = {"max_connections"}
  Restarting = {"max_connections"}
  MaxWizards = 2
  MaxLoads = 2
  MaxApplies = 1
  Database = {"app", "audit"}
  FirstDb = "app"
  MaxFrames = 2
  MaxRuns = 2
  MaxDrafts = 1
  Explain = {e1, e2}
  NoExplain = noexplain
  Selectable = {app, audit}
  MaxPlans = 3
  Limit = 2
  Lister = {q1, q2}
  Shows = 1
  Value = {blank, v1}
  Blank = blank
  Filled = v1
  Default <- MCDefault
  Absent = absent
  NoConfig = noconfig
  MaxOpens = 2
  MaxSaves = 2
  MaxGets = 1
  MaxPosts = 1
INVARIANTS
  WorkTypeOK
  Watched
  WizardExplained
  EditorExplained
  PlansExplained
  FormsExplained
PROPERTIES
  AppliesAsAgreed
  SavesOwnSection
CONSTRAINTS
  OneLoading
  AppliedFirst
  OneAtATime
  SavesLeft
  SelectorApart
SYMMETRY Symmetry
CHECK_DEADLOCK FALSE
