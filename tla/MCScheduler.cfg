\* Two requests to save, three schedules, crashes and failed writes.
SPECIFICATION Spec
CONSTANTS
  u1 = u1
  u2 = u2
  l1 = l1
  l2 = l2
  None = None
  NoToken = NoToken
  Mask = Mask
  Torn = Torn
  Saver = {u1, u2}
  Loop = {l1, l2}
  Schedule <- Schedules
  DefaultSchedule <- Hourly
  Form <- AllForms
  Token = {NoToken}
  Days = 2
  Hours = 2
  DefaultHour = 0
INVARIANTS
  SchedulerTypeOK
  MemoryIsSaved
  OneLiveLoop
  LoopExplained
PROPERTIES
  RestartKeepsSettings
SYMMETRY Symmetry
