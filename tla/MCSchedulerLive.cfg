\* One request to save, fair scheduling.
SPECIFICATION FairSpec
CONSTANTS
  u1 = u1
  u2 = u2
  l1 = l1
  l2 = l2
  None = None
  NoToken = NoToken
  Mask = Mask
  Torn = Torn
  Saver = {u1}
  Loop = {l1, l2}
  Schedule <- Schedules
  DefaultSchedule <- Hourly
  Form <- TwoForms
  Token = {NoToken}
  Days = 2
  Hours = 2
  DefaultHour = 0
PROPERTIES
  SchedulerLives
