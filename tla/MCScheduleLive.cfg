SPECIFICATION FairSpec
CONSTANTS
  s1 = s1
  s2 = s2
  p1 = p1
  Schedule = {s1, s2}
  Writer = {}
  Cron = {1}
  Controller = Controller
  None = None
  MaxRuns = 8
  Horizon = 1
  Post = {p1}
  Standalone = TRUE
  BatchLimit = 1
  MaxRetries = 0
  Deletable = FALSE
  SlowPuts = FALSE
  MaxManual = 1
  MaxFaults = 1
  MaxStops = 1
PROPERTIES
  DueRunsTaken
CHECK_DEADLOCK FALSE
