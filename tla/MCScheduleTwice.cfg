SPECIFICATION Spec
CONSTANTS
  s1 = s1
  w1 = w1
  p1 = p1
  p2 = p2
  Schedule = {s1}
  Writer = {w1}
  Cron = {1, 2}
  Controller = Controller
  None = None
  MaxRuns = 6
  Horizon = 2
  Post = {p1, p2}
  Standalone = FALSE
  BatchLimit = 1
  MaxRetries = 1
  Deletable = TRUE
  SlowPuts = TRUE
  MaxManual = 0
  MaxFaults = 1
  MaxStops = 0
INVARIANTS
  OneTurnPerRun
CHECK_DEADLOCK FALSE
