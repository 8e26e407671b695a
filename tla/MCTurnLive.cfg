SPECIFICATION FairSpec
CONSTANTS
  t1 = t1
  x1 = x1
  x2 = x2
  c1 = c1
  None = None
  Turn = {t1}
  Executor = {x1, x2}
  Canceller = {c1}
  Detached = {}
  Slow = {t1}
  Impatient = {}
  Stoppable = {x1}
  UseRedis = TRUE
  Restarts = FALSE
  Deletable = TRUE
  MaxWrites = 1
  MaxEvents = 1
  MaxDeltas = 0
  MaxStoreFaults = 0
  MaxPutFaults = 1
  MaxCrashes = 0
PROPERTIES
  EveryTurnSettles
  RunsLeaveRegistry
  CancelSettles
  ShutdownFinishes
  KeepsPromise
CHECK_DEADLOCK FALSE
