SPECIFICATION Spec
CONSTANTS
  t1 = t1
  x1 = x1
  None = None
  Turn = {t1}
  Executor = {x1}
  Canceller = {}
  Detached = {t1}
  Slow = {}
  Impatient = {}
  Stoppable = {x1}
  UseRedis = FALSE
  Restarts = FALSE
  Deletable = FALSE
  MaxWrites = 0
  MaxEvents = 2
  MaxDeltas = 0
  MaxStoreFaults = 0
  MaxPutFaults = 0
  MaxCrashes = 0
INVARIANTS
  ClosedCoversGap
CHECK_DEADLOCK FALSE
