SPECIFICATION Spec
CONSTANTS
  t1 = t1
  t2 = t2
  x1 = x1
  x2 = x2
  c1 = c1
  None = None
  Turn = {t1, t2}
  Executor = {x1, x2}
  Canceller = {c1}
  Detached = {}
  Slow = {}
  Impatient = {}
  Stoppable = {}
  UseRedis = TRUE
  Restarts = FALSE
  Deletable = FALSE
  MaxWrites = 1
  MaxEvents = 2
  MaxDeltas = 0
  MaxStoreFaults = 1
  MaxPutFaults = 0
  MaxCrashes = 1
SYMMETRY PeerSymmetry
INVARIANTS
  RunsOnWhatItInherited
  CancelReachesTurn
  ReasonHasCause
CHECK_DEADLOCK FALSE
