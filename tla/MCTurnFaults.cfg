SPECIFICATION Spec
CONSTANTS
  t1 = t1
  t2 = t2
  x1 = x1
  None = None
  Turn = {t1, t2}
  Executor = {x1}
  Canceller = {}
  Detached = {}
  Slow = {}
  Impatient = {t1, t2}
  Stoppable = {x1}
  UseRedis = FALSE
  Restarts = TRUE
  Deletable = TRUE
  MaxWrites = 0
  MaxEvents = 2
  MaxDeltas = 1
  MaxStoreFaults = 1
  MaxPutFaults = 1
  MaxCrashes = 0
SYMMETRY TurnSymmetry
INVARIANTS
  ToldWhatIsStored
  PublishedIsDurable
  NoRunOutlivesShutdown
  GracefulExitSettles
CHECK_DEADLOCK FALSE
