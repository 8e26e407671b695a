SPECIFICATION PgSpec
CONSTANTS
    t1 = t1
    t2 = t2
    k1 = k1
    k2 = k2
    Turn = {t1, t2}
    Executor = {x1}
    Conn = {k1, k2}
    Session = Session
    None = None
    Verdict = {"done", "client-cancelled"}
    MaxWrites = 1
    MaxEvents = 1
    MaxFailures = 1
SYMMETRY Symmetric
INVARIANTS
    LogClosedOnce
    ForkSeesFinalParent
    MetricsFoldOnce
    FrozenIsFinal
    OnlyDeletionsDeadlock
PROPERTIES
    SettledIsFinal
    StoreSpec
CHECK_DEADLOCK FALSE
