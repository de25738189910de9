SPECIFICATION Spec
CONSTANTS
    t1 = t1
    t2 = t2
    t3 = t3
    t4 = t4
    k1 = k1
    k2 = k2
    k3 = k3
    Thread = {t1, t2, t3, t4}
    Task = {k1, k2, k3}
    minThreadnum = 1
    maxThreadArg = 3
    StopUse = "quiescent"
    NoThread = NoThread
    NoTask = NoTask
    Nobody = Nobody
CHECK_DEADLOCK FALSE
SYMMETRY Symmetry
INVARIANTS
    IInv
    CountersExact
    NoStarvedTask
    EveryTaskHasAWaker
    ReaperAsserts
    StopJoinsAll
PROPERTIES
    ImplementsTaskPool
