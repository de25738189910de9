SPECIFICATION FairSpec
CONSTANTS
    t1 = t1
    t2 = t2
    k1 = k1
    k2 = k2
    Thread = {t1, t2}
    Task = {k1, k2}
    minThreadnum = 0
    maxThreadArg = 2
    StopUse = "quiescent"
    NoThread = NoThread
    NoTask = NoTask
    Nobody = Nobody
CHECK_DEADLOCK FALSE
PROPERTIES
    QueuedTasksRun
    ReaperProgress
    StopEndsOrReaperSleeps
