SPECIFICATION FairSpec
CONSTANTS
    k1 = k1
    k2 = k2
    k3 = k3
    c1 = c1
    Task = {k1, k2, k3}
    Conn = {c1}
    Wake = Wake
    Timer = Timer
    NoTask = NoTask
    StopUsed = TRUE
CHECK_DEADLOCK FALSE
INVARIANTS
    NoLostWakeup
    TasksAccountedFor
PROPERTIES
    ImplementsTaskPool
    QueuedTasksRun
    StopEndsRun
