SPECIFICATION FairSpec
CONSTANTS
    p1 = p1
    p2 = p2
    t1 = t1
    t2 = t2
    t3 = t3
    Proc = {p1, p2}
    Thread = {t1, t2, t3}
    ProcOf <- MCProcOf
    MaxSeq = 3
    NoNode = NoNode
CHECK_DEADLOCK FALSE
PROPERTIES
    SmallestGetsTheLock
