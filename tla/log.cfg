SPECIFICATION FairLoggerSpec
CONSTANTS
    l1 = l1
    l2 = l2
    l3 = l3
    l4 = l4
    t1 = t1
    t2 = t2
    Line = {l1, l2, l4}
    LongLen = 2
    LineLen <- MCLineLen
    maxBuffSize = 2
    InitCaps = {1, 2}
    maxToWrite = 2
    WriteMayFail = TRUE
    StopUsed = TRUE
    NoBuffer = NoBuffer
    Thread = {t1, t2}
    Level <- MCLevel
    m_set_level = 2
    m_enable_sync_log = TRUE
CHECK_DEADLOCK FALSE
INVARIANTS
    DoubleBufferAsserts
    DroppedOnlyIfTooLong
    NothingLostNothingReordered
    OneLogger
    PrintedInOrder
PROPERTIES
    ImplementsLog
    EveryLineWritten
    StatementsEnd
