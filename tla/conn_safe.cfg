SPECIFICATION Spec
CONSTANTS
    c1 = c1
    c2 = c2
    f1 = f1
    f2 = f2
    m1 = m1
    m2 = m2
    Conn = {c1, c2}
    Fd = {f1, f2}
    Msg = {m1, m2}
    Wake = Wake
    Timer = Timer
    None = None
CHECK_DEADLOCK FALSE
SYMMETRY Symmetry
INVARIANTS
    IInv
    ServerMapCovered
    InsertFindsNoEntry
    TouchedAreAlive
