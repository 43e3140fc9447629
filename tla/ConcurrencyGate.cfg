SPECIFICATION FairSpec
CONSTANTS
    p1 = p1
    p2 = p2
    p3 = p3
    None = None
    Procs = {p1, p2, p3}
    LockOf <- TwoNames
    Limit = 1
INVARIANTS
    LimitUnlessOverlap
    NoLeakedLock
PROPERTIES
    TakeOver
CHECK_DEADLOCK FALSE
