SPECIFICATION Spec
CONSTANTS
    n1 = n1
    n2 = n2
    e1 = e1
    e2 = e2
    None = None
    Nodes = {n1, n2}
    Escalations = {e1, e2}
    NodeOf <- MCNodeOf
    FileOf <- MCFileOf
    Threads = {h1, h2}
    Window = 1
    RateWindow = 1
    RateLimit = 1
    Skew = 1
    Lag = 1
    MaxTries <- MCMaxTries
    MaxCrashes = 1
    MaxTime = 2
SYMMETRY Symmetry
INVARIANTS
    NonceKept
    RateHonoured
    AckedIsOnFile
PROPERTIES
    StoredOnce
CHECK_DEADLOCK FALSE
