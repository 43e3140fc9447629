SPECIFICATION FairSpec
CONSTANTS
    c1 = c1
    c2 = c2
    None = None
    Threads = {t1, t2}
    Dirs = {1}
    Codes = {c1, c2}
    Kinds = {"checks", "reports"}
    Offers <- MCOffers
    Versions <- MCVersions
    Isolations = {"process", "thread"}
    MaxParallel = 1
    MaxStuck = 1
    MaxConnections = 2
    Callers = {"nobody", "token", "operator", "viewer"}
    MaxFaults = 1
INVARIANTS
    RunsApproved
    NoSlotLost
    StuckBounded
PROPERTIES
    OnlyWritersChange
    Answered
CHECK_DEADLOCK FALSE
