SPECIFICATION FairSpec
CONSTANTS
    c1 = c1
    c2 = c2
    w1 = w1
    w2 = w2
    None = None
    Tasks = {1}
    Callers = {c1, c2}
    IdOf <- OwnIds
    Recipes = {"r1", "r2"}
    Bases = {"b1", "b2"}
    MaxAttempts = 2
    TTL = 1
    Lag = 1
    KeepRows = 2
    MaxRenewals = 1
    IdleTime = 1
INVARIANTS
    LeaseHonoured
    JournalExplainsEntry
    JournalIsOneHistory
PROPERTIES
    LateResultRejected
    ImplementsLedger
CHECK_DEADLOCK FALSE
