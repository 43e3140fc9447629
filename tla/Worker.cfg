SPECIFICATION FairWorkSpec
CONSTANTS
    c1 = c1
    c2 = c2
    w1 = w1
    w2 = w2
    None = None
    Tasks = {1}
    Callers = {c1, c2}
    IdOf <- OwnIds
    Recipes = {"r1"}
    Bases = {"b1", "b2"}
    Retentions = {"keep", "delete", "delete-on-success"}
    MaxAttempts = 2
    TTL = 1
    Lag = 0
    KeepRows = 2
    MaxRenewals = 1
    IdleTime = 0
INVARIANTS
    NoFalseSuccess
    OneRunPerTask
    WorkspaceIsOwn
    ToldTheTruth
PROPERTIES
    EventuallyClosed
CHECK_DEADLOCK FALSE
