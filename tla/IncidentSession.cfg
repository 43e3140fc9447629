SPECIFICATION FairSpec
CONSTANTS
    Incidents = {i1, i2}
    Mine = i1
    Nonces = {n1, n2, n3}
    MaxRestarts = 1
    MaxExtra = 1
    MaxOthers = 1
INVARIANTS
    StateIsEarned
PROPERTIES
    OnlyForward
    EventuallyAcknowledged
CHECK_DEADLOCK FALSE
