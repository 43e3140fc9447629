SPECIFICATION OperatorSpec
CONSTANTS
    Names = {n1, n2}
    Commands = {r1, r2}
    Null = Null
    Broken = Broken
    MaxKeys = 2
    Files = {1, 2}
    Contents = {"a", "b"}
    Forged = "forged"
    Torn = "torn"
    Missing = "missing"
    MaxSigned = 2
CONSTRAINT Undisturbed
SYMMETRY Symmetry
INVARIANTS
    SettledUnlessOverlap
    TargetIsSigned
    RestoredWhole
    BackupIsOneMoment
PROPERTIES
    RevocationSticks
CHECK_DEADLOCK FALSE
