SPECIFICATION Spec
CONSTANTS
    Ids = {c1, c2}
    Patches = {p1, p2}
    Aliases = {a1, a2}
    None = None
    MaxTime = 2
SYMMETRY Symmetry
INVARIANTS
    InstalledPassedGates
    CleanUnlessMisstep
    ReportsMatchRuns
CHECK_DEADLOCK FALSE
