SPECIFICATION RecoverySpec
CONSTANTS
    LastFamily = 2
    Sources = {1, 2}
    Cells <- MCCells
    Fact <- MCFact
    Starts <- MCStarts
    Runs = {r1, r2}
    NoRun = none
    Requests = {k1, k2}
    ApplyPage = 1
    AuditPageSize = 1
    MaxDisturbances = 1
    MaxCuts = 1
CHECK_DEADLOCK FALSE
INVARIANTS Accounted OneActive
CONSTRAINT Narrow
PROPERTIES AuditTellsTruth
SYMMETRY Symmetry
