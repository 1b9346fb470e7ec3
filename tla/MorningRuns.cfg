SPECIFICATION Spec
CONSTANTS
    LastDate = 3
    Lookback = 3
    OfficialRuns = 4
    XlabsRuns = 3
    Checkpoints = 2
    MaxErrors = 2
    RaceCounts = {1, 9}
    EligibleCounts = {1, 5}
    MaxDisturbances = 2
INVARIANTS OfficialKeepsUp XlabsKeepsUp
CONSTRAINT Narrow
CHECK_DEADLOCK FALSE
