SPECIFICATION FairSpec
CONSTANTS
    Workers = {w1}
    Operators = {o1}
    K = 2
    N = 2
    Limit = 1
    MaxSteps = 2
    Careless = {2}
    MaxMishaps = 2
INVARIANTS CheckpointIsWhole NormalizedIsWhole
PROPERTIES NewestSettles
CHECK_DEADLOCK FALSE
