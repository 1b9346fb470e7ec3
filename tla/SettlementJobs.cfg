SPECIFICATION Spec
CONSTANTS
    Workers = {w1, w2}
    NoWorker = NoWorker
    Rounds = {1}
    Legs = {1, 2}
    Starts = {s1, s2}
    MaxSteps = 2
    MaxMishaps = 1
SYMMETRY Symmetry
CONSTRAINT Narrow
INVARIANTS FinalResultEarned
PROPERTIES RoundRefinement SettledNeverOverstated
CHECK_DEADLOCK FALSE
