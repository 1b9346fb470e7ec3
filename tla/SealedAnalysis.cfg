SPECIFICATION Spec
CONSTANTS
    c1 = c1
    c2 = c2
    l1 = l1
    l2 = l2
    Clients = {c1, c2}
    LockIds = {1, 2}
    NoLock = NoLock
    Legs = {l1, l2}
    Cutoff = 1
    ThinkTime = 1
    AsOfLags = {0}
    MaxLag = 1
    MaxTime = 2
    MaxFacts = 2
SYMMETRY Symmetry
INVARIANTS
    SupersededNeverNewest
    LockKnowsFacts
    AnalysisKnowsFacts
    RefusedOnlyForCause
CHECK_DEADLOCK FALSE

