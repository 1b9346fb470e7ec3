SPECIFICATION Spec
CONSTANTS
    None = None
    first = first
    second = second
    Rounds = {1}
    Entries = {first, second}
    Priced = {first, second}
    Lineages <- MCLineages
    First <- Audited
    Workers = {k1, k2}
    Recheck = 1
    Reaudit = 2
    RetryBase = 1
    RetryCap = 1
    MaxFormRetries = 2
    MaxAuditRetries = 2
    MaxCount = 2
    MaxAge = 1
    MaxChanges = 2
    MaxMishaps = 1
INVARIANTS GivenUpRightly
PROPERTIES DecisionsStand
CONSTRAINT Narrow
SYMMETRY Symmetry
CHECK_DEADLOCK FALSE
