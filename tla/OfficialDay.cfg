SPECIFICATION Spec
CONSTANTS
    w1 = w1
    w2 = w2
    Workers = {w1, w2}
    NoWorker = NoWorker
    StartDate = 1
    EndDate = 1
    MaxRaces = 2
    MaxEmptyDates = 2
    MaxErrors = 2
    MaxMishaps = 2
SYMMETRY Symmetry
INVARIANTS
    PassedRacesHandled
PROPERTIES
    CheckpointFenced
    DayRefinement
CHECK_DEADLOCK FALSE
