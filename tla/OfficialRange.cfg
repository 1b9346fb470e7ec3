SPECIFICATION Spec
CONSTANTS
    w1 = w1
    w2 = w2
    Workers = {w1, w2}
    NoWorker = NoWorker
    StartDate = 1
    EndDate = 3
    MaxRaces = 1
    MaxEmptyDates = 2
    MaxErrors = 2
    MaxMishaps = 1
SYMMETRY Symmetry
INVARIANTS
    EmptyDatesNeverStopJob
CHECK_DEADLOCK FALSE
