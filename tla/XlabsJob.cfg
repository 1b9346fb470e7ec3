SPECIFICATION Spec
CONSTANTS
    Workers = {w1, w2}
    NoWorker = NoWorker
    Ensurers = {e1}
    Scopes = {"daily", "historical"}
    StartDate = 1
    EndDate = 2
    MaxRaces <- RacesPerDate
    MaxErrors = 2
    MaxMishaps = 1
    MaxChanges = 1
CONSTRAINT Narrow
SYMMETRY Symmetry
INVARIANTS UncoveredReopens NeverOutrunsOfficial
CHECK_DEADLOCK FALSE
