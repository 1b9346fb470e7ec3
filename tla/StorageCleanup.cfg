SPECIFICATION Spec
CONSTANTS
    Sources = {1, 2, 3}
    Legacy = {1, 2}
    Facts = {a, b}
    Importers = {i1}
    MaxMishaps = 1
    Runs = {r1, r2}
    NoRun = NoRun
    Steppers = {k1, k2}
    Executors = {e1}
    PageSize = 3
    BatchLimit = 2
    MaxContinuations = 1
CONSTRAINT Narrow
SYMMETRY Symmetry
INVARIANTS EventsKeepFacts AuthorizedMeansClean
PROPERTIES CleanupKeepsAsOf
