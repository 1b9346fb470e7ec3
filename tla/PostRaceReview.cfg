SPECIFICATION Spec
CONSTANTS
    a = a
    b = b
    c1 = c1
    c2 = c2
    Rounds = {1}
    LastLeg = 2
    Horses = {a, b}
    Spikes = 1
    Submissions = {1, 2}
    Contents = {c1, c2}
    Pick <- MCPick
    Importers = {k1, k2}
    FirstStart = 2
    MaxTime = 2
    MaxExports = 2
    MaxChanges = 1
    SealedRuns <- MCSealedRuns
    References = {}
    Reviewers = {p1, p2}
INVARIANTS AnsweredIsStored NoHindsight OneTeacher CoherentReview
CONSTRAINT Narrow
SYMMETRY Symmetry
CHECK_DEADLOCK FALSE
