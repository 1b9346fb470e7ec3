SPECIFICATION MCSpec
CONSTANTS
    LegCount = 4
    ExactSpikes = 2
    One = 4
    TargetMin = 3
    LegShapes <- MCLegShapes
    Budgets = {2, 5, 9, 17}
    Prices = {2}
    Bins = 3
    Policies <- MCPolicies
    NoValue = NoValue
    Absent = Absent
    DayLength = 4
    MaxRows = 4
    RecentRows = 1
    Tolerance = 250
    RestShort = 1
    RestNormal = 2
    MinEffective = 1
    RelevantForA = 2
    YearLength = 16
    Windows = {1, 3}
    BaselineDays = 4
    SegmentRows = 1
    DevelopmentRows = 1
    ComparisonRows = 1
    TrainerRows = 2
    QuarterLength = 8
    DistanceBounds = {1800, 2400, 3000}
    FieldBounds = {2}
    ProfileRows = 2
    ShiftSample = 2
    LastDay = 4
    Traits <- MCTraits
    Stances <- MCStances
    PageDays <- MCPageDays
    PageShapes <- MCPageShapes
    MonthLengths <- MCMonths
    Top = 2
    LongRest = 4
    HigherPrize = 3
    Longshot = 5
    FormLimits <- MCFormLimits
    PatternRows = 2
    HorseWeights <- MCWeights
    PersonWeights <- MCWeights
    ComponentRows = 1
    PriorResults = 1
    PrizeSteps <- MCPrizeSteps
    Races = {1, 2}
    Ids = {1, 2}
    Callers = {r1, r2}
    Jobs = {1}
    LastCapture = 1
    ErrorLimit = 2
    Batches = 1
SYMMETRY Symmetry
INVARIANTS
    PlayedIsBest
    TestedAfterTrained
    ReplayIsStorable
    FutureChangesNothing
    ShardsAddUp
    ReasonsRepresented
    ExclusiveByVotes
    PacesAgree
    PagesAgree
    CompletedMeansCovered
CHECK_DEADLOCK FALSE
