SPECIFICATION FairSpec
CONSTANTS
    Primary = Primary
    Secondary = Secondary
    NoSession = NoSession
    Turns = {0, 2}
    Costs = {0, 1}
    MaxIterations = 4
    FallbackAfter = 1
    WindowSize = 2
    LowTurns = 0
    SessionMaxTurns = 4
    SessionMaxCost = 3
    ExhaustionWindow = 3
    ExhaustionTurns = 2
    IterationBudget = 1
    TotalBudget = 3
    MaxRejections = 2
    MaxRuns = 1
    MaxCrash = 0
    TimeoutLimit <- TimeoutLimits
INVARIANTS TwoStrikes TimeoutsEnd
PROPERTY RunEnds
CHECK_DEADLOCK FALSE
