SPECIFICATION Spec
CONSTANTS
    Primary = Primary
    Secondary = Secondary
    NoSession = NoSession
    Turns = {0, 2}
    Costs = {0, 1, 2}
    MaxIterations = 2
    FallbackAfter = 2
    WindowSize = 2
    LowTurns = 0
    SessionMaxTurns = 4
    SessionMaxCost = 3
    ExhaustionWindow = 3
    ExhaustionTurns = 2
    IterationBudget = 1
    TotalBudget = 2
    MaxRejections = 2
    MaxRuns = 2
    MaxCrash = 1
    TimeoutLimit <- TimeoutLimits
INVARIANTS BudgetHeld ClearedNotResumed RotationHolds
CHECK_DEADLOCK FALSE
