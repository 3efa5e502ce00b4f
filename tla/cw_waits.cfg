SPECIFICATION FairSpec
CONSTANTS
    Modes = {"research", "css", "vision"}
    Lengths = {0, 1, 6, 7, 8}
    Asks = {0, 3}
    Short = 1
    Prose = 1
    LeastPeak = 2
    Mounted = 3
    Substantial = 7
    DomText = 8
    FastStable = 1
    Debounce = 3
    NoGrowth = 2
    FastMax = 12
    Appear = 2
    MountWait = 2
    MinElapsed = 13
    SlowStable = 7
    Confirm = 4
    PhaseA = 3
    CssStable = 4
    Timeout = 23
    Pauses = {3, 6}
    Flicker = 1
    MaxFault = 1
INVARIANTS NotCutOff LossIsFlagged
PROPERTIES AnswerRecognised
CHECK_DEADLOCK FALSE
