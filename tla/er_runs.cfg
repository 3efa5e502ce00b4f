SPECIFICATION FairSpec
CONSTANTS
    Id = {f1}
    Phases = 1
    None = None
    Severity = {"HM", "LOW"}
    Settings <- MCSettings
    MinPasses = 5
    PassBound = 8
INVARIANTS ConvergedIsEarned LedgerKept
PROPERTIES CapEnds
CHECK_DEADLOCK FALSE
