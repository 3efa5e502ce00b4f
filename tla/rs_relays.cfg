SPECIFICATION SessionFairSpec
CONSTANTS
    NoSession = NoSession
    Cli = {a1, a2}
    Directory = {projectA, projectB}
    SharedDb = TRUE
    MaxSocket = 2
    MaxMishap = 1
INVARIANTS SessionsDistinct LiveNotOrphaned
PROPERTY RowReleased
CHECK_DEADLOCK FALSE
