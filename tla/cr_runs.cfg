SPECIFICATION FairSpec
CONSTANTS
    Session = {s1, s2}
    None = None
    MaxSessions = 1
    Settings <- MCSettings
    MaxFault = 2
INVARIANTS FilesKept SubmitAlone
PROPERTIES PageKept RunReturns
CHECK_DEADLOCK FALSE
