SPECIFICATION FairSpec
CONSTANTS
    Session = {p1, p2}
    NoSession = NoSession
    MaxSeq = 2
    MaxCrash = 1
    MaxStall = 0
    MaxExpire = 0
    MaxError = 1
PROPERTIES Served LockComesBack LeftoverReclaimed
CHECK_DEADLOCK FALSE
