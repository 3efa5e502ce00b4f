SPECIFICATION FairSpec
CONSTANTS
    Chrome = {k1, u1}
    Keeper = {k1}
    Relay = {r1}
    Primary = primary
    Call = {c1}
    None = None
    MaxConn = 2
    MaxFault = 1
INVARIANTS ExecutedOnce TimeoutIsLoss
PROPERTY Reconnects
CHECK_DEADLOCK FALSE
