SPECIFICATION FairSpec
CONSTANTS
    Agent = {a1, a2}
    File = {f1, f2}
    Nobody = Nobody
    Retries = 2
    MaxMishap = 2
INVARIANTS Exclusive HeldIsVisible
PROPERTY CallReturns
CHECK_DEADLOCK FALSE
