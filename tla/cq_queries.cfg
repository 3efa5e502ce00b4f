SPECIFICATION Spec
CONSTANTS
    Query = {q1, q2}
    Model = {m1, m2}
    None = None
    Torn = Torn
    Settings <- MCSettings
    Retries = 1
    SynthesisRetries = 2
    MaxFault = 1
INVARIANTS  AnswersKept PaidIsLogged
CHECK_DEADLOCK FALSE
