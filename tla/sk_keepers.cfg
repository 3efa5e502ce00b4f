SPECIFICATION KeeperFairSpec
CONSTANTS
    Keeper = {task}
    Task = task
    Council = {c1}
    None = none
    Dead = dead
    Taken = taken
    MaxAttempts = 2
    MaxMishap = 1
INVARIANT RefreshedIsValid
PROPERTY Recovers
