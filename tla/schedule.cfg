SPECIFICATION MCFairSpec
CONSTANTS
    N = 2
    ConfigStatus = {0, 1, 4}
    Activity = {1, 3}
    HotInterval = 1
    NormalInterval = 1
    RareInterval = 2
    ExtremelyRareInterval = 2
    Lease = 1
    BackoffBase = 2
    BackoffCap = 3
    RetryAfter = 1
    MaxErrors = 1
    MaxEdits = 2
    MaxCrashes = 1
INVARIANTS
    TypeOK
PROPERTIES
    Hysteresis
    NobodyStarves
