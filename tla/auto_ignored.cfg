SPECIFICATION Spec
CONSTANTS
    N = 1
    ConfigStatus = {0, 1, 3, 4, 5}
    Activity = {1, 2, 3}
    HotInterval = 1
    NormalInterval = 2
    RareInterval = 3
    ExtremelyRareInterval = 4
    Lease = 2
    BackoffBase = 1
    BackoffCap = 6
    RetryAfter = 3
    MaxErrors = 4
    MaxEdits = 3
    MaxCrashes = 1
INVARIANTS
    AutoIsClassified
