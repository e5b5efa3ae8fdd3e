SPECIFICATION FairSpec
CONSTANTS
    Items = {a, b}
    Status = {ignored, hot}
    Ignored = ignored
    MaxReleases = 2
    MaxEdits = 1
    MaxSyncs = 1
    MaxFailures = 1
    MaxCrashes = 1
INVARIANTS
    TypeOK
    UpdateLeavesDatabase
    DatabaseOnDisk
PROPERTIES
    ConfigConverges
