SPECIFICATION MCSpec
CONSTANTS
    MaxSales = 5
    MaxTime = 6
    MaxFaults = 1
    SlotsPerHour = 2
    HoursPerDay = 2
    PageSize = 2
    MaxPages = 3
    Overlap = 1
    ChunkSize = 5
    ItemTarget = 0
    RawRetention = 0
    HourlyRetention = 2
    MaxRaw = 2
    MaxAggregates = 4
    RebuildHours = 1
    MaxRebuilds = 1
    MaxReplies = 1
    MaxDisturbances = 1
    BesideSales = 4
INVARIANTS
    RebuildTypeOK
    CountedAtMostOnce
    ShownAtMostOnce
    ReplyShowsOnce
PROPERTIES
    PollSavesAllNewer
    CompactionHidesNothing
    RebuildLosesOnlySaved
    KeepsLedger
