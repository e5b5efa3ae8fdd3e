SPECIFICATION FairSpec
CONSTANTS
    MaxSales = 4
    MaxTime = 4
    MaxFaults = 1
    SlotsPerHour = 2
    HoursPerDay = 2
    PageSize = 2
    MaxPages = 2
    Overlap = 2
    ChunkSize = 3
    ItemTarget = 0
    RawRetention = 0
    HourlyRetention = 1
    MaxRaw = 2
    MaxAggregates = 4
INVARIANTS
    BackfillHasNoHoles
PROPERTIES
    BackfillWritesWholeHours
    BackfillSparesCompaction
    BackfillCompletes
