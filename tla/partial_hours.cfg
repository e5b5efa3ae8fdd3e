SPECIFICATION Spec
CONSTANTS
    MaxSales = 4
    MaxTime = 7
    MaxFaults = 0
    SlotsPerHour = 2
    HoursPerDay = 2
    PageSize = 2
    MaxPages = 2
    Overlap = 1
    ChunkSize = 2
    ItemTarget = 6
    RawRetention = 1
    HourlyRetention = 2
    MaxRaw = 2
    MaxAggregates = 4
PROPERTIES
    BackfillWritesWholeHours
