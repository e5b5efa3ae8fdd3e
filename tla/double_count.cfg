SPECIFICATION Spec
CONSTANTS
    MaxSales = 2
    MaxTime = 7
    MaxFaults = 0
    SlotsPerHour = 2
    HoursPerDay = 2
    PageSize = 2
    MaxPages = 2
    Overlap = 1
    ChunkSize = 4
    ItemTarget = 0
    RawRetention = 1
    HourlyRetention = 2
    MaxRaw = 2
    MaxAggregates = 4
INVARIANTS
    CountedAtMostOnce
