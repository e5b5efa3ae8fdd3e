SPECIFICATION Spec
CONSTANTS
    Items <- MCItems
    RecipeBooks <- MCRecipeBooks
    PriceLists <- MCPriceLists
    Units <- MCUnits
    MinMargin = 20
    KeepRuns = 2
    MaxCraftFaults = 1
    Variants <- MCVariants
    ItemOf <- MCItemOf
    MinSales = 2
    MaxSold = 2
    MaxRowChanges = 1
    QueueLength = 2
    Watched = {1, 3}
    Ignored = 4
    Broken = {1}
    MaxChunks = 2
    SnapshotInterval = 1
    ClaimLease = 1
    RetryDelay = 1
    ErrorBase = 2
    ErrorCap = 2
    MaxLotErrors = 1
    MaxStatusChanges = 1
    MaxQueueFaults = 1
INVARIANTS
    TypeOK
    NeverTooCheap
    ExactWithoutCycles
    NeverDearerThanBuying
    PlanAddsUp
    ReplyHoldsItsResults
    PricedByShortestPeriod
PROPERTIES
    EveryItemIsSnapshotted
    EveryBackfillEnds
