SPECIFICATION FairSpec
CONSTANTS
    MaxLots = 4
    PageSize = 2
    Slots = 2
    MaxRequests = 2
    MaxChanges = 1
    MaxFaults = 1
INVARIANTS
    TypeOK
PROPERTIES
    SnapshotLacksFew
    LotsConverge
