SPECIFICATION Spec
CONSTANTS
    TotalInterval = 2
    LiveInterval = 3
    LotsInterval = 5
    FastInterval = 5
    SlowInterval = 6
    Window = 6
INVARIANTS
    TypeOK
    SharesAreKept
    BackfillYields
    WaitIsShort
