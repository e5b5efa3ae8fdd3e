SPECIFICATION FairSpec
CONSTANTS
    Callers = 2
    Lifetimes = {4, 5}
    Margin = 2
    MinUse = 2
INVARIANTS
    TypeOK
    RenewsOnlyWhatIsGone
    RetryCarriesAnotherToken
    TokenOutlivesRequest
PROPERTIES
    EveryCallEnds
