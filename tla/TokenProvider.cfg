CONSTANTS
    Callers = {p1, p2}
    None = none
    Lifetimes = {10, 20}
    ExpiryMargin = 2
    MaxLatency = 1
    MaxClock = 20
    MaxMinted = 2
SPECIFICATION FairSpec
INVARIANTS
    TypeOK
    OneFetch
    ServesLiveTokens
PROPERTIES
    NewestWins
    ImplementsTokenSource
    EveryCallReturns
