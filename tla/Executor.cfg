CONSTANTS
    Calls = {c1, c2}
    Documents <- PlainDocuments
    Headers = {0, 7, 100}
    MaxAttempts = 3
    BaseDelay = 3
    MaxDelay = 5
    Jitter = 20
    Half = 64
    Second = 1
    RetryableStatuses = {"throttled", "unavailable"}
    Served = {"ok", "unauthorized", "unavailable"}
    Strict = TRUE
    MaxMinted = 3
    MaxRequests = 5
SPECIFICATION FairSpec
INVARIANTS
    TypeOK
    EvidenceComplete
    RequestsBounded
    NeverReplayed
    FreshTokenAfter401
    GivesUpOnlyWhenSpent
    PacedWithinWidth
PROPERTIES
    ImplementsTokenSource
    EveryCallReturns
