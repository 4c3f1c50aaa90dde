CONSTANTS
    Calls = {c1}
    Documents <- PlainDocuments
    Headers = {0}
    MaxAttempts = 2
    BaseDelay = 1
    MaxDelay = 2
    Jitter = 0
    Half = 64
    Second = 1
    RetryableStatuses = {"throttled", "unavailable"}
    Served = {"ok", "unauthorized", "unavailable"}
    Strict = TRUE
    MaxMinted = 2
    MaxRequests = 4
SPECIFICATION Spec
INVARIANTS
    MaxAttemptsIsTotal
