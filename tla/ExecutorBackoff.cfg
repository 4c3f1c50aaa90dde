CONSTANTS
    Calls = {c1}
    Documents <- PlainDocuments
    Headers = {0}
    MaxAttempts = 7
    BaseDelay = 5
    MaxDelay = 60
    Jitter = 25
    Half = 128
    Second = 1
    RetryableStatuses = {"throttled", "unavailable"}
    Served = {"ok", "unauthorized", "unavailable"}
    Strict = TRUE
    MaxMinted = 2
    MaxRequests = 8
SPECIFICATION Spec
INVARIANTS
    Paced
