CONSTANTS
    Callers = {p1, p2}
    None = none
    Lifetimes = {10, 20}
    ExpiryMargin = 2
    MaxLatency = 1
    MaxClock = 2
    MaxMinted = 2
SPECIFICATION Spec
INVARIANTS
    Coalesces
