CONSTANTS
    Waiters = {w1, w2, w3}
    PerMinute = 2
    PerToken = 3
    MaxClock = 9
SPECIFICATION Spec
SYMMETRY WaiterSymmetry
INVARIANTS
    TypeOK
    WindowBound
    NoIdleToken
