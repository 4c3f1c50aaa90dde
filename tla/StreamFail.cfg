CONSTANTS
    QueueCapacity = 1
    ReceiptCapacity = 1
    MaxReconnects = 1
    OverflowPolicy = "fail"
    ReceiptPolicy = "fail"
    HasObserver = TRUE
    Closers = {c1, c2}
    MaxFrames = 4
    MaxEpochs = 2
SPECIFICATION Spec
INVARIANTS
    EvidenceFirst
    FatalHasGap
    NoSocketLeft
PROPERTIES
    ImplementsFeed
SYMMETRY CloserSymmetry
