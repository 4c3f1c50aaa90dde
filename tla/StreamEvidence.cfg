CONSTANTS
    QueueCapacity = 1
    ReceiptCapacity = 2
    MaxReconnects = 1
    OverflowPolicy = "drop_oldest"
    ReceiptPolicy = "drop_oldest"
    HasObserver = TRUE
    Closers = {c1}
    MaxFrames = 2
    MaxEpochs = 2
SPECIFICATION FairSpec
INVARIANTS
    GapsExplain
    EvidenceFirst
PROPERTIES
    CancelStops
    CloseEnds
    ConsumerEnds
    RefusedEnds
