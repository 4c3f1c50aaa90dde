CONSTANTS
    QueueCapacity = 1
    ReceiptCapacity = 0
    MaxReconnects = 1
    OverflowPolicy = "drop_oldest"
    ReceiptPolicy = "fail"
    HasObserver = FALSE
    Closers = {c1}
    MaxFrames = 2
    MaxEpochs = 2
SPECIFICATION Spec
INVARIANTS
    ClosedOnReturn
