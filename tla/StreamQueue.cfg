CONSTANTS
    QueueCapacity = 2
    ReceiptCapacity = 0
    MaxReconnects = 1
    OverflowPolicy = "drop_oldest"
    ReceiptPolicy = "fail"
    HasObserver = FALSE
    Closers = {}
    MaxFrames = 6
    MaxEpochs = 3
SPECIFICATION Spec
INVARIANTS
    TypeOK
    ResendHasRoom
    LossCounted
    Ordered
    ReconnectMarked
    BudgetRespected
PROPERTIES
    NoReconnectAfterEnd
    ImplementsFeed
