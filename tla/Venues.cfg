\* Orders, snapshots and bars of both connectors.  The clock of the bars is bounded.
SPECIFICATION MCSpec
CONSTANTS
    None = None
    o1 = o1
    o2 = o2
    Parts = {"binance", "alpaca", "pages", "split", "klines"}
    Venue = "alpaca"
    Ids <- MCIds
    Side <- MCBuyAndSell
    MaxQuantity = 2
    QuantityStep = 1
    PollAttempts = 1
    BaseFees <- MCFees
    OpenLimit = 1
CHECK_DEADLOCK FALSE
INVARIANTS
    SnapshotMissesNothing
    PurchaseIsCountedOnce
    ConfirmedIsFinal
    RangeIsNext
