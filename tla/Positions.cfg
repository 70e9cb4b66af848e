\* The risk gate, bots that share a symbol, and a lane's inventory.  The parts end
\* when their bounds are spent.
SPECIFICATION MCSpec
CONSTANTS
    b1 = b1
    b2 = b2
    Parts = {"in_step", "day_behind", "restarts", "closes", "books", "tolerant"}
    Bots = {b1}
    Closers = {b1}
    RemoteSnapshot = TRUE
    External = TRUE
    Faults <- SaleFaults
    LegacyRows = {}
    ScanLimit = 9
    MaxShares = 1
    MaxOrders = 2
    MaxRows = 3
    MaxOther = 1
    MaxBars = 2
    MaxRestarts = 1
    MaxFaults = 1
CHECK_DEADLOCK FALSE
INVARIANTS
    LossLimitIsExact
    RunningLaneMatchesJournal
    BooksBalance
PROPERTIES
    CooldownIsServed
