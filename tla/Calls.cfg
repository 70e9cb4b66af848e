\* Threads in the gateway and in the journal's file, and an order call.  The parts end
\* when their bounds are spent.
SPECIFICATION MCSpec
CONSTANTS
    None = None
    t1 = t1
    t2 = t2
    t3 = t3
    a1 = a1
    a2 = a2
    o1 = o1
    Threads = {t1, t2}
    PoolSize = 2
    Statements = 3
    Version = 9
    Clock = {1, 2, None}
    MaxCalls = 3
    MaxCrashes = 1
    MaxPanics = 1
    Parts = {"gateway", "durable", "crowded", "order"}
CHECK_DEADLOCK FALSE
INVARIANTS
    AcknowledgedSurvives
PROPERTIES
    ThrottleIsKept
    EveryCallReturns
