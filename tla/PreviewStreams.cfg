\* Sessions that compete for a worker, and one session over an outage.  Lanes, venue
\* and faults are bounded: the loop may come to rest.
SPECIFICATION MCSpec
CONSTANTS
    None = None
    a1 = a1
    a2 = a2
    a3 = a3
    l1 = l1
    l2 = l2
    l3 = l3
    l4 = l4
    s1 = s1
    s2 = s2
    s3 = s3
    s4 = s4
    Parts = {"one", "many"}
    AccountOrder <- ThreeAccounts
    StreamOf <- SharedStream
    AccountOf <- AnAccountEach
    Refusing = {a2}
    MaxWorkers = 1
    CommandCap = 1
    EventCap = 2
    MaxMoves = 2
    MaxOutages = 0
    MaxUpdates = 2
    MaxFaults = 1
CHECK_DEADLOCK FALSE
INVARIANTS
    SessionsAreBounded
PROPERTIES
    OutageShown
    WantedSubscribed
