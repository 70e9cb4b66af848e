\* Polling and recovery of a lane.
SPECIFICATION MCSpec
CONSTANTS
    Parts = {"polled", "simulated"}
    MaxBar = 4
    RequiredBars = 2
    PageLimit = 2
    MaxPages = 1
    MaxNoProgress = 1
    MaxFaults = 1
    MaxSlow = 1
    MaxRequests = 1
    MaxCrashes = 0
INVARIANTS
    BearingsKept
PROPERTIES
    TradesNextBar
    ImplementsBarDispatch
    LaneCatchesUp
