\* Starts, stops, kill switch, reconciliation, crashes and restarts.
SPECIFICATION MCSpec
CONSTANTS
    b1 = b1
    b2 = b2
    l1 = l1
    l2 = l2
    NoLane = NoLane
    Bots = {b1, b2}
    Lanes = {l1, l2}
    BotOf <- TwoBots
    Enabled = {b1, b2}
    Live = {b1}
    RemoteSnapshot = {b1}
    PausedIfUncertain = TRUE
    MaxFaults = 1
    MaxCrashes = 2
    Parts = {"two_bots", "two_symbols"}
INVARIANTS
    KillSwitchPausesEveryLane
    RunningLaneIsInSnapshot
PROPERTIES
    StartupResumeRestoresPosition
    EverySymbolSettles
