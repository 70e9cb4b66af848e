\* The configuration and its operator.
SPECIFICATION MCSpec
CONSTANTS
    None = None
    d1 = d1
    d2 = d2
    d3 = d3
    b1 = b1
    b2 = b2
    acc = acc
    low = low
    high = high
    a1 = a1
    a2 = a2
    r1 = r1
    r2 = r2
    bot1 = bot1
    bot2 = bot2
    Parts = {"dashboard", "apply", "busy", "watched", "watcher", "rules"}
    BotLists <- Lists
    Keys <- SomeKeys
    MaxChanges = 1
    MaxFaults = 1
CHECK_DEADLOCK FALSE
INVARIANTS
    DestructiveIsConfirmed
    SettledOnOneBundle
    GuardedWriteReplacesWhatWasRead
    ValidCanBeBuilt
PROPERTIES
    SyncedOrToldWhy
    EveryChangeIsLoaded
