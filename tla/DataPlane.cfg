\* The data plane under reloads, faults and several paces.
SPECIFICATION MCSpec
CONSTANTS
    k1 = k1
    k2 = k2
    a1 = a1
    a2 = a2
    l1 = l1
    l2 = l2
    Parts = {"on_and_off", "split", "paces"}
    Keys = {k1}
    Accounts = {a1}
    AccountOf <- OneKey
    Configs <- OnAndOff
    Timeframe = 1
    Retention = 1
    Retry = 1
    MaxInterval = 2
    Never = 1
    MaxBar = 2
    MaxFaults = 1
    MaxRequests = 1
INVARIANTS
    WithinBudget
PROPERTIES
    LanesCatchUp
