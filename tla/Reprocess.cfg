\* A bar whose order's answer was lost is processed again.
SPECIFICATION MCSpec
CONSTANTS
    l1 = l1
    l2 = l2
    b1 = b1
    b2 = b2
    s1 = s1
    none = none
    Parts = {"bars"}
    Lanes = {l1, l2}
    Bots = {b1, b2}
    BotOf <- OwnBots
    SymbolOf <- SharedSymbol
    DeclaredTotal = 6
    BudgetPct <- Halves
    NoBalance = none
    OrderTarget = 4
    MaxOrderNotional = 5
    MaxOpenPositions = 1
    QuantityStep = 1
    MinQuantity = 1
    MinNotional = 2
    Prices = {2}
    Balances <- SomeBalances
    Kinds = {"confirmed"}
    Cooldown = 1
    RemoteSnapshot = TRUE
    MaxBar = 1
    MaxCycles = 2
    MaxFaults = 1
    MaxCrashes = 0
INVARIANT ReprocessedBarSubmitsOnce
