\* The bar builder and the signal path.  A path ends when its bounds are spent.
SPECIFICATION MCSpec
CONSTANTS
    Parts = {"trades", "filtered", "eager"}
    Timeframe = 2
    Times <- AroundEpoch
    Prices <- SomePrices
    Quantities <- SomeQuantities
    InOrder = FALSE
    MayFlush = TRUE
    MaxTrades = 3
CHECK_DEADLOCK FALSE
INVARIANTS
    VolumeIsConserved
    DecisionIsOfMarket
