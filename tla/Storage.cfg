\* The journal's backends and the read models.  The parts end when their bounds are spent.
SPECIFICATION MCSpec
CONSTANTS
    None = None
    bot1 = bot1
    bot2 = bot2
    l1 = l1
    l2 = l2
    Parts = {"every", "laned", "keyed", "feeds", "cycle", "report", "reload", "profit"}
CHECK_DEADLOCK FALSE
INVARIANTS
    BackendsAgree
    FeedIsTail
    LatestIsNewest
    PnlAccumulates
