CONSTANTS
    MaxCandle = 3
    MarketSet <- FewMarkets
    PoorReward <- NoStrategy
    TwoTargets <- Extended
    CooldownCandles = 2
    ExpireCandles = 1
    Horizon = 2
    QueueSlack = 1
    QueueFloor = 2
    FileLimit = 4
    EvGate = TRUE
    EarlyEntries = TRUE
    DirectionalEvents = TRUE
    RangeInTrend = FALSE
    PredictiveLayer = TRUE
SPECIFICATION TickSpec
CHECK_DEADLOCK FALSE
INVARIANTS
    TickTypeOK
    OpensOnlyWhenFree
    CooldownHolds
    NoPendingInCooldown
    ConfirmsInWindow
    LabelsBounded
PROPERTIES
    TakenOnce
