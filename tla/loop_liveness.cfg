CONSTANTS
    Candles = {1, 2}
    Sides = {"BUY"}
    Prices = {p1}
    NoPrice = NoPrice
    Lot = 2
    Tp1Lot = 1
    CloseQtys = {2}
    Attempts = 2
    Polls = 1
    MaxOrders = 3
    FlagSets <- LiveOnly
    TornWrites = TRUE
    RequireTp = FALSE
    Cooldown = 1
    FailedReads = FALSE
    MaxBoots = 2
SPECIFICATION FairLoopSpec
CHECK_DEADLOCK FALSE
PROPERTIES
    NakedIsNoticed
    EveryCallReturns
