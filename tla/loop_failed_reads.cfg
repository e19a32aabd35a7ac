CONSTANTS
    Candles = {1, 2}
    Sides = {"BUY"}
    Prices = {p1}
    NoPrice = NoPrice
    Lot = 2
    Tp1Lot = 1
    CloseQtys = {2}
    Attempts = 1
    Polls = 1
    MaxOrders = 4
    FlagSets <- LiveOnly
    TornWrites = FALSE
    RequireTp = TRUE
    Cooldown = 1
    FailedReads = TRUE
    MaxBoots = 1
SPECIFICATION LoopSpec
CHECK_DEADLOCK FALSE
INVARIANTS
    SinglePosition
