CONSTANTS
    Candles = {1, 2}
    Sides = {"BUY"}
    Prices = {p1}
    NoPrice = NoPrice
    Lot = 15
    Tp1Lot = 6
    CloseQtys = {15}
    Attempts = 1
    Polls = 1
    MaxOrders = 6
    FlagSets <- LiveOnly
    TornWrites = FALSE
    RequireTp = FALSE
    Cooldown = 1
    FailedReads = TRUE
    MaxBoots = 1
SPECIFICATION LoopSpec
CHECK_DEADLOCK FALSE
INVARIANTS
    StopMovesOnlyAfterTp1
