CONSTANTS
    Candles = {1}
    Sides = {"BUY"}
    Prices = {p1}
    NoPrice = NoPrice
    Lot = 2
    Tp1Lot = 1
    CloseQtys = {2}
    Attempts = 2
    Polls = 1
    MaxOrders = 3
    FlagSets <- LiveOnly
    TornWrites = FALSE
SPECIFICATION Spec
CHECK_DEADLOCK FALSE
INVARIANTS
    AtMostOneEntryOrder
