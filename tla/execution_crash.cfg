CONSTANTS
    Candles = {1}
    Sides = {"BUY"}
    Prices = {p1, p2}
    NoPrice = NoPrice
    Lot = 2
    Tp1Lot = 1
    CloseQtys = {2}
    Attempts = 2
    Polls = 1
    MaxOrders = 4
    FlagSets <- LiveOnly
    TornWrites = FALSE
SPECIFICATION Spec
SYMMETRY PriceSymmetry
CHECK_DEADLOCK FALSE
INVARIANTS
    TypeOK
    EntryRequestedByOneCall
    ExecutedMeansProtected
    UpdateLeavesOneStop
PROPERTIES
    ExitsOnlyShrink
    EntriesOnce
