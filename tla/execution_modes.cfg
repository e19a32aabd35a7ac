CONSTANTS
    Candles = {1}
    Sides = {"SELL"}
    Prices = {p1}
    NoPrice = NoPrice
    Lot = 2
    Tp1Lot = 1
    CloseQtys = {2}
    Attempts = 1
    Polls = 1
    MaxOrders = 3
    FlagSets <- SomeModes
    TornWrites = TRUE
SPECIFICATION Spec
CHECK_DEADLOCK FALSE
INVARIANTS
    ExecutedMeansProtected
PROPERTIES
    ModesMutateNothing
