CONSTANTS
    Period = 3
    SwingM = 1
    MaxAge = 2
    RiskPct = 5
    Leverage = 5
    MinQty = 1
    Tp1Pct = 40
    EarlyPct = 50
    SoftPct = 70
    MaxLosses = 2
    MaxDrawdownPct = 3
    Atr = 20
    Modes = {"live"}
    Lags = {0}
    MaxCandle = 4
    DayLength = 3
    CandleSet <- FewCandles
    Emas = {195}
    ReplySet <- FewReplies
    Risks = {2, 4}
    Cooldown = 2
    SoftSizing = TRUE
SPECIFICATION DaySpec
CHECK_DEADLOCK FALSE
INVARIANTS
    BreakoutSeen
