------------------------------ MODULE TradingDay ------------------------------
(***************************************************************************)
(* The money of a trading day.  Two programs plan trades with the same     *)
(* payload, decision and risk code: the live tick of app/run.py and the    *)
(* replay of past candles of app/replay.py.  Between their steps positions *)
(* close at a loss or a gain, days end, processes restart.  What a day has *)
(* cost reaches the risk checks through the daily state file.              *)
(*                                                                         *)
(* The decision is any the engine can make of a payload.  How a plan turns *)
(* into orders is the subject of Execution and TradingLoop: here it opens  *)
(* or closes its position at once.                                         *)
(***************************************************************************)
EXTENDS TradePlan

CONSTANTS
    Modes,          \* "live", "replay"
    Lags,           \* candles between the last replayed candle and the replay
    MaxCandle,      \* bound: candles
    DayLength,      \* candles of a day
    CandleSet,      \* the candles a market may show
    Emas,           \* where EMA50 may be
    ReplySet,       \* the answers of the account
    Risks,          \* distances of the stop
    Cooldown,       \* TRADE_COOLDOWN_MINUTES, in candles
    SoftSizing      \* ADAPTIVE_SOFT_STABILITY_ENABLED

ASSUME TradingDayAssumption ==
    /\ Modes \subseteq {"live", "replay"} /\ Lags \subseteq Nat
    /\ {MaxCandle, DayLength} \subseteq Nat \ {0} /\ Cooldown \in Nat
    /\ Risks \subseteq Nat \ {0} /\ SoftSizing \in BOOLEAN
    /\ CandleSet \subseteq CandlesOf(Nat) /\ Emas \subseteq Nat
    /\ ReplySet \subseteq Replies(Nat)

VARIABLES
    mode,       \* which program runs
    lag,        \* how old the replayed candles are
    candle,     \* the latest closed candle
    window,     \* the last candles
    gate,       \* the last candle that was processed, on disk
    pc,         \* "idle", "built", "planned"
    reply,      \* the account's answer in this tick
    payload,    \* the payload of this tick
    outcome,    \* what create_trade_plan answered
    position,   \* the open position at the exchange
    equity,     \* the replay's running equity
    daily,      \* the daily state on disk
    day,        \* history: what this day's trades really brought
    attempt,    \* the last trade attempt, on disk
    killed      \* the kill flag

dayVars == <<mode, lag, candle, window, gate, pc, reply, payload, outcome,
             position, equity, daily, day, attempt, killed>>

tick == <<pc, reply, payload, outcome>>

NoReply == [kind |-> "none", margin |-> 0, available |-> 0, wallet |-> 0]
NoPayload == [funds |-> 0]
Flat == [side |-> "NONE", qty |-> 0, entry |-> 0, stop |-> 0, target |-> 0]
NoTrades == [pnl |-> 0, streak |-> 0]

DayOf(c) == (c - 1) \div DayLength
Now == IF mode = "replay" THEN MaxCandle + lag ELSE candle

Fresh(start) == [day |-> DayOf(candle), start |-> start, pnl |-> 0, streak |-> 0]

LoadDailyAnew(start) == Fresh(start)    \* mutant: the file is never believed

\* load_or_initialize_daily_state
LoadDaily(start) ==
    IF daily.day # DayOf(candle) \/ daily.start <= 0 THEN Fresh(start) ELSE daily

\* A trade's result as app/replay.py books it.
Book(account, pnl) ==
    [account EXCEPT !.pnl = @ + pnl, !.streak = IF pnl < 0 THEN @ + 1 ELSE 0]

Gain(p, price) == p.qty * (IF p.side = "LONG" THEN price - p.entry ELSE p.entry - price)

PositionOf(plan) ==
    [side |-> plan.side, qty |-> plan.qty, entry |-> plan.entry, stop |-> plan.stop,
     target |-> plan.targets[Len(plan.targets)]]

\* Mutant: the payload outlives its tick.
ForgetOutcome ==
    /\ pc' = "idle" /\ payload' = payload /\ outcome' = Rejected({})
    /\ reply' = IF mode = "replay" THEN reply ELSE NoReply

\* What a tick holds in memory is dropped; the replay's only answer stays.
Forget ==
    /\ pc' = "idle" /\ payload' = NoPayload /\ outcome' = Rejected({})
    /\ reply' = IF mode = "replay" THEN reply ELSE NoReply

\* A strategy's stop at a multiple of the ATR, with one target or, from a
\* reward of two, with two.
RiskDecisions(side, price, soft) ==
    {ApplyRisk(side, price, risk, 15, FALSE, soft) : risk \in Risks}
    \cup {ApplyRisk(side, price, risk, 22, TRUE, soft) : risk \in Risks}

\* Entries on a flat payload; on a held position a time exit or a stop moved
\* to the entry.
EntryDecisions(features) ==
    UNION {RiskDecisions(side, features.close, FALSE)
               \cup RiskDecisions(side, features.close, SoftSizing)
               \cup {EarlyPlan(side, features, 16)} : side \in {"LONG", "SHORT"}}

ExitDecisions(held) ==
    {[NoDecision EXCEPT !.intent = "CLOSE"],
     [NoDecision EXCEPT !.intent = "UPDATE_SLTP", !.stop = held.entry]}

Decisions ==
    {NoDecision}
    \cup IF payload.position.qty > 0
           THEN ExitDecisions(payload.position)
           ELSE EntryDecisions(payload.features)

DayInit ==
    /\ mode \in Modes
    /\ lag \in (IF mode = "replay" THEN Lags ELSE {0})
    /\ candle = 1 /\ gate = 0
    /\ window \in [1 .. Period -> CandleSet]
    /\ reply \in (IF mode = "replay" THEN {r \in ReplySet : AccountSnapshot(r).equity > 0}
                                    ELSE {NoReply})
    /\ equity = IF mode = "replay" THEN AccountSnapshot(reply).equity ELSE 0
    /\ pc = "idle" /\ payload = NoPayload /\ outcome = Rejected({})
    /\ position = Flat /\ day = NoTrades
    /\ daily = [day |-> -1, start |-> 0, pnl |-> 0, streak |-> 0]
    /\ attempt = 0 /\ killed = FALSE

-----------------------------------------------------------------------------
(* The world.                                                              *)

NextCandle ==
    /\ pc = "idle" /\ candle < MaxCandle
    /\ mode = "replay" => gate = candle
    /\ candle' = candle + 1
    /\ \E c \in CandleSet : window' = Append(Tail(window), c)
    /\ day' = IF DayOf(candle') = DayOf(candle) THEN day ELSE NoTrades
    /\ UNCHANGED <<mode, lag, gate, tick, position, equity, daily, attempt, killed>>

\* The stop or the target of the open position fills.
PositionCloses ==
    /\ position.qty > 0
    /\ \E price \in {position.stop, position.target} : day' = Book(day, Gain(position, price))
    /\ position' = Flat
    /\ UNCHANGED <<mode, lag, candle, window, gate, tick, equity, daily, attempt, killed>>

Kill ==
    /\ mode = "live" /\ ~killed
    /\ killed' = TRUE
    /\ UNCHANGED <<mode, lag, candle, window, gate, tick, position, equity, daily, day, attempt>>

Restart ==
    /\ mode = "live" /\ pc # "idle"
    /\ Forget
    /\ UNCHANGED <<mode, lag, candle, window, gate, position, equity, daily, day, attempt, killed>>

-----------------------------------------------------------------------------
(* The tick.                                                               *)

\* The candle is done with, decided or given up.
CloseGate == gate' = candle /\ Forget

\* A live tick reads account, price and limits anew.
LivePayload ==
    /\ mode = "live" /\ pc = "idle" /\ candle > gate
    /\ \E r \in ReplySet, priced, limited \in BOOLEAN, ema \in Emas :
          LET account == AccountSnapshot(r)
              errors == PreflightRejects(account, priced, limited)
                        \cup PayloadErrors(account, limited, candle, Now)
          IN  IF errors # {}
                THEN CloseGate /\ UNCHANGED daily
                ELSE /\ payload' = PayloadOf(window, ema, account, candle, position)
                     /\ daily' = LoadDaily(account.equity)
                     /\ reply' = r /\ pc' = "built"
                     /\ UNCHANGED <<gate, outcome>>
    /\ UNCHANGED <<mode, lag, candle, window, position, equity, day, attempt, killed>>

\* The replay has read them once, and goes on whatever its preflight said; it
\* loads the day before it builds the payload.
ReplayPayload ==
    /\ mode = "replay" /\ pc = "idle" /\ candle > gate
    /\ daily' = LoadDaily(equity)
    /\ \E ema \in Emas :
          LET account == AccountSnapshot(reply)
          IN  IF PayloadErrors(account, TRUE, candle, Now) # {}
                THEN CloseGate
                ELSE /\ payload' = PayloadOf(window, ema, account, candle, Flat)
                     /\ pc' = "built"
                     /\ UNCHANGED <<gate, reply, outcome>>
    /\ UNCHANGED <<mode, lag, candle, window, position, equity, day, attempt, killed>>

\* make_decision and create_trade_plan.
PlanTrade ==
    /\ pc = "built"
    /\ \E decision \in Decisions, conditions \in {{}, {"spread_too_wide"}} :
          LET open == IF position.qty > 0 THEN 1 ELSE 0
              switches == KillSwitches(daily, killed, open, conditions, candle, Now)
              cooling == attempt # 0 /\ candle - attempt < Cooldown
          IN  outcome' \in CreateTradePlan(payload, decision, cooling, switches)
    /\ pc' = "planned"
    /\ UNCHANGED <<mode, lag, candle, window, gate, reply, payload, position, equity,
                   daily, day, attempt, killed>>

\* The plan is executed at once; nothing writes its result to the daily state.
ExecutePlan ==
    /\ mode = "live" /\ pc = "planned"
    /\ LET plan == outcome.plan
       IN  CASE plan.action = "OPEN" ->
                  /\ position' = PositionOf(plan)
                  /\ attempt' = candle
                  /\ UNCHANGED day
             [] plan.action = "CLOSE" /\ position.qty > 0 ->
                  /\ \E price \in {position.stop, position.entry, position.target} :
                        day' = Book(day, Gain(position, price))
                  /\ position' = Flat
                  /\ UNCHANGED attempt
             [] plan.action = "UPDATE_SLTP" /\ position.qty > 0 ->
                  /\ position' = [position EXCEPT !.stop = plan.stop]
                  /\ UNCHANGED <<day, attempt>>
             [] OTHER -> UNCHANGED <<position, day, attempt>>
    /\ CloseGate
    /\ UNCHANGED <<mode, lag, candle, window, equity, daily, killed>>

\* The replay lets the following candles decide the trade, books the result
\* and saves the day; a trade that is still open at their end brings nothing.
ReplayOutcome ==
    /\ mode = "replay" /\ pc = "planned"
    /\ IF outcome.plan = NoPlan
         THEN UNCHANGED <<equity, daily, day>>
         ELSE LET trade == PositionOf(outcome.plan)
              IN  \/ \E price \in {trade.stop, trade.target} :
                        /\ equity' = equity + Gain(trade, price)
                        /\ daily' = Book(daily, Gain(trade, price))
                        /\ day' = Book(day, Gain(trade, price))
                  \/ UNCHANGED <<equity, daily, day>>
    /\ CloseGate
    /\ UNCHANGED <<mode, lag, candle, window, position, attempt, killed>>

DayNext ==
    \/ NextCandle \/ PositionCloses \/ Kill \/ Restart
    \/ LivePayload \/ ReplayPayload \/ PlanTrade \/ ExecutePlan \/ ReplayOutcome

DaySpec == DayInit /\ [][DayNext]_dayVars

-----------------------------------------------------------------------------
(* Properties.                                                             *)

Opening == outcome.plan.action = "OPEN"

\* Steps and files hold what the code can put there.
DayTypeOK ==
    /\ mode \in Modes /\ pc \in {"idle", "built", "planned"}
    /\ candle \in 1 .. MaxCandle /\ gate \in 0 .. candle /\ attempt \in 0 .. candle
    /\ window \in [1 .. Period -> CandleSet]
    /\ daily.day \in -1 .. DayOf(MaxCandle) /\ daily.streak \in Nat /\ daily.pnl \in Int
    /\ position.side \in {"NONE", "LONG", "SHORT"} /\ position.qty \in Nat
    /\ pc = "idle" => payload = NoPayload /\ outcome = Rejected({})

\* What a live plan would lose at its stop, and the margin it ties up, are
\* within the free funds the account reported in the same tick: no rounding,
\* reduction or least quantity on the way takes a plan beyond them.
WithinBudget ==
    mode = "live" /\ Opening =>
        LET plan == outcome.plan
            free == Min({reply.available, reply.margin})
        IN  /\ plan.qty * Distance(plan.entry, plan.stop) * 100 <= RiskPct * free
            /\ plan.qty * plan.entry <= Leverage * free

\* The targets together close what the entry opens, each of them is an order
\* the exchange accepts, and a split opens just the quantity that was sized:
\* no rounding of its shares loses or gains a step.
SharesAddUp ==
    Opening =>
        LET plan == outcome.plan
            full == PositionSize(payload.funds, plan.entry, plan.stop)
        IN  /\ Len(plan.shares) = Len(plan.targets)
            /\ SumOf(plan.shares) = plan.qty
            /\ \A i \in DOMAIN plan.shares : plan.shares[i] >= MinQty
            /\ Len(plan.targets) = 2 => plan.qty \in {full} \cup Reduced(full, TRUE, SoftPct)

\* A stop is on the losing side of its entry and no further than a rule puts
\* it, wherever the levels are; targets are on the winning side, the second
\* one behind the first.
StopsProtect ==
    Opening =>
        LET plan == outcome.plan
            Beyond(near, far) == IF plan.side = "LONG" THEN near < far ELSE near > far
            path == <<plan.stop, plan.entry>> \o plan.targets
            risk == Distance(plan.entry, plan.stop)
        IN  /\ \A i \in 1 .. Len(path) - 1 : Beyond(path[i], path[i + 1])
            /\ risk \in Risks \/ risk <= Percent(90, Atr)

\* docs/CONFIG.md: no plan is made on a day whose losses in a row have reached
\* RISK_MAX_CONSEC_LOSSES, or whose result is RISK_MAX_DD_PCT_DAY below the
\* equity it began with.
LossesStopTheDay ==
    Opening =>
        /\ day.streak < MaxLosses
        /\ -day.pnl * 100 < MaxDrawdownPct * daily.start

\* A replay keeps to the limits of the day, because it books what its trades
\* bring before it looks at the next candle.
ReplayHonoursLosses == mode = "replay" => LossesStopTheDay

\* docs/ai/DECISION_FLOW.md: a breakout of the channel is what the impulse
\* strategies wait for.  A candle that closes above every earlier high of the
\* channel's period is reported as closing above the channel.
BreakoutSeen ==
    pc = "built" /\ (\A i \in 1 .. Period - 1 : window[Period].close > window[i].high)
        => payload.features.close > payload.features.channel.high
=============================================================================
