--------------------------- MODULE DecisionEngine ---------------------------
(***************************************************************************)
(* make_decision of app/strategy/decision_engine.py and the state it leaves*)
(* from candle to candle: the pending entry, the event cooldown, the market*)
(* state, the memory of the predictive layer and the labels still waiting  *)
(* for their outcome.  One tick of app/run.py makes the decision, saves    *)
(* that state, hands the decision over and closes the candle's gate; the   *)
(* process may die between any two of these steps and inside the write.    *)
(***************************************************************************)
EXTENDS Predictive

CONSTANTS
    MaxCandle,          \* bound: candles are 1 .. MaxCandle
    MarketSet,          \* bound: the markets a candle may show
    PoorReward,         \* strategies whose RR target is below MIN_RR
    TwoTargets,         \* strategies whose RR target is 2.0 or more
    CooldownCandles,    \* EVENT_COOLDOWN_CANDLES
    ExpireCandles,      \* PENDING_EXPIRE_CANDLES
    Horizon,            \* PREDICTIVE_LABEL_HORIZON_CANDLES
    QueueSlack,         \* the 4 and the 12 of the longest label queue: it is the
    QueueFloor,         \* horizon and the slack, but the floor at least
    FileLimit,          \* the 16 labels save_decision_state keeps
    EvGate,             \* EV_GATE_ENABLED
    EarlyEntries,       \* EARLY_ENTRY_ENABLED
    DirectionalEvents   \* EVENT_DIRECTIONAL_TRADING_ENABLED

ASSUME DecisionAssumption ==
    /\ MaxCandle \in Nat
    /\ MarketSet \subseteq Markets
    /\ PoorReward \subseteq Names /\ TwoTargets \subseteq Names
    /\ CooldownCandles \in Nat
    /\ ExpireCandles \in Nat \ {0} /\ Horizon \in Nat \ {0}
    /\ {QueueSlack, QueueFloor} \subseteq Nat /\ FileLimit \in Nat \ {0}
    /\ {EvGate, EarlyEntries, DirectionalEvents} \subseteq BOOLEAN

Candles == 1 .. MaxCandle

\* What a tick hands to make_decision: the candle, whether the history is long
\* enough for every indicator, the position, and the sign of the EV estimate.
Readings ==
    {r \in [market : MarketSet, complete : BOOLEAN, held : BOOLEAN,
            timeExit : BOOLEAN, poorEv : BOOLEAN] : r.timeExit => r.held}

NoPending == [side |-> "NONE", strategy |-> "NONE", set |-> 0, last |-> 0, remaining |-> 0]

Pendings ==
    [side : Sides, strategy : {CO, PB, TA}, set : Candles, last : Candles,
     remaining : 1 .. (ExpireCandles + 1)]

\* load_decision_state without a readable file.
DefaultState ==
    [pending |-> NoPending, cooldown |-> [remaining |-> 0, last |-> 0],
     market |-> "RANGE_BALANCED", memory |-> -1, labels |-> <<>>]

-----------------------------------------------------------------------------
(* What the candle does to the saved state before a strategy is looked at *)

\* Mutants: the cooldown runs below zero; it runs with every tick.
CooldownBelowZero(old, ts, event) ==
    [last |-> ts,
     remaining |-> IF event THEN CooldownCandles
                   ELSE IF old.last = ts THEN old.remaining ELSE old.remaining - 1]

CooldownEachTick(old, ts, event) ==
    [last |-> ts,
     remaining |-> IF event THEN CooldownCandles
                   ELSE IF old.remaining = 0 THEN 0 ELSE old.remaining - 1]

\* _update_event_cooldown: a candle counts once, however often it is decided.
Cooldown(old, ts, event) ==
    [last |-> ts,
     remaining |-> IF event THEN CooldownCandles
                   ELSE IF old.last = ts \/ old.remaining = 0 THEN old.remaining
                   ELSE old.remaining - 1]

\* Mutant: a pending entry lives one candle longer.
AgedLate(pending, ts) ==
    IF pending = NoPending \/ pending.last = ts THEN pending
    ELSE IF pending.remaining > 0
      THEN [pending EXCEPT !.remaining = @ - 1, !.last = ts] ELSE NoPending

\* _update_pending_state
Aged(pending, ts) ==
    IF pending = NoPending \/ pending.last = ts THEN pending
    ELSE IF pending.remaining > 1
      THEN [pending EXCEPT !.remaining = @ - 1, !.last = ts] ELSE NoPending

\* event_block covers the candle of the event, too, and drops a pending entry.
EventBlock(cooldown, m) == m.event \/ cooldown.remaining > 0

\* Mutant: an event keeps the pending entry.
PendingKept(old, cooldown, ts, m) == Aged(old, ts)

PendingBefore(old, cooldown, ts, m) ==
    IF EventBlock(cooldown, m) THEN NoPending ELSE Aged(old, ts)

\* event_hard_block
HardBlock(cooldown, guess) == cooldown.remaining > 0 \/ guess.event = "EVENT_CHAOTIC"

\* update_analytics_labels and the cut of save_decision_state.  A candle that is
\* decided again is queued again and ages the older labels again.
LastOf(queue, limit) ==
    SubSeq(queue, IF Len(queue) > limit THEN Len(queue) - limit + 1 ELSE 1, Len(queue))

QueueLimit ==
    IF Horizon + QueueSlack > QueueFloor THEN Horizon + QueueSlack ELSE QueueFloor

\* The items of a sequence at some of its places, in their order.
ItemsAt(items, places) ==
    LET Place(k) == CHOOSE i \in places : Cardinality({j \in places : j <= i}) = k
    IN [k \in 1 .. Cardinality(places) |-> items[Place(k)]]

\* Mutant: a label that goes on waiting is put back as it was read.
LabelsNotAged(labels, ts) ==
    LET waiting == {i \in DOMAIN labels : labels[i].ts = ts \/ labels[i].elapsed + 1 < Horizon}
        queue == Append(ItemsAt(labels, waiting), [ts |-> ts, elapsed |-> 0])
    IN LastOf(LastOf(queue, QueueLimit), FileLimit)

LabelsAfter(labels, ts) ==
    LET aged == [i \in DOMAIN labels |->
                    IF labels[i].ts = ts THEN labels[i] ELSE [labels[i] EXCEPT !.elapsed = @ + 1]]
        waiting == {i \in DOMAIN aged : aged[i].elapsed < Horizon}
        queue == Append(ItemsAt(aged, waiting), [ts |-> ts, elapsed |-> 0])
    IN LastOf(LastOf(queue, QueueLimit), FileLimit)

-----------------------------------------------------------------------------
(* The route of the legacy strategies *)

Followers == {CO, PB, TA}

Trailing == {BO, SQ, TA}
Splits(strategy) == strategy \in TwoTargets /\ strategy \in Trailing \cup {CO, PB}

\* The side a reversal is looked for on is the one of the HTF trend.
Confirms(m) == m.confirmed /\ TrendSide(m) \cap m.reversal = {}

\* A follower under a soft stability score needs a pending entry of its own.
MustWait(strategy, m) == strategy \in Followers /\ m.grade = "soft"

\* The pending entry of an earlier candle is confirmed by this one.
Matches(pending, side, strategy, ts) ==
    pending.side = side /\ pending.strategy = strategy /\ pending.set # ts

\* How far the selected strategy gets: the stages in the order they are passed.
Stage(r, ts, strategy, side, hard, pending) ==
    IF r.timeExit THEN "close"
    ELSE IF strategy = "NONE" THEN "none"
    ELSE IF strategy \in PoorReward THEN "poor"
    ELSE IF hard THEN "blocked"
    ELSE IF ~MustWait(strategy, r.market) THEN "free"
    ELSE IF ~Confirms(r.market) THEN "wait"
    ELSE IF Matches(pending, side, strategy, ts) THEN "confirm"
    ELSE IF pending = NoPending THEN "set"
    ELSE "wait"

\* Mutant: a confirmed entry stays pending.
PendingAfterKept(stage, pending, side, strategy, ts) ==
    IF stage = "set" THEN [side |-> side, strategy |-> strategy, set |-> ts, last |-> ts,
                           remaining |-> ExpireCandles + 1]
    ELSE pending

PendingAfter(stage, pending, side, strategy, ts) ==
    CASE stage = "confirm" -> NoPending
      [] stage = "set" -> [side |-> side, strategy |-> strategy, set |-> ts, last |-> ts,
                           remaining |-> ExpireCandles + 1]
      [] OTHER -> pending

\* Reject reasons that do not come from a strategy.
Refused(r) == ~r.complete \/ (r.held /\ ~r.timeExit)

LegacyOpens(r, stage) ==
    /\ stage \in {"free", "confirm"}
    /\ ~(EvGate /\ r.poorEv)
    /\ ~Refused(r)

-----------------------------------------------------------------------------
(* stage2_legacy_validation and stage3_execution_decision *)

Validators == {BO, SQ, CO, TA, PB, MR}

\* Validators that pass for the other side than the prediction.
Opposing(m, eventBlock, bias) ==
    {name \in Validators : LET sides == PassedSides(name, m, eventBlock)
                           IN sides # {} /\ SideTaken(sides) # bias}

\* Mutant: the reject reasons of the position and the history are not hard.
HardHoldUnrefused(r, eventBlock) ==
    r.market.grade = "block" \/ StructuralReject(r.market, eventBlock)

HardHold(r, eventBlock) ==
    r.market.grade = "block" \/ Refused(r) \/ StructuralReject(r.market, eventBlock)

EarlyAllowed(m, eventBlock, guess) ==
    /\ EarlyEntries
    /\ guess.tier \in {"MEDIUM", "HIGH"}
    /\ Opposing(m, eventBlock, guess.bias) = {}
    /\ guess.state \notin {"CHOP", "NEUTRAL"}

Executions == {"CLOSE", "OPEN_CONFIRMED", "OPEN_EARLY", "HOLD", "HOLD_EVENT",
               "HOLD_LATE", "HOLD_LOW_QUALITY"}

Execution(r, stage, eventBlock, hard, guess) ==
    IF stage = "close" THEN "CLOSE"
    ELSE IF LegacyOpens(r, stage) THEN "OPEN_CONFIRMED"
    ELSE IF ~PredictiveLayer \/ stage # "none" \/ HardHold(r, eventBlock) THEN "HOLD"
    ELSE IF guess.bias = "NEUTRAL"
      THEN IF guess.event = "EVENT_CHAOTIC" THEN "HOLD_EVENT" ELSE "HOLD_LOW_QUALITY"
    ELSE IF guess.late THEN "HOLD_LATE"
    ELSE IF hard \/ (guess.event = "EVENT_DIRECTIONAL" /\ ~DirectionalEvents) THEN "HOLD_EVENT"
    ELSE IF EarlyAllowed(r.market, eventBlock, guess) THEN "OPEN_EARLY"
    ELSE "HOLD_LOW_QUALITY"

-----------------------------------------------------------------------------
(* make_decision *)

\* origin is the candle the confirmed pending entry was set on.
Decisions ==
    [execution : Executions, side : Sides \cup {"NONE"}, strategy : Names \cup {"NONE", "EARLY"},
     origin : 0 .. MaxCandle, targets : 1 .. 2, trail : BOOLEAN]

NoDecision == [execution |-> "HOLD", side |-> "NONE", strategy |-> "NONE",
               origin |-> 0, targets |-> 1, trail |-> FALSE]

Decided(execution, stage, guess, side, strategy, pending) ==
    CASE execution = "OPEN_CONFIRMED" ->
           [execution |-> execution, side |-> side, strategy |-> strategy,
            origin |-> IF stage = "confirm" THEN pending.set ELSE 0,
            targets |-> IF Splits(strategy) THEN 2 ELSE 1,
            trail |-> Splits(strategy) /\ strategy \in Trailing]
      [] execution = "OPEN_EARLY" ->
           [NoDecision EXCEPT !.execution = execution, !.side = guess.bias, !.strategy = "EARLY"]
      [] OTHER -> [NoDecision EXCEPT !.execution = execution]

\* The decision on a candle and the state_update that goes with it.
Outcome(old, r, ts) ==
    LET m == r.market
        cooldown == Cooldown(old.cooldown, ts, m.event)
        block == EventBlock(cooldown, m)
        pending == PendingBefore(old.pending, cooldown, ts, m)
        guess == Prediction(m, old.memory, old.market)
        hard == HardBlock(cooldown, guess)
        strategy == Selected(m, block)
        side == IF strategy = "NONE" THEN "NONE" ELSE SideTaken(PassedSides(strategy, m, block))
        stage == Stage(r, ts, strategy, side, hard, pending)
        execution == Execution(r, stage, block, hard, guess)
    IN [decision |-> Decided(execution, stage, guess, side, strategy, pending),
        update |-> [pending |-> PendingAfter(stage, pending, side, strategy, ts),
                    cooldown |-> cooldown, market |-> guess.market, memory |-> m.dist,
                    labels |-> LabelsAfter(old.labels, ts)]]
=============================================================================
