----------------------------- MODULE Predictive -----------------------------
(***************************************************************************)
(* The predictive layer (app/strategy/predictive_engine.py): a bias, its   *)
(* confidence and the next market state, from the candle and from what the *)
(* previous candle left in the decision state.                             *)
(***************************************************************************)
EXTENDS Strategies

CONSTANT PredictiveLayer   \* PREDICTIVE_LAYER_ENABLED

ASSUME PredictiveAssumption == PredictiveLayer \in BOOLEAN

\* Distances the memory holds; -1 before the first candle.
Memories == -1 .. 3

MarketStates ==
    {"UPTREND_HEALTHY", "PULLBACK_ACTIVE", "RECLAIM_PENDING", "RECLAIM_FAILED",
     "BEARISH_TRANSITION", "BREAKDOWN_CONFIRMED", "DOWNTREND_HEALTHY",
     "SHORT_PULLBACK_ACTIVE", "SHORT_RECLAIM_PENDING", "SHORT_RECLAIM_FAILED",
     "BULLISH_TRANSITION", "BREAKOUT_CONFIRMED", "RANGE_BALANCED",
     "EVENT_DIRECTIONAL", "EVENT_CHAOTIC"}

Predictions ==
    [bias : Sides \cup {"NEUTRAL"},
     state : {"EARLY_LONG", "EARLY_SHORT", "LONG_FAILURE", "SHORT_FAILURE", "BREAKDOWN_RISK",
              "BREAKOUT_RISK", "EVENT_DIRECTIONAL", "CHOP", "NEUTRAL"},
     tier : {"LOW", "MEDIUM", "HIGH"},
     event : {"NONE", "EVENT_DIRECTIONAL", "EVENT_CHAOTIC"},
     late : BOOLEAN,
     market : MarketStates]

-----------------------------------------------------------------------------
(* _derive_metrics *)

\* The code asks for a distance from EMA50 that grew by a fifth of an ATR.  Here
\* distances are classes: growth within a class does not count, a change of class
\* always does.
DistanceWidening(m, memory) == memory # -1 /\ m.dist > memory

LocalBreak(m, side) == m.brk = side \/ m.swing = side

Acceptance(m, side) ==
    m.body >= ConfirmBodyMin /\ m.vol >= BreakoutVolMin /\ m.closeAt = side

\* The trend of a side and closes on the other side of EMA50.
Lost(m, side) == m.htf = Trend(side) /\ Aligned(m, Against(side))

NonRecovery(m, side) == Lost(m, side) /\ Run(m, Against(side)) >= 2

FailedReclaim(m, side, memory) ==
    /\ Lost(m, side)
    /\ \/ m.emaPrev # Beyond(side)
       \/ NonRecovery(m, side)
       \/ m.touched /\ m.body >= ConfirmBodyMin /\ m.closeAt = Against(side)
    /\ DistanceWidening(m, memory) \/ m.closeAt = Against(side)

\* The trend of the other side fails: trend_failure_short is TrendFailure("SHORT").
TrendFailure(m, side, memory) ==
    /\ FailedReclaim(m, Against(side), memory) \/ NonRecovery(m, Against(side))
    /\ m.slope = side \/ LocalBreak(m, side) \/ Acceptance(m, side)

EventDirectional(m) ==
    /\ m.event /\ m.spike
    /\ \E side \in Sides : m.closeAt = side /\ (LocalBreak(m, side) \/ Acceptance(m, side))

EventClass(m) ==
    IF ~m.event THEN "NONE"
    ELSE IF EventDirectional(m) THEN "EVENT_DIRECTIONAL" ELSE "EVENT_CHAOTIC"

LateEntry(m) == m.dist = 3

-----------------------------------------------------------------------------
(* _resolve_market_state *)

\* The names of the states within a trend.
StateName(side, stage) ==
    CASE stage = "confirmed" -> IF side = "LONG" THEN "BREAKDOWN_CONFIRMED" ELSE "BREAKOUT_CONFIRMED"
      [] stage = "transition" -> IF side = "LONG" THEN "BEARISH_TRANSITION" ELSE "BULLISH_TRANSITION"
      [] stage = "failed" -> IF side = "LONG" THEN "RECLAIM_FAILED" ELSE "SHORT_RECLAIM_FAILED"
      [] stage = "pullback" -> IF side = "LONG" THEN "PULLBACK_ACTIVE" ELSE "SHORT_PULLBACK_ACTIVE"
      [] stage = "pending" -> IF side = "LONG" THEN "RECLAIM_PENDING" ELSE "SHORT_RECLAIM_PENDING"
      [] OTHER -> IF side = "LONG" THEN "UPTREND_HEALTHY" ELSE "DOWNTREND_HEALTHY"

TrendStage(m, side, memory) ==
    LET failure == TrendFailure(m, Against(side), memory)
    IN First(<< <<"confirmed", failure /\ LocalBreak(m, Against(side))>>,
                <<"transition", failure>>,
                <<"failed", FailedReclaim(m, side, memory)>>,
                <<"pullback", m.dist > 0>>,
                <<"pending", Reclaimed(m, side)>>,
                <<"healthy", TRUE>> >>)

NextMarketState(m, memory, previous) ==
    IF m.event THEN EventClass(m)
    ELSE IF m.htf # "range"
      THEN LET side == CHOOSE s \in TrendSide(m) : TRUE
           IN StateName(side, TrendStage(m, side, memory))
    ELSE IF m.strong THEN previous ELSE "RANGE_BALANCED"

-----------------------------------------------------------------------------
(* infer_predictive_layer *)

Neutral(state) == [bias |-> "NEUTRAL", state |-> state, tier |-> "LOW"]

FailurePrediction(m, side) ==
    [bias |-> side,
     state |-> IF LocalBreak(m, side)
                 THEN IF side = "SHORT" THEN "BREAKDOWN_RISK" ELSE "BREAKOUT_RISK"
                 ELSE IF side = "SHORT" THEN "LONG_FAILURE" ELSE "SHORT_FAILURE",
     tier |-> IF LocalBreak(m, side) \/ Acceptance(m, side) THEN "HIGH" ELSE "MEDIUM"]

EarlyPrediction(side) ==
    [bias |-> side, state |-> IF side = "LONG" THEN "EARLY_LONG" ELSE "EARLY_SHORT",
     tier |-> "MEDIUM"]

\* The rules in the order they are tried.
Bias(m, memory, market) ==
    First(<< <<Neutral("NEUTRAL"), ~PredictiveLayer>>,
             <<Neutral("CHOP"), EventClass(m) = "EVENT_CHAOTIC">>,
             <<[bias |-> m.closeAt, state |-> "EVENT_DIRECTIONAL", tier |-> "HIGH"],
               EventClass(m) = "EVENT_DIRECTIONAL">>,
             <<FailurePrediction(m, "SHORT"), TrendFailure(m, "SHORT", memory)>>,
             <<FailurePrediction(m, "LONG"), TrendFailure(m, "LONG", memory)>>,
             <<EarlyPrediction("SHORT"), LocalBreak(m, "SHORT") /\ Acceptance(m, "SHORT")>>,
             <<EarlyPrediction("LONG"), LocalBreak(m, "LONG") /\ Acceptance(m, "LONG")>>,
             <<Neutral("CHOP"), market = "RANGE_BALANCED">>,
             <<Neutral("NEUTRAL"), TRUE>> >>)

Prediction(m, memory, previous) ==
    LET market == NextMarketState(m, memory, previous)
        guess == Bias(m, memory, market)
    IN [bias |-> guess.bias, state |-> guess.state, tier |-> guess.tier,
        event |-> EventClass(m), late |-> LateEntry(m), market |-> market]
=============================================================================
