----------------------------- MODULE Strategies -----------------------------
(***************************************************************************)
(* The strategies of the decision engine (app/strategy/decision_engine.py):*)
(* which of them pass on a candle, in which order they are tried, and what *)
(* each side of the market needs.                                          *)
(*                                                                         *)
(* A market is what the engine's comparisons make of a candle, not its     *)
(* prices: on which side of EMA50 it closed, in which class its volume is, *)
(* which channel edge it broke.  Classes are numbered in the order of the  *)
(* thresholds of core/config/settings.py.                                  *)
(***************************************************************************)
EXTENDS Integers, Sequences, FiniteSets, FiniteSetsExt

CONSTANT RangeInTrend   \* RANGE_IN_TREND_ENABLED

ASSUME RangeInTrendAssumption == RangeInTrend \in BOOLEAN

Sides == {"LONG", "SHORT"}
Against(side) == IF side = "LONG" THEN "SHORT" ELSE "LONG"

\* The words for a side in a trend and in a position relative to EMA50.
Trend(side) == IF side = "LONG" THEN "up" ELSE "down"
Beyond(side) == IF side = "LONG" THEN "above" ELSE "below"

Regimes == {"EVENT", "SQUEEZE_BREAK", "BREAKOUT_EXPANSION", "TREND_ACCEL",
            "TREND_CONTINUATION", "PULLBACK", "COMPRESSION", "RANGE"}

\* What the engine distinguishes of a candle.
Markets ==
    [htf : {"up", "down", "range"},         \* context_htf.trend
     drift : {"up", "down", "range"},       \* close against EMA120
     strong : BOOLEAN,                      \* HTF trend: strength
     persistent : BOOLEAN,                  \* HTF trend: slope, persistence, structure
     grade : {"hard", "soft", "block"},     \* stability score
     confirmed : BOOLEAN,                   \* continuation confirmation
     reversal : SUBSET Sides,               \* sides the anti-reversal filter blocks
     ema : {"above", "below", "at"},        \* the close against EMA50
     emaPrev : {"above", "below", "at"},    \* the previous close against EMA50
     move : {"up", "down", "flat"},         \* the close against the previous close
     run : 0 .. 3,                          \* closes in a row on this side of EMA50
     bars : BOOLEAN,                        \* the pullback is long enough
     prevWindow : BOOLEAN,                  \* distance of the previous close to EMA50
     dist : 0 .. 3,                         \* distance to EMA50: to 1.0, 1.5, 2.2 ATR, beyond
     brk : Sides \cup {"NONE"},             \* edge of the 20-bar channel it closed beyond
     held : SUBSET Sides,                   \* edges accepted or retested
     twice : BOOLEAN,                       \* the previous close was beyond it, too
     vol : 0 .. 4,
     body : 0 .. 2,
     atr : 0 .. 3,
     widening : BOOLEAN,                    \* Bollinger bands are
     squeezed : BOOLEAN,                    \* Bollinger bands are
     narrow : BOOLEAN,                      \* the 20-bar channel is
     cont : SUBSET Sides,                   \* slope, distance, RSI and break level fit
     edges : SUBSET Sides,                  \* channel edges the close is near
     oversold : BOOLEAN,                    \* RSI
     event : BOOLEAN,                       \* a true range of EVENT_TR_ATR
     closeAt : Sides \cup {"NONE"},         \* end of its range the candle closed at
     slope : Sides \cup {"NONE"},           \* direction EMA50 has turned to
     swing : Sides \cup {"NONE"},           \* swing level the close is beyond
     touched : BOOLEAN,                     \* the candle reached EMA50
     spike : BOOLEAN,                       \* body from 0.65 on volume from 1.8
     quiet : BOOLEAN,                       \* percentile of the HTF volatility
     asia : BOOLEAN]                        \* session

\* Volume classes: 1 from 0.55, 2 from 0.65, 3 above 1.0, 4 from 1.2.
ContVolMin == 1
PullbackVolMin == 1
ReclaimVolMin == 2
RangeVolMax == 2
CompressionVolMax == 2
BreakoutVolMin == 4

\* Body classes: 1 from 0.40, 2 from 0.55.
ContBodyMin == 1
ConfirmBodyMin == 2

\* Classes of ATR against its average: 1 from 0.95, 2 from 1.0, 3 from 1.4.
ContAtrMin == 1
AverageAtr == 2
AccelAtrMin == 3

-----------------------------------------------------------------------------
(* The regime *)

TrendSide(m) == {side \in Sides : m.htf = Trend(side)}

Aligned(m, side) == m.ema = Beyond(side)

\* Consecutive closes on a side of EMA50.
Run(m, side) == IF Aligned(m, side) THEN m.run ELSE 0

DirectionalContext(m) ==
    \E side \in TrendSide(m) : m.strong /\ Aligned(m, side) /\ Run(m, side) >= 2

DirectionalPressure(m) ==
    \E side \in TrendSide(m) : (m.strong /\ Aligned(m, side)) \/ Run(m, side) >= 3

SqueezeBias(m) == IF m.htf = "range" THEN m.drift ELSE m.htf

\* Two closes beyond the channel out of tight bands, towards the bias.
SqueezeBreak(m, side) ==
    /\ m.squeezed /\ m.atr < AverageAtr
    /\ m.brk = side /\ m.twice
    /\ m.body >= ConfirmBodyMin
    /\ m.vol >= BreakoutVolMin
    /\ SqueezeBias(m) = Trend(side)

ImpulseCandle(m) == m.body >= ContBodyMin /\ m.vol >= ContVolMin

\* The rules of _compute_regime_state_5m, in the order they are tried.
RegimeRules(m) ==
    LET near == m.dist = 0
        withTrend == \E side \in TrendSide(m) : Aligned(m, side)
    IN << <<"EVENT", m.event>>,
          <<"SQUEEZE_BREAK", \E side \in Sides : SqueezeBreak(m, side)>>,
          <<"BREAKOUT_EXPANSION", m.brk # "NONE" /\ m.vol >= BreakoutVolMin>>,
          <<"TREND_ACCEL", (m.atr >= AccelAtrMin \/ m.widening) /\ near /\ withTrend>>,
          <<"TREND_CONTINUATION", near /\ withTrend /\ m.brk # "NONE" /\ ImpulseCandle(m)>>,
          <<"PULLBACK", DirectionalPressure(m) /\ ~near>>,
          <<"TREND_CONTINUATION", DirectionalContext(m) /\ near>>,
          <<"COMPRESSION", m.narrow /\ m.vol <= CompressionVolMax /\ ~DirectionalPressure(m)>>,
          <<"PULLBACK", m.htf # "range" /\ ~near>>,
          <<"RANGE", TRUE>> >>

\* What the first rule that holds says.
First(rules) ==
    LET holding == {i \in DOMAIN rules : rules[i][2]}
    IN rules[Min(holding)][1]

Regime(m) == First(RegimeRules(m))

-----------------------------------------------------------------------------
(* The gates: what each strategy asks for on each side *)

TrendStable(m, side) == m.htf = Trend(side) /\ m.persistent

\* _apply_trend_stability_gate: a soft score needs a confirmation and no reversal.
StabilityGate(m, side) ==
    \/ m.grade = "hard"
    \/ m.grade = "soft" /\ m.confirmed /\ side \notin m.reversal

ContinuationBase(m, side) ==
    /\ m.strong /\ TrendStable(m, side) /\ Aligned(m, side) /\ side \in m.cont
    /\ ImpulseCandle(m) /\ m.atr >= ContAtrMin

Continuation(m, side) == ContinuationBase(m, side) /\ StabilityGate(m, side)

TrendAccel(m, side) == Continuation(m, side) /\ m.atr >= AccelAtrMin

Impulse(m, side) == m.brk = side /\ m.vol >= BreakoutVolMin

Breakout(m, side) ==
    /\ Impulse(m, side) /\ side \in m.held
    /\ TrendStable(m, side) /\ side \notin m.reversal

\* The previous close was on the other side of EMA50, or on it.
Reclaimed(m, side) == Aligned(m, side) /\ m.emaPrev # Beyond(side)

\* The trigger candle of a pullback, whatever the length of the pullback.
PullbackTrigger(m, side) ==
    /\ m.prevWindow /\ m.dist <= 1 /\ Reclaimed(m, side) /\ m.move = Trend(side)
    /\ m.body >= ContBodyMin
    /\ Run(m, side) >= 2 \/ m.vol >= ReclaimVolMin
    /\ m.vol >= PullbackVolMin

\* A pullback that is too short may be taken early in a strong, calm trend.
EarlyPullback(m, side, eventBlock) ==
    /\ m.strong /\ side \notin m.reversal /\ m.grade # "block" /\ ~eventBlock

PullbackBase(m, side, eventBlock) ==
    /\ TrendStable(m, side) /\ PullbackTrigger(m, side)
    /\ m.bars \/ EarlyPullback(m, side, eventBlock)

Pullback(m, side, eventBlock) ==
    PullbackBase(m, side, eventBlock) /\ StabilityGate(m, side)

RangeReversion(m, side) ==
    /\ Regime(m) = "RANGE" /\ (m.htf = "range" \/ ~m.strong)
    /\ m.brk = "NONE" /\ side \in m.edges /\ m.vol <= RangeVolMax

RangeInTrendLong(m) ==
    /\ RangeInTrend /\ m.htf = "up" /\ m.oversold /\ m.brk = "NONE"
    /\ "LONG" \in m.edges /\ m.vol <= RangeVolMax /\ m.atr < AverageAtr

AllStrategies == <<"BREAKOUT_EXPANSION", "SQUEEZE_BREAK", "TREND_ACCEL", "CONTINUATION",
                   "PULLBACK_REENTRY", "RANGE_MEANREV", "RANGE_IN_TREND_LONG">>

Names == {AllStrategies[i] : i \in DOMAIN AllStrategies}

\* The sides on which a strategy passes.
PassedSides(name, m, eventBlock) ==
    LET Passes(side) ==
          CASE name = "BREAKOUT_EXPANSION" -> Breakout(m, side)
            [] name = "SQUEEZE_BREAK" -> SqueezeBreak(m, side)
            [] name = "TREND_ACCEL" -> TrendAccel(m, side)
            [] name = "CONTINUATION" -> Continuation(m, side)
            [] name = "PULLBACK_REENTRY" -> Pullback(m, side, eventBlock)
            [] name = "RANGE_MEANREV" -> RangeReversion(m, side)
            [] OTHER -> side = "LONG" /\ RangeInTrendLong(m)
    IN {side \in Sides : Passes(side)}

\* Long is looked at first.
SideTaken(sides) == IF "LONG" \in sides THEN "LONG" ELSE "SHORT"

-----------------------------------------------------------------------------
(* Routing: one strategy is selected *)

BO == "BREAKOUT_EXPANSION"
SQ == "SQUEEZE_BREAK"
TA == "TREND_ACCEL"
CO == "CONTINUATION"
PB == "PULLBACK_REENTRY"
MR == "RANGE_MEANREV"
RL == "RANGE_IN_TREND_LONG"

Priority == [regime \in Regimes |->
    CASE regime = "BREAKOUT_EXPANSION" -> <<BO, SQ, TA, CO, PB, MR, RL>>
      [] regime = "SQUEEZE_BREAK" -> <<SQ, BO, TA, CO, PB, MR, RL>>
      [] regime = "TREND_CONTINUATION" -> <<CO, TA, BO, PB, SQ, MR, RL>>
      [] regime = "TREND_ACCEL" -> <<TA, CO, BO, PB, SQ, MR, RL>>
      [] regime = "PULLBACK" -> <<PB, CO, TA, BO, SQ, MR, RL>>
      [] regime = "RANGE" -> <<MR, CO, BO, TA, PB, SQ, RL>>
      [] regime = "COMPRESSION" -> <<SQ, BO, CO, TA, PB, MR, RL>>
      [] OTHER -> <<BO, SQ, CO, TA, PB, MR, RL>>]

\* A range inside a trend: the close is on the trend's side and has been there.
DirectionalRange(m) ==
    /\ m.strong
    /\ \E side \in TrendSide(m) : m.ema \in {Beyond(side), "at"} /\ Run(m, side) >= 2

PullbackGeometry(m) ==
    \/ m.prevWindow \/ (m.htf # "range" /\ m.bars)
    \/ \E side \in TrendSide(m) : ~Reclaimed(m, side)

\* The order in which the strategies are tried.
Candidates(m) ==
    IF Regime(m) = "RANGE" /\ DirectionalRange(m)
      THEN (IF PullbackGeometry(m) THEN <<PB, CO>> ELSE <<CO, PB>>) \o <<TA, BO, SQ, MR, RL>>
      ELSE Priority[Regime(m)]

\* A strategy that passes may still not trade in a quiet market or in this session.
MarketGate(name, m) ==
    /\ ~(m.quiet /\ name \in {CO, TA})
    /\ ~(m.asia /\ name = BO)

Eligible(name, m, eventBlock) ==
    PassedSides(name, m, eventBlock) # {} /\ MarketGate(name, m)

\* The first candidate that passes, or "NONE".
Selected(m, eventBlock) ==
    LET order == Candidates(m)
        wanted == {i \in DOMAIN order : Eligible(order[i], m, eventBlock)}
    IN IF wanted = {} THEN "NONE" ELSE order[Min(wanted)]

\* Some validator refuses the candle for a structural reason (stability,
\* stability_block, confirm_soft, anti_reversal, accept).
StructuralReject(m, eventBlock) ==
    LET direction == IF m.htf = "up" THEN "LONG" ELSE "SHORT"
    IN  \/ m.held = {}
        \/ \E side \in Sides : Impulse(m, side) /\ ~TrendStable(m, side)
        \/ ~TrendStable(m, direction)
        \/ ContinuationBase(m, direction) /\ ~StabilityGate(m, direction)
        \/ \E side \in TrendSide(m) :
               \/ side \in m.reversal
               \/ PullbackBase(m, side, eventBlock) /\ ~StabilityGate(m, side)
=============================================================================
