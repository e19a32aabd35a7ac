------------------------------ MODULE TradePlan ------------------------------
(***************************************************************************)
(* From a decision to an order: where the decision engine places stop and  *)
(* targets, and how app/risk/risk_manager.py and position_sizing.py refuse *)
(* a decision or turn it into a plan with a quantity.                      *)
(*                                                                         *)
(* Quantities are counted in steps and prices in ticks.  The code computes *)
(* both with floats: a share or a difference that is a whole number of     *)
(* steps may come out just below it, and a comparison of equals may go     *)
(* either way, so the operators that depend on it return sets of outcomes. *)
(***************************************************************************)
EXTENDS Payload

CONSTANTS
    RiskPct,        \* RISK_PER_TRADE_PCT
    Leverage,       \* LEVERAGE
    MinQty,         \* the exchange's least quantity, in steps
    Tp1Pct,         \* TP1_FRACTION
    EarlyPct,       \* EARLY_ENTRY_SIZE_MULTIPLIER
    SoftPct,        \* the size on a softly stable trend
    MaxLosses,      \* RISK_MAX_CONSEC_LOSSES
    MaxDrawdownPct, \* RISK_MAX_DD_PCT_DAY
    Atr             \* atr14, in ticks

ASSUME TradePlanAssumption ==
    /\ {RiskPct, Tp1Pct, EarlyPct, SoftPct} \subseteq 1 .. 99
    /\ {Leverage, MinQty, MaxLosses, MaxDrawdownPct, Atr} \subseteq Nat \ {0}

Percent(part, whole) == (part * whole) \div 100

-----------------------------------------------------------------------------
(* The prices of a decision (decision_engine.py).                          *)

Toward(side, price, distance) ==
    IF side = "LONG" THEN price + distance ELSE price - distance

NoDecision == [intent |-> "HOLD", early |-> FALSE, soft |-> FALSE,
               entry |-> Unknown, stop |-> Unknown, targets |-> <<>>]

\* _apply_risk: the stop at a multiple of the ATR, one target or two; reward
\* is the target's distance in tenths of the risk.
ApplyRisk(side, entry, risk, reward, two, soft) ==
    LET target(share) == Toward(side, entry, (share * reward * risk) \div 100)
    IN  [intent |-> side, early |-> FALSE, soft |-> soft, entry |-> entry,
         stop |-> Toward(side, entry, -risk),
         targets |-> IF two THEN <<target(6), target(10)>> ELSE <<target(10)>>]

\* _build_early_trade_plan: the stop behind the nearest level, or at a share
\* of the ATR when that is nearer.
EitherSide(side, price, levels) == levels \ {price}    \* mutant: any other level

Behind(side, price, levels) ==
    {l \in levels : IF side = "LONG" THEN l < price ELSE l > price}

Nearest(side, levels) == IF side = "LONG" THEN Max(levels) ELSE Min(levels)

EarlyStop(side, features) ==
    LET price == features.close
        levels == IF side = "LONG"
                    THEN {features.ema, features.swing.low, features.channel.high}
                    ELSE {features.ema, features.swing.high, features.channel.low}
        behind == Behind(side, price, levels \ {Unknown})
        fallback == Toward(side, price, -Percent(90, Atr))
    IN  IF behind = {}
          THEN fallback
          ELSE Nearest(side, {fallback, Toward(side, Nearest(side, behind), -Percent(15, Atr))})

EarlyPlan(side, features, reward) ==
    LET stop == EarlyStop(side, features)
        risk == IF side = "LONG" THEN features.close - stop ELSE stop - features.close
    IN  [intent |-> side, early |-> TRUE, soft |-> FALSE, entry |-> features.close,
         stop |-> stop,
         targets |-> <<Toward(side, features.close, (reward * risk) \div 10)>>]

-----------------------------------------------------------------------------
(* check_kill_switches.  Conditions are what the payload shows besides:    *)
(* a wide spread, an ATR out of proportion.                                *)

KillSwitches(daily, killed, positions, conditions, candle, now) ==
    conditions
    \cup {r \in {"kill_switch_engaged"} : killed}
    \cup {r \in {"daily_drawdown_exceeded"} :
            /\ daily.start > 0
            /\ -Min({0, daily.pnl}) * 100 >= MaxDrawdownPct * daily.start}
    \cup {r \in {"consecutive_losses_exceeded"} : daily.streak >= MaxLosses}
    \cup {r \in {"multiple_positions"} : positions > 1}
    \cup {r \in {"stale_data"} : candle < now - MaxAge}

-----------------------------------------------------------------------------
(* Quantities.                                                             *)

\* calculate_position_size, and 0 for every reason to refuse.
PositionSize(funds, entry, stop) ==
    LET risk == IF entry > stop THEN entry - stop ELSE stop - entry
        qty == Percent(RiskPct, funds) \div risk
    IN  IF risk = 0 \/ qty < MinQty \/ qty * entry > Leverage * funds THEN 0 ELSE qty

\* round_to_step of a quantity given in hundredths of a step.
RoundToStep(hundredths) ==
    {hundredths \div 100}
    \cup {q \in {hundredths \div 100 - 1} : hundredths % 100 = 0 /\ q >= 0}

\* A share of the size, raised to the least quantity.
Reduced(qty, applies, share) ==
    IF applies THEN {Max({q, MinQty}) : q \in RoundToStep(qty * share)} ELSE {qty}

Sizes(payload, decision) ==
    LET full == PositionSize(payload.funds, decision.entry, decision.stop)
    IN  IF full = 0
          THEN {}
          ELSE UNION {Reduced(q, decision.early, EarlyPct) : q \in Reduced(full, decision.soft, SoftPct)}

Distance(a, b) == IF a < b THEN b - a ELSE a - b

Refuse(reason) == [shares |-> <<>>, reason |-> reason]

\* Mutant: the sum of the shares is not looked at.
SharesUnsettled(qty) ==
    {[shares |-> <<one, two>>, reason |-> "none"] :
        one \in RoundToStep(qty * Tp1Pct), two \in RoundToStep(qty * (100 - Tp1Pct))}

\* The shares of two targets.  Both are rounded down; the second is taken
\* again from the first when their sum is more than a step off, which a sum
\* that is off by exactly one step may or may not be.
Shares(qty) ==
    LET Settled(one, two) ==
            {s \in {two} : Distance(one + two, qty) <= 1}
            \cup {s \in RoundToStep((qty - one) * 100) : Distance(one + two, qty) >= 1}
        Judged(one, two) ==
            IF one < MinQty \/ two < MinQty
              THEN {Refuse("min_qty_not_met_after_split")}
              ELSE {IF one + s = qty THEN [shares |-> <<one, s>>, reason |-> "none"]
                                     ELSE Refuse("qty_split_mismatch") : s \in Settled(one, two)}
    IN  UNION {UNION {Judged(one, two) : two \in RoundToStep(qty * (100 - Tp1Pct))}
               : one \in RoundToStep(qty * Tp1Pct)}

-----------------------------------------------------------------------------
(* create_trade_plan: what it may answer, a plan or the reasons against it *)

NoPlan == [action |-> "NONE", side |-> "NONE", qty |-> 0, shares |-> <<>>,
           entry |-> Unknown, stop |-> Unknown, targets |-> <<>>]

Rejected(reasons) == [plan |-> NoPlan, rejects |-> reasons]

Accepted(plan) == [plan |-> plan, rejects |-> {}]

\* The exits of an open position: its close, and a stop moved to its entry.
ExitPlans(payload, decision) ==
    IF payload.position.qty = 0
      THEN {Rejected({"missing_or_invalid_position"})}
      ELSE {Accepted([NoPlan EXCEPT
                        !.action = decision.intent, !.side = payload.position.side,
                        !.qty = IF decision.intent = "CLOSE" THEN payload.position.qty ELSE 0,
                        !.stop = decision.stop])}

PricesOf(decision) == {decision.targets[i] : i \in DOMAIN decision.targets}

SumOf(shares) == IF Len(shares) = 1 THEN shares[1] ELSE shares[1] + shares[2]

Entry(decision, shares) ==
    [action |-> "OPEN", side |-> decision.intent, qty |-> SumOf(shares),
     shares |-> shares, entry |-> decision.entry, stop |-> decision.stop,
     targets |-> decision.targets]

EntryPlans(payload, decision) ==
    IF Min({decision.entry, decision.stop} \cup PricesOf(decision)) <= 0
      THEN {Rejected({"missing_or_invalid_price"})}
      ELSE IF Sizes(payload, decision) = {}
      THEN {Rejected({"size"})}
      ELSE UNION {IF Len(decision.targets) < 2
                    THEN {Accepted(Entry(decision, <<qty>>))}
                    ELSE {IF s.reason = "none" THEN Accepted(Entry(decision, s.shares))
                                               ELSE Rejected({s.reason}) : s \in Shares(qty)}
                  : qty \in Sizes(payload, decision)}

CreateTradePlan(payload, decision, cooling, switches) ==
    IF decision.intent = "HOLD" THEN {Rejected({"invalid_intent"})}
    ELSE IF decision.intent \in {"LONG", "SHORT"} /\ cooling THEN {Rejected({"cooldown_active"})}
    ELSE IF switches # {} THEN {Rejected(switches)}
    ELSE IF decision.intent \in {"CLOSE", "UPDATE_SLTP"} THEN ExitPlans(payload, decision)
    ELSE EntryPlans(payload, decision)
=============================================================================
