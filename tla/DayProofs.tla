------------------------------ MODULE DayProofs ------------------------------
(***************************************************************************)
(* Theorems about TradingDay: whatever the account answers and wherever the*)
(* levels are, a plan stays within the budget, its shares add up and its   *)
(* prices protect it, for every value of the constants.                    *)
(***************************************************************************)
EXTENDS TradingDay, WellFoundedInduction, TLAPS

USE DEF Unknown

-----------------------------------------------------------------------------
(* Extremes of sets of numbers.                                            *)

\* A set of naturals has a least element.
LEMMA LeastExists ==
    ASSUME NEW S \in SUBSET Nat, S # {}
    PROVE  \E x \in S : \A y \in S : x <= y
<1>1. PICK x \in S : \A y \in S : ~ (<<y, x>> \in OpToRel(<, Nat))
  BY WFMin, NatLessThanWellFounded
<1>2. \A y \in S : ~ (y < x)
  BY <1>1 DEF OpToRel
<1> QED
  BY <1>2

\* A bounded one has a greatest element.
LEMMA GreatestExists ==
    ASSUME NEW S \in SUBSET Nat, S # {}, NEW b \in Nat, \A y \in S : y <= b
    PROVE  \E x \in S : \A y \in S : x >= y
<1> DEFINE T == {b - y : y \in S}
<1>1. T \in SUBSET Nat /\ T # {}
  <2>1. \A y \in S : b - y \in Nat
    OBVIOUS
  <2> QED
    BY <2>1
<1>2. PICK z \in T : \A y \in T : z <= y
  BY <1>1, LeastExists
<1>3. PICK x \in S : z = b - x
  OBVIOUS
<1>4. \A y \in S : b - x <= b - y
  BY <1>2, <1>3
<1> QED
  BY <1>4

LEMMA MinOfNaturals ==
    ASSUME NEW S \in SUBSET Nat, S # {}
    PROVE  Min(S) \in S /\ \A y \in S : Min(S) <= y
BY LeastExists DEF Min

LEMMA MaxOfBounded ==
    ASSUME NEW S \in SUBSET Nat, S # {}, NEW b \in Nat, \A y \in S : y <= b
    PROVE  Max(S) \in S /\ \A y \in S : y <= Max(S)
BY GreatestExists DEF Max

LEMMA MinOfTwo ==
    ASSUME NEW a \in Int, NEW b \in Int
    PROVE  Min({a, b}) \in {a, b} /\ Min({a, b}) <= a /\ Min({a, b}) <= b
<1>1. \E x \in {a, b} : \A y \in {a, b} : x <= y
  OBVIOUS
<1> QED
  BY <1>1 DEF Min

LEMMA MaxOfTwo ==
    ASSUME NEW a \in Int, NEW b \in Int
    PROVE  Max({a, b}) \in {a, b} /\ Max({a, b}) >= a /\ Max({a, b}) >= b
<1>1. \E x \in {a, b} : \A y \in {a, b} : x >= y
  OBVIOUS
<1> QED
  BY <1>1 DEF Max

\* Finitely many naturals have a bound.
LEMMA BoundExists ==
    ASSUME NEW n \in Nat, NEW f \in [1 .. n -> Nat]
    PROVE  \E b \in Nat : \A i \in 1 .. n : f[i] <= b
<1> DEFINE Bounded(k) == \E b \in Nat : \A i \in 1 .. k : f[i] <= b
           Bad == {k \in 0 .. n : ~ Bounded(k)}
<1> HIDE DEF Bounded
<1>1. SUFFICES ASSUME ~ Bounded(n) PROVE FALSE
  BY DEF Bounded
<1>2. n \in Bad /\ Bad \in SUBSET Nat
  BY <1>1
<1> HIDE DEF Bad
<1>3. PICK k \in Bad : \A j \in Bad : k <= j
  BY <1>2, LeastExists
<1> USE DEF Bad
<1>4. k # 0
  <2>1. Bounded(0)
    <3>1. \A i \in 1 .. 0 : f[i] <= 0
      OBVIOUS
    <3> QED
      BY <3>1 DEF Bounded
  <2> QED
    BY <2>1
<1>5. Bounded(k - 1)
  BY <1>3, <1>4
<1>6. PICK b \in Nat : \A i \in 1 .. k - 1 : f[i] <= b
  BY <1>5 DEF Bounded
<1>7. \A i \in 1 .. k : f[i] <= b + f[k]
  BY <1>4, <1>6
<1>8. b + f[k] \in Nat
  BY <1>4
<1> QED
  BY <1>7, <1>8 DEF Bounded

-----------------------------------------------------------------------------
(* Levels.                                                                 *)

Levels == Nat \cup {Unknown}

FeaturesOK(f) ==
    /\ f.close \in Nat /\ f.ema \in Nat
    /\ {f.channel.high, f.channel.low, f.swing.high, f.swing.low} \subseteq Levels

\* A window of candles, the last one of which just closed.
Windows == {w \in Seq(CandleSet) : Len(w) = Period}

LEMMA CandlesAreNumbers ==
    ASSUME NEW c \in CandleSet
    PROVE  c.low \in Nat /\ c.high \in Nat /\ c.close \in Nat
BY TradingDayAssumption DEF CandlesOf

LEMMA WindowMoves ==
    ASSUME NEW w \in Windows, NEW c \in CandleSet
    PROVE  Append(Tail(w), c) \in Windows
BY PayloadAssumption DEF Windows

\* The extremes of a stretch of a window are among its candles.
LEMMA StretchExtremes ==
    ASSUME NEW w \in Windows, NEW a \in 1 .. Period, NEW b \in a .. Period
    PROVE  /\ Max({c.high : c \in Within(w, a, b)}) \in Nat
           /\ Min({c.low : c \in Within(w, a, b)}) \in Nat
<1> DEFINE Highs == {c.high : c \in Within(w, a, b)}
           Lows == {c.low : c \in Within(w, a, b)}
           high == [i \in 1 .. Period |-> w[i].high]
<1>1. \A i \in 1 .. Period : w[i] \in CandleSet
  BY DEF Windows
<1>2. Within(w, a, b) # {} /\ \A c \in Within(w, a, b) : c \in CandleSet
  BY <1>1, PayloadAssumption DEF Within
<1>3. Highs \in SUBSET Nat /\ Highs # {} /\ Lows \in SUBSET Nat /\ Lows # {}
  BY <1>2, CandlesAreNumbers
<1>4. high \in [1 .. Period -> Nat]
  BY <1>1, CandlesAreNumbers
<1>5. PICK bound \in Nat : \A i \in 1 .. Period : high[i] <= bound
  BY <1>4, BoundExists, PayloadAssumption
<1>6. \A y \in Highs : y <= bound
  <2>1. \A i \in a .. b : w[i].high <= bound
    BY <1>5, PayloadAssumption
  <2> QED
    BY <2>1 DEF Within
<1> HIDE DEF Highs, Lows
<1>7. Max(Highs) \in Nat
  BY <1>3, <1>6, MaxOfBounded
<1>8. Min(Lows) \in Nat
  BY <1>3, MinOfNaturals
<1> QED
  BY <1>7, <1>8 DEF Highs, Lows

LEMMA FeaturesAreNumbers ==
    ASSUME NEW w \in Windows, NEW ema \in Emas
    PROVE  FeaturesOK(Features(w, ema))
<1>1. Len(w) = Period /\ Period \in Nat \ {0} /\ SwingM \in Nat \ {0}
  BY PayloadAssumption DEF Windows
<1>2. Closed(w).close \in Nat
  <2>1. Closed(w) \in CandleSet
    BY <1>1 DEF Closed, Windows
  <2> QED
    BY <2>1, CandlesAreNumbers
<1>3. Channel(w).high \in Nat /\ Channel(w).low \in Nat
  <2>1. Len(w) - Period + 1 \in 1 .. Period /\ Len(w) \in Len(w) - Period + 1 .. Period
    BY <1>1
  <2>2. /\ Max({c.high : c \in Within(w, Len(w) - Period + 1, Len(w))}) \in Nat
        /\ Min({c.low : c \in Within(w, Len(w) - Period + 1, Len(w))}) \in Nat
    BY <2>1, StretchExtremes
  <2> QED
    BY <1>1, <2>2 DEF Channel
<1>4. Swing(w).high \in Levels /\ Swing(w).low \in Levels
  <2>1. CASE Len(w) < SwingM + 1
    BY <2>1 DEF Swing, Levels
  <2>2. CASE ~ (Len(w) < SwingM + 1)
    <3>1. Len(w) - SwingM \in 1 .. Period /\ Len(w) - 1 \in Len(w) - SwingM .. Period
      BY <1>1, <2>2
    <3>2. /\ Max({c.high : c \in Within(w, Len(w) - SwingM, Len(w) - 1)}) \in Nat
          /\ Min({c.low : c \in Within(w, Len(w) - SwingM, Len(w) - 1)}) \in Nat
      BY <3>1, StretchExtremes
    <3> QED
      BY <2>2, <3>2 DEF Swing, Levels
  <2> QED
    BY <2>1, <2>2
<1>5. ema \in Nat
  BY TradingDayAssumption
<1> QED
  BY <1>2, <1>3, <1>4, <1>5 DEF FeaturesOK, Features, Levels

-----------------------------------------------------------------------------
(* The prices of a decision.                                               *)

FarthestStop == Percent(90, Atr)

LEMMA FarthestStopIsNatural == FarthestStop \in Nat /\ Percent(15, Atr) \in Nat
BY TradePlanAssumption DEF FarthestStop, Percent

\* An early stop is not beyond the price, and no further than its fallback.
LEMMA EarlyStopBounds ==
    ASSUME NEW f, FeaturesOK(f), NEW side \in {"LONG", "SHORT"}
    PROVE  /\ EarlyStop(side, f) \in Int
           /\ side = "LONG" => /\ f.close - FarthestStop <= EarlyStop(side, f)
                               /\ EarlyStop(side, f) <= f.close
           /\ side = "SHORT" => /\ f.close <= EarlyStop(side, f)
                                /\ EarlyStop(side, f) <= f.close + FarthestStop
<1> DEFINE levels == IF side = "LONG"
                       THEN {f.ema, f.swing.low, f.channel.high}
                       ELSE {f.ema, f.swing.high, f.channel.low}
           behind == Behind(side, f.close, levels \ {Unknown})
           fallback == Toward(side, f.close, -FarthestStop)
           beyond == Toward(side, Nearest(side, behind), -Percent(15, Atr))
<1>1. f.close \in Nat /\ FarthestStop \in Nat /\ Percent(15, Atr) \in Nat
  BY FarthestStopIsNatural DEF FeaturesOK
<1>2. EarlyStop(side, f) = IF behind = {} THEN fallback ELSE Nearest(side, {fallback, beyond})
  BY DEF EarlyStop, FarthestStop
<1>3. behind \in SUBSET Nat
  BY DEF FeaturesOK, Levels, Behind
<1> HIDE DEF levels, behind, fallback, beyond
<1>4. CASE side = "LONG"
  <2>1. fallback = f.close - FarthestStop
    BY <1>1, <1>4 DEF Toward, fallback
  <2>2. CASE behind = {}
    BY <1>1, <1>2, <1>4, <2>1, <2>2
  <2>3. CASE behind # {}
    <3>1. \A l \in behind : l <= f.close
      BY <1>1, <1>3, <1>4 DEF Behind, behind
    <3>2. Max(behind) \in Nat /\ Max(behind) <= f.close
      BY <1>1, <1>3, <2>3, <3>1, MaxOfBounded
    <3>3. beyond \in Int /\ beyond <= f.close
      BY <1>1, <1>4, <3>2 DEF Toward, Nearest, beyond
    <3>4. /\ Max({fallback, beyond}) \in {fallback, beyond}
          /\ Max({fallback, beyond}) >= fallback
      <4>1. fallback \in Int
        BY <1>1, <2>1
      <4> QED
        BY <3>3, <4>1, MaxOfTwo
    <3>5. EarlyStop(side, f) = Max({fallback, beyond})
      BY <1>2, <1>4, <2>3 DEF Nearest
    <3> QED
      BY <1>1, <1>4, <2>1, <3>3, <3>4, <3>5
  <2> QED
    BY <2>2, <2>3
<1>5. CASE side = "SHORT"
  <2>1. fallback = f.close + FarthestStop
    BY <1>1, <1>5 DEF Toward, fallback
  <2>2. CASE behind = {}
    BY <1>1, <1>2, <1>5, <2>1, <2>2
  <2>3. CASE behind # {}
    <3>1. \A l \in behind : f.close <= l
      BY <1>1, <1>3, <1>5 DEF Behind, behind
    <3>2. Min(behind) \in Nat /\ f.close <= Min(behind)
      BY <1>1, <1>3, <2>3, <3>1, MinOfNaturals
    <3>3. beyond \in Int /\ f.close <= beyond
      BY <1>1, <1>5, <3>2 DEF Toward, Nearest, beyond
    <3>4. /\ Min({fallback, beyond}) \in {fallback, beyond}
          /\ Min({fallback, beyond}) <= fallback
      BY <1>1, <2>1, <3>3, MinOfTwo
    <3>5. EarlyStop(side, f) = Min({fallback, beyond})
      BY <1>2, <1>5, <2>3 DEF Nearest
    <3> QED
      BY <1>1, <1>5, <2>1, <3>3, <3>4, <3>5
  <2> QED
    BY <2>2, <2>3
<1> QED
  BY <1>4, <1>5

\* Prices in the order in which a position meets them.
Ordered(side, near, far) == IF side = "LONG" THEN near < far ELSE near > far

\* What the engine's price rules give: numbers, one target or two, a stop no
\* further than a rule puts it, and all of them in order unless the stop is
\* at the price itself.
Priced(d) ==
    /\ d.intent \in {"LONG", "SHORT"} /\ d.early \in BOOLEAN /\ d.soft \in BOOLEAN
    /\ d.entry \in Nat /\ d.stop \in Int
    /\ d.targets \in Seq(Int) /\ (Len(d.targets) = 1 \/ Len(d.targets) = 2)
    /\ d.early => Len(d.targets) = 1
    /\ Distance(d.entry, d.stop) \in Risks \/ Distance(d.entry, d.stop) <= FarthestStop
    /\ d.entry # d.stop =>
          /\ Ordered(d.intent, d.stop, d.entry)
          /\ Ordered(d.intent, d.entry, d.targets[1])
          /\ Len(d.targets) = 2 => Ordered(d.intent, d.targets[1], d.targets[2])

LEMMA RiskIsPriced ==
    ASSUME NEW side \in {"LONG", "SHORT"}, NEW entry \in Nat, NEW risk \in Risks,
           NEW soft \in BOOLEAN
    PROVE  /\ Priced(ApplyRisk(side, entry, risk, 15, FALSE, soft))
           /\ Priced(ApplyRisk(side, entry, risk, 22, TRUE, soft))
<1>1. risk \in Nat \ {0}
  BY TradingDayAssumption
<1>2. /\ (10 * 15 * risk) \div 100 >= 1
      /\ (6 * 22 * risk) \div 100 >= 1
      /\ (6 * 22 * risk) \div 100 < (10 * 22 * risk) \div 100
  BY <1>1
<1>3. Priced(ApplyRisk(side, entry, risk, 15, FALSE, soft))
  BY <1>1, <1>2 DEF Priced, ApplyRisk, Toward, Distance, Ordered
<1>4. Priced(ApplyRisk(side, entry, risk, 22, TRUE, soft))
  BY <1>1, <1>2 DEF Priced, ApplyRisk, Toward, Distance, Ordered
<1> QED
  BY <1>3, <1>4

LEMMA EarlyIsPriced ==
    ASSUME NEW f, FeaturesOK(f), NEW side \in {"LONG", "SHORT"}
    PROVE  Priced(EarlyPlan(side, f, 16))
<1> DEFINE stop == EarlyStop(side, f)
           risk == IF side = "LONG" THEN f.close - stop ELSE stop - f.close
<1>1. f.close \in Nat /\ FarthestStop \in Nat /\ stop \in Int
  BY EarlyStopBounds, FarthestStopIsNatural DEF FeaturesOK
<1>2. /\ risk \in Nat /\ risk <= FarthestStop
      /\ Distance(f.close, stop) = risk
      /\ stop # f.close => risk >= 1 /\ Ordered(side, stop, f.close)
  BY <1>1, EarlyStopBounds DEF Distance, Ordered
<1>3. (16 * risk) \div 10 \in Int /\ (risk >= 1 => (16 * risk) \div 10 >= 1)
  BY <1>2
<1> DEFINE target == Toward(side, f.close, (16 * risk) \div 10)
<1>4. target \in Int /\ (stop # f.close => Ordered(side, f.close, target))
  BY <1>1, <1>2, <1>3 DEF Toward, Ordered
<1>5. EarlyPlan(side, f, 16) = [intent |-> side, early |-> TRUE, soft |-> FALSE,
                                entry |-> f.close, stop |-> stop, targets |-> <<target>>]
  BY DEF EarlyPlan
<1>6. Distance(f.close, stop) <= FarthestStop
  BY <1>2
<1>7. <<target>> \in Seq(Int) /\ Len(<<target>>) = 1 /\ <<target>>[1] = target
  BY <1>4
<1> HIDE DEF target, risk, stop
<1>8. stop # f.close => Ordered(side, stop, f.close) /\ Ordered(side, f.close, target)
  BY <1>2, <1>4
<1> DEFINE e == EarlyPlan(side, f, 16)
<1>9. /\ e.intent = side /\ e.early = TRUE /\ e.soft = FALSE /\ e.entry = f.close
      /\ e.stop = stop /\ e.targets = <<target>>
  BY <1>5
<1> HIDE DEF e
<1>10. e.intent \in {"LONG", "SHORT"} /\ e.early \in BOOLEAN /\ e.soft \in BOOLEAN
  BY <1>9
<1>11. e.entry \in Nat /\ e.stop \in Int
  BY <1>1, <1>9
<1>12. e.targets \in Seq(Int) /\ Len(e.targets) = 1 /\ e.targets[1] = target
  BY <1>7, <1>9
<1>13. Distance(e.entry, e.stop) <= FarthestStop
  BY <1>6, <1>9
<1>14. e.entry # e.stop => /\ Ordered(e.intent, e.stop, e.entry)
                           /\ Ordered(e.intent, e.entry, e.targets[1])
  BY <1>8, <1>9, <1>12
<1>15. Priced(e)
  <2>1. Len(e.targets) # 2
    BY <1>12
  <2> QED
    BY <1>10, <1>11, <1>12, <1>13, <1>14, <2>1, Zenon DEF Priced
<1> QED
  BY <1>15 DEF e

LEMMA EntriesArePriced ==
    ASSUME NEW f, FeaturesOK(f), NEW d \in EntryDecisions(f)
    PROVE  Priced(d)
<1>1. f.close \in Nat
  BY DEF FeaturesOK
<1>2. PICK side \in {"LONG", "SHORT"} :
           \/ d \in RiskDecisions(side, f.close, FALSE)
           \/ d \in RiskDecisions(side, f.close, SoftSizing)
           \/ d = EarlyPlan(side, f, 16)
  BY DEF EntryDecisions
<1>3. ASSUME NEW soft \in BOOLEAN, d \in RiskDecisions(side, f.close, soft) PROVE Priced(d)
  BY <1>1, <1>3, RiskIsPriced DEF RiskDecisions
<1>4. SoftSizing \in BOOLEAN /\ FALSE \in BOOLEAN
  BY TradingDayAssumption
<1> QED
  BY <1>2, <1>3, <1>4, EarlyIsPriced

-----------------------------------------------------------------------------
(* Quantities.                                                             *)

LEMMA DivisionBounds ==
    ASSUME NEW a \in Int, NEW b \in Nat \ {0}
    PROVE  a \div b \in Int /\ b * (a \div b) <= a
OBVIOUS

LEMMA ProductsGrow ==
    ASSUME NEW a \in Int, NEW b \in Int, a <= b, NEW c \in Nat
    PROVE  a * c <= b * c
OBVIOUS

\* A size that is not refused risks no more than the share of the funds, ties
\* up no more than the leverage allows, and can be ordered.
LEMMA PositionSizeFacts ==
    ASSUME NEW funds \in Int, NEW entry \in Nat, NEW stop \in Int,
           PositionSize(funds, entry, stop) # 0
    PROVE  LET full == PositionSize(funds, entry, stop)
           IN  /\ full \in Nat /\ full >= MinQty
               /\ entry # stop
               /\ full * Distance(entry, stop) * 100 <= RiskPct * funds
               /\ full * entry <= Leverage * funds
<1> DEFINE risk == IF entry > stop THEN entry - stop ELSE stop - entry
           money == Percent(RiskPct, funds)
           qty == money \div risk
<1>1. risk \in Nat /\ risk = Distance(entry, stop)
  BY DEF Distance
<1>2. PositionSize(funds, entry, stop) =
          IF risk = 0 \/ qty < MinQty \/ qty * entry > Leverage * funds THEN 0 ELSE qty
  BY DEF PositionSize
<1>3. money \in Int /\ 100 * money <= RiskPct * funds
  <2>1. RiskPct * funds \in Int
    BY TradePlanAssumption
  <2>2. money = (RiskPct * funds) \div 100
    BY DEF Percent
  <2> QED
    BY <2>1, <2>2, DivisionBounds
<1>4. MinQty \in Nat \ {0} /\ Leverage \in Nat
  BY TradePlanAssumption
<1>5. risk = 0 => entry = stop
  OBVIOUS
<1> HIDE DEF money, risk
<1>6. risk # 0 /\ ~ (qty < MinQty) /\ ~ (qty * entry > Leverage * funds)
  BY <1>2
<1>7. qty \in Int /\ risk * qty <= money
  BY <1>1, <1>3, <1>6, DivisionBounds
<1>8. PositionSize(funds, entry, stop) = qty
  BY <1>2, <1>6
<1> HIDE DEF qty
<1>9. qty \in Nat /\ qty >= MinQty /\ qty * entry <= Leverage * funds
  BY <1>4, <1>6, <1>7
<1>10. qty * risk * 100 <= RiskPct * funds
  <2>1. qty * risk = risk * qty /\ risk * qty \in Int
    BY <1>1, <1>7
  <2>2. RiskPct * funds \in Int
    BY TradePlanAssumption
  <2> DEFINE product == risk * qty
             budget == RiskPct * funds
  <2>3. product \in Int /\ budget \in Int /\ product <= money /\ 100 * money <= budget
    BY <1>3, <1>7, <2>1, <2>2
  <2> HIDE DEF product, budget
  <2>4. product * 100 <= budget
    BY <1>3, <2>3
  <2> QED
    BY <2>1, <2>4 DEF product, budget
<1>11. entry # stop
  <2>1. entry = stop => risk = 0
    BY DEF risk
  <2> QED
    BY <1>6, <2>1
<1> QED
  BY <1>1, <1>8, <1>9, <1>10, <1>11

LEMMA RoundToStepFacts ==
    ASSUME NEW hundredths \in Nat, NEW q \in RoundToStep(hundredths)
    PROVE  q \in Nat /\ 100 * q <= hundredths
BY DEF RoundToStep

\* A reduced size is no larger, and can still be ordered.
LEMMA ReducedFacts ==
    ASSUME NEW qty \in Nat, qty >= MinQty, NEW applies \in BOOLEAN,
           NEW share \in 1 .. 99, NEW r \in Reduced(qty, applies, share)
    PROVE  r \in Nat /\ MinQty <= r /\ r <= qty
<1>1. MinQty \in Nat
  BY TradePlanAssumption
<1>2. CASE ~ applies
  BY <1>1, <1>2 DEF Reduced
<1>3. CASE applies
  <2>1. PICK q \in RoundToStep(qty * share) : r = Max({q, MinQty})
    BY <1>3 DEF Reduced
  <2>2. qty * share \in Nat /\ qty * share <= 100 * qty
    OBVIOUS
  <2>3. q \in Nat /\ 100 * q <= qty * share
    BY <2>2, RoundToStepFacts
  <2>4. q <= qty
    <3> DEFINE product == qty * share
    <3>1. product \in Nat /\ product <= 100 * qty /\ 100 * q <= product
      BY <2>2, <2>3
    <3> HIDE DEF product
    <3> QED
      BY <2>3, <3>1
  <2>5. r \in {q, MinQty} /\ r >= MinQty
    <3>1. q \in Int /\ MinQty \in Int
      BY <1>1, <2>3
    <3>2. Max({q, MinQty}) \in {q, MinQty} /\ Max({q, MinQty}) >= MinQty
      BY <3>1, MaxOfTwo
    <3> QED
      BY <2>1, <3>2
  <2> QED
    BY <1>1, <2>3, <2>4, <2>5
<1> QED
  BY <1>2, <1>3

LEMMA SizesFacts ==
    ASSUME NEW p, p.funds \in Int, NEW d, Priced(d), NEW q \in Sizes(p, d)
    PROVE  LET full == PositionSize(p.funds, d.entry, d.stop)
           IN  /\ full # 0 /\ q \in Nat /\ MinQty <= q /\ q <= full
               /\ ~ d.early => q \in {full} \cup Reduced(full, TRUE, SoftPct)
<1> DEFINE full == PositionSize(p.funds, d.entry, d.stop)
<1>1. full # 0 /\ q \in UNION {Reduced(r, d.early, EarlyPct) : r \in Reduced(full, d.soft, SoftPct)}
  BY DEF Sizes
<1>2. PICK r \in Reduced(full, d.soft, SoftPct) : q \in Reduced(r, d.early, EarlyPct)
  BY <1>1
<1>3. d.early \in BOOLEAN /\ d.soft \in BOOLEAN
  BY Zenon DEF Priced
<1>4. full \in Nat /\ full >= MinQty
  <2>1. d.entry \in Nat /\ d.stop \in Int
    BY Zenon DEF Priced
  <2> QED
    BY <1>1, <2>1, PositionSizeFacts
<1> HIDE DEF full
<1>5. r \in Nat /\ MinQty <= r /\ r <= full
  BY <1>2, <1>3, <1>4, ReducedFacts, TradePlanAssumption
<1>6. q \in Nat /\ MinQty <= q /\ q <= r
  BY <1>2, <1>3, <1>5, ReducedFacts, TradePlanAssumption
<1>7. ~ d.early => q \in {full} \cup Reduced(full, TRUE, SoftPct)
  BY <1>2, <1>3 DEF Reduced
<1>8. q <= full
  BY <1>4, <1>5, <1>6
<1> QED
  BY <1>1, <1>6, <1>7, <1>8 DEF full

\* The shares of two targets, when they are not refused.
LEMMA SharesFacts ==
    ASSUME NEW qty \in Nat, NEW s \in Shares(qty), s.reason = "none"
    PROVE  \E one \in Nat, two \in Nat :
              s.shares = <<one, two>> /\ one + two = qty /\ MinQty <= one /\ MinQty <= two
<1> DEFINE Settled(one, two) ==
               {t \in {two} : Distance(one + two, qty) <= 1}
               \cup {t \in RoundToStep((qty - one) * 100) : Distance(one + two, qty) >= 1}
           Judged(one, two) ==
               IF one < MinQty \/ two < MinQty
                 THEN {Refuse("min_qty_not_met_after_split")}
                 ELSE {IF one + t = qty THEN [shares |-> <<one, t>>, reason |-> "none"]
                                        ELSE Refuse("qty_split_mismatch") : t \in Settled(one, two)}
<1>1. PICK one \in RoundToStep(qty * Tp1Pct), two \in RoundToStep(qty * (100 - Tp1Pct)) :
           s \in Judged(one, two)
  BY DEF Shares
<1>2. Tp1Pct \in 1 .. 99 /\ MinQty \in Nat
  BY TradePlanAssumption
<1>3. /\ qty * Tp1Pct \in Nat /\ qty * (100 - Tp1Pct) \in Nat
      /\ qty * Tp1Pct + qty * (100 - Tp1Pct) = 100 * qty
  BY <1>2
<1>4. one \in Nat /\ 100 * one <= qty * Tp1Pct
  BY <1>3, RoundToStepFacts
<1>5. two \in Nat /\ 100 * two <= qty * (100 - Tp1Pct)
  BY <1>3, RoundToStepFacts
<1>6. one + two <= qty
  <2> DEFINE first == qty * Tp1Pct
             second == qty * (100 - Tp1Pct)
  <2>1. first \in Nat /\ second \in Nat /\ first + second = 100 * qty
        /\ 100 * one <= first /\ 100 * two <= second
    BY <1>3, <1>4, <1>5
  <2> HIDE DEF first, second
  <2> QED
    BY <1>4, <1>5, <2>1
<1>7. ~ (one < MinQty) /\ ~ (two < MinQty)
  BY <1>1 DEF Refuse
<1>8. PICK t \in Settled(one, two) :
           s = IF one + t = qty THEN [shares |-> <<one, t>>, reason |-> "none"]
                                ELSE Refuse("qty_split_mismatch")
  BY <1>1, <1>7
<1>9. one + t = qty /\ s.shares = <<one, t>>
  BY <1>8 DEF Refuse
<1>10. t \in Nat
  <2>1. (qty - one) * 100 \in Nat
    BY <1>4, <1>5, <1>6
  <2> QED
    BY <1>5, <1>8, <2>1, RoundToStepFacts
<1>11. MinQty <= one /\ MinQty <= t
  BY <1>2, <1>4, <1>5, <1>6, <1>7, <1>9, <1>10
<1> QED
  BY <1>4, <1>9, <1>10, <1>11

-----------------------------------------------------------------------------
(* Plans.                                                                  *)

Affordable(plan, funds) ==
    /\ plan.qty * Distance(plan.entry, plan.stop) * 100 <= RiskPct * funds
    /\ plan.qty * plan.entry <= Leverage * funds

Divided(plan, funds) ==
    LET full == PositionSize(funds, plan.entry, plan.stop)
    IN  /\ Len(plan.shares) = Len(plan.targets)
        /\ SumOf(plan.shares) = plan.qty
        /\ \A i \in DOMAIN plan.shares : plan.shares[i] >= MinQty
        /\ Len(plan.targets) = 2 => plan.qty \in {full} \cup Reduced(full, TRUE, SoftPct)

Protected(plan) ==
    LET path == <<plan.stop, plan.entry>> \o plan.targets
        risk == Distance(plan.entry, plan.stop)
    IN  /\ \A i \in 1 .. Len(path) - 1 : Ordered(plan.side, path[i], path[i + 1])
        /\ risk \in Risks \/ risk <= FarthestStop

Typed(plan) ==
    /\ plan.action = "OPEN" /\ plan.side \in {"LONG", "SHORT"} /\ plan.qty \in Nat
    /\ plan.entry \in Nat /\ plan.stop \in Int
    /\ plan.targets \in Seq(Int) /\ (Len(plan.targets) = 1 \/ Len(plan.targets) = 2)

Sound(plan, funds) ==
    Typed(plan) /\ Affordable(plan, funds) /\ Divided(plan, funds) /\ Protected(plan)

\* Whatever quantity is left of the size, it costs no more than the size.
LEMMA SmallerIsAffordable ==
    ASSUME NEW funds \in Int, NEW d, Priced(d), NEW q \in Nat,
           PositionSize(funds, d.entry, d.stop) # 0,
           q <= PositionSize(funds, d.entry, d.stop)
    PROVE  /\ q * Distance(d.entry, d.stop) * 100 <= RiskPct * funds
           /\ q * d.entry <= Leverage * funds
<1> DEFINE full == PositionSize(funds, d.entry, d.stop)
           distance == Distance(d.entry, d.stop)
<1>1. d.entry \in Nat /\ d.stop \in Int
  BY Zenon DEF Priced
<1>2. distance \in Nat
  BY <1>1 DEF Distance
<1>3. /\ full \in Nat /\ full * distance * 100 <= RiskPct * funds
      /\ full * d.entry <= Leverage * funds
  BY <1>1, PositionSizeFacts
<1>4. q <= full
  OBVIOUS
<1>5. RiskPct * funds \in Int /\ Leverage * funds \in Int
  BY TradePlanAssumption
<1> HIDE DEF full, distance
<1>6. q * distance <= full * distance /\ q * distance \in Nat /\ full * distance \in Nat
  BY <1>2, <1>3, <1>4, ProductsGrow
<1>7. q * distance * 100 <= full * distance * 100
  BY <1>6, ProductsGrow
<1>8. q * d.entry <= full * d.entry /\ q * d.entry \in Nat /\ full * d.entry \in Nat
  BY <1>1, <1>3, <1>4, ProductsGrow
<1>9. q * distance * 100 \in Nat /\ full * distance * 100 \in Nat
  BY <1>6
<1> DEFINE less == q * distance * 100
           more == full * distance * 100
           budget == RiskPct * funds
           tied == q * d.entry
           most == full * d.entry
           credit == Leverage * funds
<1>10. /\ {less, more, budget, tied, most, credit} \subseteq Int
       /\ less <= more /\ more <= budget /\ tied <= most /\ most <= credit
  BY <1>3, <1>5, <1>7, <1>8, <1>9
<1> HIDE DEF less, more, budget, tied, most, credit
<1>11. less <= budget /\ tied <= credit
  BY <1>10
<1> QED
  BY <1>11 DEF less, budget, tied, credit, distance

\* The prices of a decision with a distance to its stop are a protected path.
LEMMA PricedIsProtected ==
    ASSUME NEW d, Priced(d), d.entry # d.stop, NEW shares
    PROVE  Protected(Entry(d, shares))
<1> DEFINE path == <<d.stop, d.entry>> \o d.targets
           plan == Entry(d, shares)
<1>1. d.entry \in Nat /\ d.stop \in Int /\ d.targets \in Seq(Int) /\ (Len(d.targets) = 1 \/ Len(d.targets) = 2)
  BY Zenon DEF Priced
<1>2. /\ Ordered(d.intent, d.stop, d.entry) /\ Ordered(d.intent, d.entry, d.targets[1])
      /\ Len(d.targets) = 2 => Ordered(d.intent, d.targets[1], d.targets[2])
  BY Zenon DEF Priced
<1>3. Distance(d.entry, d.stop) \in Risks \/ Distance(d.entry, d.stop) <= FarthestStop
  BY Zenon DEF Priced
<1>4. plan.stop = d.stop /\ plan.entry = d.entry /\ plan.targets = d.targets /\ plan.side = d.intent
  BY DEF Entry
<1>5. /\ Len(path) = 2 + Len(d.targets)
      /\ path[1] = d.stop /\ path[2] = d.entry /\ path[3] = d.targets[1]
      /\ Len(d.targets) = 2 => path[4] = d.targets[2]
  BY <1>1
<1> HIDE DEF path
<1>6. ASSUME NEW i \in 1 .. Len(path) - 1 PROVE Ordered(d.intent, path[i], path[i + 1])
  <2>1. i \in 1 .. 2 \/ (i = 3 /\ Len(d.targets) = 2)
    <3> DEFINE n == Len(d.targets)
    <3>1. (n = 1 \/ n = 2) /\ Len(path) = 2 + n
      BY <1>1, <1>5
    <3> HIDE DEF n
    <3>2. i \in 1 .. 1 + n
      BY <3>1
    <3>3. i \in 1 .. 2 \/ (i = 3 /\ n = 2)
      BY <3>1, <3>2
    <3> QED
      BY <3>3 DEF n
  <2>2. CASE i = 1
    BY <1>2, <1>5, <2>2
  <2>3. CASE i = 2
    BY <1>2, <1>5, <2>3
  <2>4. CASE i = 3 /\ Len(d.targets) = 2
    BY <1>2, <1>5, <2>4
  <2> QED
    BY <2>1, <2>2, <2>3, <2>4
<1> HIDE DEF plan
<1>7. Protected(plan)
  BY <1>3, <1>4, <1>6 DEF Protected, path
<1> QED
  BY <1>7 DEF plan

LEMMA EntryPlansAreSound ==
    ASSUME NEW p, p.funds \in Int, NEW d, Priced(d), NEW o \in EntryPlans(p, d),
           o.plan.action = "OPEN"
    PROVE  Sound(o.plan, p.funds)
<1> DEFINE full == PositionSize(p.funds, d.entry, d.stop)
<1>1. PICK q \in Sizes(p, d) :
           \/ Len(d.targets) < 2 /\ o = Accepted(Entry(d, <<q>>))
           \/ /\ ~ (Len(d.targets) < 2)
              /\ \E s \in Shares(q) : s.reason = "none" /\ o = Accepted(Entry(d, s.shares))
  <2>1. \A reasons : o # Rejected(reasons)
    BY DEF Rejected, NoPlan
  <2>2. PICK q \in Sizes(p, d) :
             o \in IF Len(d.targets) < 2
                     THEN {Accepted(Entry(d, <<q>>))}
                     ELSE {IF s.reason = "none" THEN Accepted(Entry(d, s.shares))
                                                ELSE Rejected({s.reason}) : s \in Shares(q)}
    BY <2>1 DEF EntryPlans
  <2> QED
    BY <2>1, <2>2
<1>2. /\ d.entry \in Nat /\ d.stop \in Int /\ d.targets \in Seq(Int) /\ (Len(d.targets) = 1 \/ Len(d.targets) = 2)
      /\ d.early \in BOOLEAN /\ (d.early => Len(d.targets) = 1)
  BY Zenon DEF Priced
<1>3. /\ full # 0 /\ q \in Nat /\ MinQty <= q /\ q <= full
      /\ ~ d.early => q \in {full} \cup Reduced(full, TRUE, SoftPct)
  BY SizesFacts
<1>4. d.entry # d.stop
  BY <1>2, <1>3, PositionSizeFacts
<1>5. q * Distance(d.entry, d.stop) * 100 <= RiskPct * p.funds /\ q * d.entry <= Leverage * p.funds
  BY <1>3, SmallerIsAffordable
<1>6. MinQty \in Nat
  BY TradePlanAssumption
<1>7. PICK shares : /\ o.plan = Entry(d, shares)
                    /\ Len(shares) = Len(d.targets) /\ SumOf(shares) = q
                    /\ \A i \in DOMAIN shares : shares[i] >= MinQty
  <2>1. CASE Len(d.targets) < 2 /\ o = Accepted(Entry(d, <<q>>))
    <3>1. Len(<<q>>) = Len(d.targets) /\ SumOf(<<q>>) = q /\ \A i \in DOMAIN <<q>> : <<q>>[i] >= MinQty
      BY <1>2, <1>3, <2>1 DEF SumOf
    <3> QED
      BY <2>1, <3>1 DEF Accepted
  <2>2. ASSUME NEW s \in Shares(q), s.reason = "none", o = Accepted(Entry(d, s.shares)),
               ~ (Len(d.targets) < 2)
        PROVE  /\ o.plan = Entry(d, s.shares)
               /\ Len(s.shares) = Len(d.targets) /\ SumOf(s.shares) = q
               /\ \A i \in DOMAIN s.shares : s.shares[i] >= MinQty
    <3>1. PICK one \in Nat, two \in Nat :
               s.shares = <<one, two>> /\ one + two = q /\ MinQty <= one /\ MinQty <= two
      BY <1>3, <2>2, SharesFacts
    <3>2. Len(d.targets) = 2
      <4> DEFINE n == Len(d.targets)
      <4>1. (n = 1 \/ n = 2) /\ ~ (n < 2)
        BY <1>2, <2>2, Zenon
      <4> HIDE DEF n
      <4>2. n = 2
        BY <4>1
      <4> QED
        BY <4>2 DEF n
    <3>3. Len(<<one, two>>) = 2 /\ SumOf(<<one, two>>) = q
          /\ \A i \in DOMAIN <<one, two>> : <<one, two>>[i] >= MinQty
      BY <1>6, <3>1 DEF SumOf
    <3> QED
      BY <2>2, <3>1, <3>2, <3>3 DEF Accepted
  <2> QED
    BY <1>1, <2>1, <2>2
<1> DEFINE plan == Entry(d, shares)
<1>8. /\ plan.stop = d.stop /\ plan.entry = d.entry /\ plan.targets = d.targets
      /\ plan.shares = shares /\ plan.qty = q
  BY <1>7 DEF Entry
<1>9. Protected(plan)
  BY <1>4, PricedIsProtected
<1>13. plan.action = "OPEN" /\ plan.side = d.intent /\ d.intent \in {"LONG", "SHORT"}
  BY DEF Entry, Priced
<1> HIDE DEF plan
<1>14. Typed(plan)
  <2>1. Len(d.targets) = 1 \/ Len(d.targets) = 2
    BY <1>2, Zenon
  <2> QED
    BY <1>2, <1>3, <1>8, <1>13, <2>1 DEF Typed
<1>10. Affordable(plan, p.funds)
  BY <1>5, <1>8 DEF Affordable
<1>11. Len(d.targets) = 2 => q \in {full} \cup Reduced(full, TRUE, SoftPct)
  <2>1. Len(d.targets) = 2 => Len(d.targets) # 1
    OBVIOUS
  <2> QED
    BY <1>2, <1>3, <2>1, Zenon
<1>12. Divided(plan, p.funds)
  BY <1>7, <1>8, <1>11 DEF Divided
<1> QED
  BY <1>7, <1>9, <1>10, <1>12, <1>14 DEF Sound, plan

\* A plan that opens a position was made of an entry.
LEMMA OpeningsAreEntries ==
    ASSUME NEW d \in Decisions, NEW cooling, NEW switches,
           NEW o \in CreateTradePlan(payload, d, cooling, switches),
           o.plan.action = "OPEN"
    PROVE  d \in EntryDecisions(payload.features) /\ o \in EntryPlans(payload, d)
<1>1. \A reasons : Rejected(reasons).plan.action = "NONE"
  BY DEF Rejected, NoPlan
<1>2. d.intent \in {"CLOSE", "UPDATE_SLTP"} => o \notin ExitPlans(payload, d)
  <2>1. CASE payload.position.qty = 0
    BY <1>1, <2>1 DEF ExitPlans
  <2>2. CASE ~ (payload.position.qty = 0)
    <3> DEFINE exit == [NoPlan EXCEPT
                          !.action = d.intent, !.side = payload.position.side,
                          !.qty = IF d.intent = "CLOSE" THEN payload.position.qty ELSE 0,
                          !.stop = d.stop]
    <3>1. exit.action = d.intent
      BY DEF NoPlan
    <3>2. Accepted(exit).plan = exit
      BY DEF Accepted
    <3>3. ExitPlans(payload, d) = {Accepted(exit)}
      BY <2>2 DEF ExitPlans
    <3> HIDE DEF exit
    <3> QED
      BY <3>1, <3>2, <3>3
  <2> QED
    BY <2>1, <2>2
<1>3. d.intent \notin {"HOLD", "CLOSE", "UPDATE_SLTP"} /\ o \in EntryPlans(payload, d)
  BY <1>1, <1>2 DEF CreateTradePlan
<1>4. NoDecision.intent = "HOLD"
  BY DEF NoDecision
<1>5. \A held : \A e \in ExitDecisions(held) : e.intent \in {"CLOSE", "UPDATE_SLTP"}
  BY DEF ExitDecisions, NoDecision
<1> QED
  BY <1>3, <1>4, <1>5 DEF Decisions

-----------------------------------------------------------------------------
(* The invariant: a built payload holds numbers, the funds of a live one are *)
(* what this tick's answer leaves free, and a plan that opens is sound.     *)

BuiltOK ==
    /\ payload.funds \in Int /\ FeaturesOK(payload.features)
    /\ mode = "live" => payload.funds = Min({reply.available, reply.margin})

DayInv ==
    /\ window \in Windows
    /\ mode = "replay" => reply \in ReplySet
    /\ pc \in {"built", "planned"} => BuiltOK
    /\ Opening => pc = "planned" /\ Sound(outcome.plan, payload.funds)

\* What the account reports is a number or is missing.
LEMMA FundsAreNumbers ==
    ASSUME NEW r \in ReplySet
    PROVE  FundsBase(AccountSnapshot(r)) \in Int
<1> DEFINE account == AccountSnapshot(r)
<1>1. r \in Replies(Nat)
  BY TradingDayAssumption
<1>2. account.available \in Int /\ account.margin \in Int /\ account.wallet \in Int
  BY <1>1 DEF Replies, AccountSnapshot, Positive
<1> HIDE DEF account
<1>3. Available(account) \in Int
  BY <1>2 DEF Available
<1>4. Min({Available(account), account.margin}) \in Int
  BY <1>2, <1>3, MinOfTwo
<1>5. FundsBase(account) \in Int
  BY <1>3, <1>4 DEF FundsBase
<1> QED
  BY <1>5 DEF account

\* An account that passes the preflight was answered in full: its funds are
\* the lesser of what is available and the margin balance.
LEMMA PreflightFunds ==
    ASSUME NEW r \in ReplySet, NEW priced, NEW limited,
           PreflightRejects(AccountSnapshot(r), priced, limited) = {}
    PROVE  FundsBase(AccountSnapshot(r)) = Min({r.available, r.margin})
<1> DEFINE account == AccountSnapshot(r)
<1>1. r \in Replies(Nat)
  BY TradingDayAssumption
<1>2. account.error = "none" /\ ~ (account.available <= 0)
  <2>1. "account" \notin PreflightRejects(account, priced, limited)
    OBVIOUS
  <2> HIDE DEF account
  <2> QED
    BY <2>1 DEF PreflightRejects
<1>3. r.kind = "full"
  BY <1>1, <1>2 DEF Replies, AccountSnapshot
<1>4. account.available = r.available /\ account.margin = r.margin
  BY <1>3 DEF AccountSnapshot
<1>5. r.available \in Nat /\ r.margin \in Nat
  BY <1>1 DEF Replies
<1> HIDE DEF account
<1>6. Available(account) = r.available /\ account.available > 0
  BY <1>2, <1>4, <1>5 DEF Available
<1>7. FundsBase(account) = Min({r.available, r.margin})
  BY <1>4, <1>5, <1>6 DEF FundsBase
<1> QED
  BY <1>7 DEF account

LEMMA NothingOpens == Rejected({}).plan.action = "NONE"
BY DEF Rejected, NoPlan

\* A tick that is over leaves nothing to hold.
LEMMA ForgetKeeps ==
    ASSUME DayInv, Forget, window' = window, mode' = mode
    PROVE  DayInv'
<1>1. pc' = "idle" /\ ~ Opening'
  BY NothingOpens DEF Forget, Opening
<1>2. mode = "replay" => reply' = reply
  BY DEF Forget
<1> QED
  BY <1>1, <1>2 DEF DayInv

LEMMA DayInvInit == DayInit => DayInv
<1> SUFFICES ASSUME DayInit PROVE DayInv
  OBVIOUS
<1>1. pc = "idle" /\ ~ Opening
  BY NothingOpens DEF DayInit, Opening
<1>2. window \in Windows
  BY PayloadAssumption DEF DayInit, Windows
<1>3. mode = "replay" => reply \in ReplySet
  BY DEF DayInit
<1> QED
  BY <1>1, <1>2, <1>3 DEF DayInv

LEMMA BuiltKeeps ==
    ASSUME DayInv, pc = "idle", NEW r \in ReplySet, NEW ema \in Emas, NEW c, NEW held,
           payload' = PayloadOf(window, ema, AccountSnapshot(r), c, held),
           pc' = "built", reply' = r, mode' = mode, window' = window, outcome' = outcome,
           mode = "live" => FundsBase(AccountSnapshot(r)) = Min({r.available, r.margin})
    PROVE  DayInv'
<1>1. ~ Opening /\ ~ Opening'
  BY DEF DayInv, Opening
<1>2. /\ payload'.funds = FundsBase(AccountSnapshot(r))
      /\ payload'.features = Features(window, ema)
  BY DEF PayloadOf
<1>3. payload'.funds \in Int /\ FeaturesOK(payload'.features)
  BY <1>2, FundsAreNumbers, FeaturesAreNumbers DEF DayInv
<1>4. BuiltOK'
  BY <1>2, <1>3 DEF BuiltOK
<1> QED
  BY <1>1, <1>4 DEF DayInv

LEMMA DayInvNext == DayInv /\ [DayNext]_dayVars => DayInv'
<1> SUFFICES ASSUME DayInv, [DayNext]_dayVars PROVE DayInv'
  OBVIOUS
<1>1. ASSUME UNCHANGED <<mode, pc, reply, payload, outcome>>, window' \in Windows
      PROVE  DayInv'
  BY <1>1 DEF DayInv, BuiltOK, Opening
<1>2. CASE NextCandle
  <2>1. window' \in Windows
    BY <1>2, WindowMoves DEF NextCandle, DayInv
  <2> QED
    BY <1>1, <1>2, <2>1 DEF NextCandle, tick
<1>3. CASE PositionCloses
  BY <1>1, <1>3 DEF PositionCloses, tick, DayInv
<1>4. CASE Kill
  BY <1>1, <1>4 DEF Kill, tick, DayInv
<1>5. CASE Restart
  BY <1>5, ForgetKeeps DEF Restart
<1>6. CASE LivePayload
  <2>1. PICK r \in ReplySet, priced \in BOOLEAN, limited \in BOOLEAN, ema \in Emas :
          LET account == AccountSnapshot(r)
              errors == PreflightRejects(account, priced, limited)
                        \cup PayloadErrors(account, limited, candle, Now)
          IN  IF errors # {}
                THEN CloseGate /\ UNCHANGED daily
                ELSE /\ payload' = PayloadOf(window, ema, account, candle, position)
                     /\ daily' = LoadDaily(account.equity)
                     /\ reply' = r /\ pc' = "built"
                     /\ UNCHANGED <<gate, outcome>>
    BY <1>6 DEF LivePayload
  <2>2. pc = "idle" /\ mode' = mode /\ window' = window
    BY <1>6 DEF LivePayload
  <2>3. CASE CloseGate
    BY <2>2, <2>3, ForgetKeeps DEF CloseGate
  <2>4. CASE ~ CloseGate
    <3>1. /\ PreflightRejects(AccountSnapshot(r), priced, limited) = {}
          /\ payload' = PayloadOf(window, ema, AccountSnapshot(r), candle, position)
          /\ reply' = r /\ pc' = "built" /\ outcome' = outcome
      BY <2>1, <2>4
    <3>2. FundsBase(AccountSnapshot(r)) = Min({r.available, r.margin})
      BY <3>1, PreflightFunds
    <3> QED
      BY <2>2, <3>1, <3>2, BuiltKeeps
  <2> QED
    BY <2>3, <2>4
<1>7. CASE ReplayPayload
  <2>1. PICK ema \in Emas :
          IF PayloadErrors(AccountSnapshot(reply), TRUE, candle, Now) # {}
            THEN CloseGate
            ELSE /\ payload' = PayloadOf(window, ema, AccountSnapshot(reply), candle, Flat)
                 /\ pc' = "built"
                 /\ UNCHANGED <<gate, reply, outcome>>
    BY <1>7 DEF ReplayPayload
  <2>2. mode = "replay" /\ pc = "idle" /\ mode' = mode /\ window' = window
    BY <1>7 DEF ReplayPayload
  <2>3. CASE CloseGate
    BY <2>2, <2>3, ForgetKeeps DEF CloseGate
  <2>4. CASE ~ CloseGate
    <3>1. reply \in ReplySet
      BY <2>2 DEF DayInv
    <3> QED
      BY <2>1, <2>2, <2>4, <3>1, BuiltKeeps
  <2> QED
    BY <2>3, <2>4
<1>8. CASE PlanTrade
  <2>1. PICK decision \in Decisions :
             \E cooling, switches :
                outcome' \in CreateTradePlan(payload, decision, cooling, switches)
    BY <1>8 DEF PlanTrade
  <2>2. /\ pc = "built" /\ pc' = "planned"
        /\ UNCHANGED <<mode, window, reply, payload>>
    BY <1>8 DEF PlanTrade
  <2>3. BuiltOK /\ BuiltOK'
    BY <2>2 DEF DayInv, BuiltOK
  <2>4. ASSUME outcome'.plan.action = "OPEN"
        PROVE  Sound(outcome'.plan, payload.funds)
    <3>1. /\ decision \in EntryDecisions(payload.features)
          /\ outcome' \in EntryPlans(payload, decision)
      BY <2>1, <2>4, OpeningsAreEntries
    <3>2. Priced(decision)
      BY <2>3, <3>1, EntriesArePriced DEF BuiltOK
    <3>3. payload.funds \in Int
      BY <2>3 DEF BuiltOK
    <3> QED
      BY <2>4, <3>1, <3>2, <3>3, EntryPlansAreSound
  <2>5. Opening' => Sound(outcome.plan, payload.funds)'
    <3>1. Sound(outcome.plan, payload.funds)' <=> Sound(outcome'.plan, payload.funds)
      BY <2>2 DEF Sound, Typed, Affordable, Divided, Protected, Ordered
    <3> QED
      BY <2>4, <3>1 DEF Opening
  <2> QED
    BY <2>2, <2>3, <2>5 DEF DayInv
<1>9. CASE ExecutePlan
  BY <1>9, ForgetKeeps DEF ExecutePlan, CloseGate
<1>10. CASE ReplayOutcome
  BY <1>10, ForgetKeeps DEF ReplayOutcome, CloseGate
<1>11. CASE UNCHANGED dayVars
  BY <1>1, <1>11 DEF dayVars, DayInv
<1> QED
  BY <1>2, <1>3, <1>4, <1>5, <1>6, <1>7, <1>8, <1>9, <1>10, <1>11 DEF DayNext

\* In every reachable state the invariant holds.
THEOREM DayInvAlways == DaySpec => []DayInv
BY DayInvInit, DayInvNext, PTL DEF DaySpec

-----------------------------------------------------------------------------
(* What is kept from tick to tick has its type.                            *)

Positions ==
    [side : {"NONE", "LONG", "SHORT"}, qty : Nat, entry : Int, stop : Int, target : Int]

Accounts == [day : Int, start : Int, pnl : Int, streak : Nat]

Results == [pnl : Int, streak : Nat]

\* What a tick may answer when it knows of this position: nothing, an entry,
\* or an exit of the position.
PlanOK(plan, held) ==
    \/ plan = NoPlan
    \/ Typed(plan)
    \/ held.qty > 0 /\ plan.action \in {"CLOSE", "UPDATE_SLTP"} /\ plan.stop \in Int

FilesOK ==
    /\ mode \in Modes /\ pc \in {"idle", "built", "planned"}
    /\ candle \in 1 .. MaxCandle /\ gate \in 0 .. candle /\ attempt \in 0 .. candle
    /\ daily \in Accounts /\ daily.day \in -1 .. DayOf(candle)
    /\ day \in Results /\ position \in Positions /\ equity \in Int
    /\ mode = "replay" => position = Flat

TickOK ==
    /\ pc = "idle" => payload = NoPayload /\ outcome = Rejected({})
    /\ pc = "built" => outcome = Rejected({})
    /\ pc # "idle" => candle > gate
    /\ pc # "idle" => payload.position \in Positions /\ PlanOK(outcome.plan, payload.position)
    /\ pc # "idle" /\ mode = "replay" => payload.position = Flat

LEMMA DayIsNatural == ASSUME NEW c \in Nat \ {0} PROVE DayOf(c) \in Nat
BY TradingDayAssumption DEF DayOf

\* Days follow one another as their candles do.
LEMMA DaysGrow ==
    ASSUME NEW a \in Nat \ {0}, NEW b \in Nat \ {0}, a <= b
    PROVE  DayOf(a) <= DayOf(b)
<1> DEFINE n == DayLength
           x == (a - 1) \div n
           y == (b - 1) \div n
<1>1. n \in Nat \ {0}
  BY TradingDayAssumption
<1>2. x \in Nat /\ n * x <= a - 1
  BY <1>1
<1>3. y \in Nat /\ b - 1 < n * (y + 1)
  BY <1>1
<1>4. DayOf(a) = x /\ DayOf(b) = y
  BY DEF DayOf
<1> HIDE DEF n, x, y
<1>5. y + 1 <= x => n * (y + 1) <= n * x
  BY <1>1, <1>2, <1>3
<1>6. n * x \in Nat /\ n * (y + 1) \in Nat
  BY <1>1, <1>2, <1>3
<1>7. ~ (y + 1 <= x)
  BY <1>2, <1>3, <1>5, <1>6
<1> QED
  BY <1>2, <1>3, <1>4, <1>7

LEMMA FlatIsAPosition == Flat \in Positions /\ Flat.qty = 0
BY DEF Flat, Positions

LEMMA OpenedIsAPosition ==
    ASSUME NEW plan, Typed(plan)
    PROVE  PositionOf(plan) \in Positions
<1>1. plan.targets \in Seq(Int) /\ (Len(plan.targets) = 1 \/ Len(plan.targets) = 2)
  BY DEF Typed
<1>2. plan.targets[Len(plan.targets)] \in Int
  <2>1. CASE Len(plan.targets) = 1
    BY <1>1, <2>1
  <2>2. CASE Len(plan.targets) = 2
    BY <1>1, <2>2
  <2> QED
    BY <1>1, <2>1, <2>2
<1> QED
  BY <1>2 DEF PositionOf, Positions, Typed

LEMMA GainIsANumber ==
    ASSUME NEW p \in Positions, NEW price \in Int
    PROVE  Gain(p, price) \in Int
BY DEF Gain, Positions

LEMMA BooksAreTyped ==
    ASSUME NEW pnl \in Int
    PROVE  /\ \A r \in Results : Book(r, pnl) \in Results
           /\ \A a \in Accounts : Book(a, pnl) \in Accounts /\ Book(a, pnl).day = a.day
<1>1. ASSUME NEW r \in Results PROVE Book(r, pnl) \in Results
  <2>1. r.pnl + pnl \in Int /\ (IF pnl < 0 THEN r.streak + 1 ELSE 0) \in Nat
    BY <1>1 DEF Results
  <2> QED
    BY <1>1, <2>1 DEF Book, Results
<1>2. ASSUME NEW a \in Accounts PROVE Book(a, pnl) \in Accounts /\ Book(a, pnl).day = a.day
  <2>1. a.pnl + pnl \in Int /\ (IF pnl < 0 THEN a.streak + 1 ELSE 0) \in Nat
    BY <1>2 DEF Accounts
  <2> QED
    BY <1>2, <2>1 DEF Book, Accounts
<1> QED
  BY <1>1, <1>2

LEMMA EquityIsANumber ==
    ASSUME NEW r \in ReplySet
    PROVE  AccountSnapshot(r).equity \in Int
<1>1. r \in Replies(Nat)
  BY TradingDayAssumption
<1> QED
  BY <1>1 DEF Replies, AccountSnapshot, Positive

\* The day that is loaded is today's.
LEMMA LoadedIsToday ==
    ASSUME FilesOK, NEW start \in Int
    PROVE  LoadDaily(start) \in Accounts /\ LoadDaily(start).day = DayOf(candle)
<1>1. DayOf(candle) \in Nat
  BY DayIsNatural DEF FilesOK
<1>2. Fresh(start) \in Accounts /\ Fresh(start).day = DayOf(candle)
  BY <1>1 DEF Fresh, Accounts
<1> QED
  BY <1>2 DEF LoadDaily, FilesOK

LEMMA PlansAreTyped ==
    ASSUME NEW p, p.funds \in Int, FeaturesOK(p.features), p.position \in Positions,
           NEW d \in {NoDecision} \cup IF p.position.qty > 0 THEN ExitDecisions(p.position)
                                                         ELSE EntryDecisions(p.features),
           NEW cooling, NEW switches, NEW o \in CreateTradePlan(p, d, cooling, switches)
    PROVE  PlanOK(o.plan, p.position)
<1>1. \A reasons : Rejected(reasons).plan = NoPlan
  BY DEF Rejected
<1>2. NoDecision.intent = "HOLD"
  BY DEF NoDecision
<1>3. CASE d.intent = "HOLD"
  BY <1>1, <1>3 DEF CreateTradePlan, PlanOK
<1>4. CASE p.position.qty > 0 /\ d \in ExitDecisions(p.position)
  <2>1. d.intent \in {"CLOSE", "UPDATE_SLTP"} /\ d.stop \in Int
    <3>1. p.position.entry \in Int
      BY DEF Positions
    <3>2. CASE d = [NoDecision EXCEPT !.intent = "CLOSE"]
      BY <3>2 DEF NoDecision
    <3>3. CASE d = [NoDecision EXCEPT !.intent = "UPDATE_SLTP", !.stop = p.position.entry]
      BY <3>1, <3>3 DEF NoDecision
    <3> QED
      BY <1>4, <3>2, <3>3 DEF ExitDecisions
  <2>2. CASE \E reasons : o = Rejected(reasons)
    BY <1>1, <2>2 DEF PlanOK
  <2>3. CASE o \in ExitPlans(p, d)
    <3> DEFINE exit == [NoPlan EXCEPT
                          !.action = d.intent, !.side = p.position.side,
                          !.qty = IF d.intent = "CLOSE" THEN p.position.qty ELSE 0,
                          !.stop = d.stop]
    <3>1. exit.action = d.intent /\ exit.stop = d.stop
      BY DEF NoPlan
    <3>2. Accepted(exit).plan = exit
      BY DEF Accepted
    <3>3. p.position.qty # 0
      BY <1>4
    <3>4. ExitPlans(p, d) = {Accepted(exit)}
      BY <3>3 DEF ExitPlans
    <3> HIDE DEF exit
    <3> QED
      BY <1>4, <2>1, <2>3, <3>1, <3>2, <3>4 DEF PlanOK
  <2> QED
    BY <2>1, <2>2, <2>3 DEF CreateTradePlan
<1>5. CASE ~ (p.position.qty > 0) /\ d \in EntryDecisions(p.features)
  <2>1. Priced(d)
    BY <1>5, EntriesArePriced
  <2>2. d.intent \in {"LONG", "SHORT"}
    BY <2>1 DEF Priced
  <2>3. CASE \E reasons : o = Rejected(reasons)
    BY <1>1, <2>3 DEF PlanOK
  <2>4. CASE o \in EntryPlans(p, d)
    <3>1. o.plan = NoPlan \/ o.plan.action = "OPEN"
      <4>1. \A shares : Accepted(Entry(d, shares)).plan.action = "OPEN"
        BY DEF Accepted, Entry
      <4> QED
        <5>1. CASE \E reasons : o = Rejected(reasons)
          BY <1>1, <5>1
        <5>2. CASE \A reasons : o # Rejected(reasons)
          <6>1. PICK q \in Sizes(p, d) :
                     o \in IF Len(d.targets) < 2
                             THEN {Accepted(Entry(d, <<q>>))}
                             ELSE {IF s.reason = "none" THEN Accepted(Entry(d, s.shares))
                                                        ELSE Rejected({s.reason}) : s \in Shares(q)}
            BY <2>4, <5>2 DEF EntryPlans
          <6> QED
            BY <4>1, <5>2, <6>1
        <5> QED
          BY <5>1, <5>2
    <3>2. o.plan.action = "OPEN" => Typed(o.plan)
      BY <2>1, <2>4, EntryPlansAreSound DEF Sound
    <3> QED
      BY <3>1, <3>2 DEF PlanOK
  <2> QED
    BY <2>2, <2>3, <2>4 DEF CreateTradePlan
<1> QED
  BY <1>2, <1>3, <1>4, <1>5

FilesInv == DayInv /\ FilesOK /\ TickOK

LEMMA FilesInvInit == DayInit => FilesInv
<1> SUFFICES ASSUME DayInit PROVE FilesInv
  OBVIOUS
<1>1. DayInv
  BY DayInvInit
<1>2. TickOK
  BY DEF DayInit, TickOK
<1>3. DayOf(1) \in Nat /\ MaxCandle \in Nat \ {0}
  BY DayIsNatural, TradingDayAssumption
<1>4. daily \in Accounts /\ daily.day = -1
  BY DEF DayInit, Accounts
<1>5. day \in Results
  BY DEF DayInit, NoTrades, Results
<1>6. equity \in Int
  BY EquityIsANumber DEF DayInit
<1>7. FilesOK
  BY <1>3, <1>4, <1>5, <1>6, FlatIsAPosition DEF DayInit, FilesOK
<1> QED
  BY <1>1, <1>2, <1>7 DEF FilesInv

\* A tick that is over leaves nothing behind but the files.
LEMMA ForgetIsTyped == Forget => TickOK'
BY DEF Forget, TickOK

LEMMA BuiltIsTyped ==
    ASSUME FilesOK, candle > gate, NEW account, NEW ema, NEW held \in Positions,
           mode = "replay" => held = Flat,
           payload' = PayloadOf(window, ema, account, candle, held), pc' = "built",
           outcome = Rejected({}), UNCHANGED <<mode, candle, gate, outcome>>
    PROVE  TickOK'
<1>1. payload'.position = held
  BY DEF PayloadOf
<1>2. outcome'.plan = NoPlan
  BY DEF Rejected
<1> QED
  BY <1>1, <1>2 DEF TickOK, PlanOK

LEMMA FilesInvNext == FilesInv /\ [DayNext]_dayVars => FilesInv'
<1> SUFFICES ASSUME FilesInv, [DayNext]_dayVars PROVE FilesInv'
  OBVIOUS
<1>1. DayInv'
  BY DayInvNext DEF FilesInv
<1>2. DayInv /\ FilesOK /\ TickOK
  BY DEF FilesInv
<1>3. SUFFICES FilesOK' /\ TickOK'
  BY <1>1 DEF FilesInv
<1>4. MaxCandle \in Nat \ {0} /\ candle \in Nat \ {0} /\ DayOf(candle) \in Nat
  BY <1>2, DayIsNatural, TradingDayAssumption DEF FilesOK
<1>5. CASE NextCandle
  <2>1. candle' \in Nat \ {0} /\ candle <= candle' /\ candle' \in 1 .. MaxCandle
    BY <1>2, <1>4, <1>5 DEF NextCandle, FilesOK
  <2>2. DayOf(candle) <= DayOf(candle') /\ DayOf(candle') \in Nat
    BY <1>4, <2>1, DaysGrow, DayIsNatural
  <2>3. daily' = daily /\ daily'.day \in -1 .. DayOf(candle')
    BY <1>2, <1>4, <1>5, <2>2 DEF NextCandle, FilesOK
  <2>4. day' \in Results
    BY <1>2, <1>5 DEF NextCandle, FilesOK, NoTrades, Results
  <2>5. gate' \in 0 .. candle' /\ attempt' \in 0 .. candle'
    BY <1>2, <1>4, <1>5, <2>1 DEF NextCandle, FilesOK
  <2>6. FilesOK'
    <3>1. (daily.day \in -1 .. DayOf(candle))' <=> daily'.day \in -1 .. DayOf(candle')
      BY DEF DayOf
    <3> QED
      BY <1>2, <1>5, <2>1, <2>3, <2>4, <2>5, <3>1 DEF NextCandle, tick, FilesOK
  <2> QED
    BY <1>2, <1>5, <2>6 DEF NextCandle, tick, TickOK
<1>6. ASSUME UNCHANGED candle PROVE (DayOf(candle))' = DayOf(candle)
  BY <1>6 DEF DayOf
<1>7. CASE PositionCloses
  <2>1. PICK price \in {position.stop, position.target} : day' = Book(day, Gain(position, price))
    BY <1>7 DEF PositionCloses
  <2>2. price \in Int /\ position \in Positions
    BY <1>2 DEF FilesOK, Positions
  <2>3. day' \in Results
    BY <1>2, <2>1, <2>2, GainIsANumber, BooksAreTyped DEF FilesOK
  <2>4. position' = Flat /\ UNCHANGED <<mode, candle, gate, pc, payload, outcome, equity, daily, attempt>>
    BY <1>7 DEF PositionCloses, tick
  <2>5. FilesOK'
    BY <1>2, <1>6, <2>3, <2>4, FlatIsAPosition DEF FilesOK
  <2> QED
    BY <1>2, <2>4, <2>5 DEF TickOK
<1>8. ASSUME UNCHANGED <<mode, candle, daily, day, position, equity, attempt>>,
             gate' \in {gate, candle}, pc' \in {"idle", "built", "planned"}
      PROVE  FilesOK'
  BY <1>2, <1>4, <1>6, <1>8 DEF FilesOK
<1>9. CASE Kill
  <2>1. UNCHANGED <<mode, candle, gate, pc, payload, outcome, daily, day, position, equity, attempt>>
    BY <1>9 DEF Kill, tick
  <2>2. FilesOK'
    BY <1>2, <1>8, <2>1 DEF FilesOK
  <2> QED
    BY <1>2, <2>1, <2>2 DEF TickOK
<1>10. CASE Restart
  <2>1. FilesOK'
    BY <1>8, <1>10 DEF Restart, Forget
  <2> QED
    BY <1>10, <2>1, ForgetIsTyped DEF Restart
<1>11. ASSUME UNCHANGED <<mode, candle, gate, day, position, equity, attempt>>, pc' = "built",
              NEW start \in Int, daily' = LoadDaily(start)
       PROVE  FilesOK'
  <2>1. daily' \in Accounts /\ daily'.day = DayOf(candle)
    BY <1>2, <1>11, LoadedIsToday
  <2>2. daily'.day \in -1 .. DayOf(candle)
    BY <1>4, <2>1
  <2> QED
    BY <1>2, <1>6, <1>11, <2>1, <2>2 DEF FilesOK
<1>12. CASE LivePayload
  <2>1. PICK r \in ReplySet, priced \in BOOLEAN, limited \in BOOLEAN, ema \in Emas :
          LET account == AccountSnapshot(r)
              errors == PreflightRejects(account, priced, limited)
                        \cup PayloadErrors(account, limited, candle, Now)
          IN  IF errors # {}
                THEN CloseGate /\ UNCHANGED daily
                ELSE /\ payload' = PayloadOf(window, ema, account, candle, position)
                     /\ daily' = LoadDaily(account.equity)
                     /\ reply' = r /\ pc' = "built"
                     /\ UNCHANGED <<gate, outcome>>
    BY <1>12 DEF LivePayload
  <2>2. /\ pc = "idle" /\ candle > gate
        /\ UNCHANGED <<mode, candle, day, position, equity, attempt>>
    BY <1>12 DEF LivePayload
  <2>3. CASE CloseGate /\ UNCHANGED daily
    <3>1. FilesOK'
      BY <1>8, <2>2, <2>3 DEF CloseGate, Forget
    <3> QED
      BY <2>3, <3>1, ForgetIsTyped DEF CloseGate
  <2>4. CASE ~ (CloseGate /\ UNCHANGED daily)
    <3>1. /\ payload' = PayloadOf(window, ema, AccountSnapshot(r), candle, position)
          /\ daily' = LoadDaily(AccountSnapshot(r).equity)
          /\ pc' = "built" /\ UNCHANGED <<gate, outcome>>
      BY <2>1, <2>4
    <3>2. FilesOK'
      BY <1>11, <2>2, <3>1, EquityIsANumber
    <3>3. outcome = Rejected({}) /\ position \in Positions /\ (mode = "replay" => position = Flat)
      BY <1>2, <2>2 DEF TickOK, FilesOK
    <3>4. TickOK'
      BY <1>2, <2>2, <3>1, <3>3, BuiltIsTyped
    <3> QED
      BY <3>2, <3>4
  <2> QED
    BY <2>3, <2>4
<1>13. CASE ReplayPayload
  <2>1. PICK ema \in Emas :
          IF PayloadErrors(AccountSnapshot(reply), TRUE, candle, Now) # {}
            THEN CloseGate
            ELSE /\ payload' = PayloadOf(window, ema, AccountSnapshot(reply), candle, Flat)
                 /\ pc' = "built"
                 /\ UNCHANGED <<gate, reply, outcome>>
    BY <1>13 DEF ReplayPayload
  <2>2. /\ pc = "idle" /\ candle > gate /\ daily' = LoadDaily(equity)
        /\ UNCHANGED <<mode, candle, day, position, equity, attempt>>
    BY <1>13 DEF ReplayPayload
  <2>3. daily' \in Accounts /\ daily'.day = DayOf(candle) /\ daily'.day \in -1 .. DayOf(candle)
    BY <1>2, <1>4, <2>2, LoadedIsToday DEF FilesOK
  <2>4. CASE CloseGate
    <3>1. gate' = candle /\ pc' = "idle"
      BY <2>4 DEF CloseGate, Forget
    <3>2. gate' \in 0 .. candle
      BY <1>4, <3>1
    <3>3. FilesOK'
      BY <1>2, <1>6, <2>2, <2>3, <3>1, <3>2 DEF FilesOK
    <3> QED
      BY <2>4, <3>3, ForgetIsTyped DEF CloseGate
  <2>5. CASE ~ CloseGate
    <3>1. /\ payload' = PayloadOf(window, ema, AccountSnapshot(reply), candle, Flat)
          /\ pc' = "built" /\ UNCHANGED <<gate, outcome>>
      BY <2>1, <2>5
    <3>2. FilesOK'
      BY <1>2, <1>11, <2>2, <3>1 DEF FilesOK
    <3>3. outcome = Rejected({})
      BY <1>2, <2>2 DEF TickOK
    <3>4. TickOK'
      BY <1>2, <2>2, <3>1, <3>3, FlatIsAPosition, BuiltIsTyped
    <3> QED
      BY <3>2, <3>4
  <2> QED
    BY <2>4, <2>5
<1>14. CASE PlanTrade
  <2>1. PICK decision \in Decisions :
             \E cooling, switches :
                outcome' \in CreateTradePlan(payload, decision, cooling, switches)
    BY <1>14 DEF PlanTrade
  <2>2. /\ pc = "built" /\ pc' = "planned"
        /\ UNCHANGED <<mode, candle, gate, payload, position, equity, daily, day, attempt>>
    BY <1>14 DEF PlanTrade
  <2>3. FilesOK'
    BY <1>8, <2>2
  <2>4. payload.funds \in Int /\ FeaturesOK(payload.features) /\ payload.position \in Positions
    BY <1>2, <2>2 DEF DayInv, BuiltOK, TickOK
  <2>5. PlanOK(outcome'.plan, payload.position)
    BY <2>1, <2>4, PlansAreTyped DEF Decisions
  <2>6. PlanOK(outcome.plan, payload.position)'
    BY <2>2, <2>5 DEF PlanOK, Typed
  <2> QED
    BY <1>2, <2>2, <2>3, <2>6 DEF TickOK
<1>15. CASE ExecutePlan
  <2> DEFINE plan == outcome.plan
  <2>1. /\ mode = "live" /\ pc = "planned" /\ CloseGate
        /\ UNCHANGED <<mode, candle, equity, daily>>
    BY <1>15 DEF ExecutePlan
  <2>2. PlanOK(plan, payload.position) /\ position \in Positions /\ day \in Results
        /\ attempt \in 0 .. candle
    BY <1>2, <2>1 DEF TickOK, FilesOK
  <2>3. position' \in Positions /\ day' \in Results /\ attempt' \in 0 .. candle
    <3>1. CASE plan.action = "OPEN"
      <4>1. Typed(plan)
        BY <2>2, <3>1 DEF PlanOK, NoPlan
      <4>2. position' = PositionOf(plan) /\ attempt' = candle /\ day' = day
        BY <1>15, <3>1 DEF ExecutePlan
      <4> QED
        BY <1>4, <2>2, <4>1, <4>2, OpenedIsAPosition
    <3>2. CASE plan.action = "CLOSE" /\ position.qty > 0
      <4>1. PICK price \in {position.stop, position.entry, position.target} :
                 day' = Book(day, Gain(position, price))
        BY <1>15, <3>2 DEF ExecutePlan
      <4>2. position' = Flat /\ attempt' = attempt
        BY <1>15, <3>2 DEF ExecutePlan
      <4>3. price \in Int
        BY <2>2 DEF Positions
      <4> QED
        BY <2>2, <4>1, <4>2, <4>3, FlatIsAPosition, GainIsANumber, BooksAreTyped
    <3>3. CASE plan.action = "UPDATE_SLTP" /\ position.qty > 0
      <4>1. position' = [position EXCEPT !.stop = plan.stop] /\ UNCHANGED <<day, attempt>>
        BY <1>15, <3>3 DEF ExecutePlan
      <4>2. plan.stop \in Int
        BY <2>2, <3>3 DEF PlanOK, NoPlan, Typed
      <4> QED
        BY <2>2, <4>1, <4>2 DEF Positions
    <3>4. CASE /\ ~ (plan.action = "OPEN")
               /\ ~ (plan.action = "CLOSE" /\ position.qty > 0)
               /\ ~ (plan.action = "UPDATE_SLTP" /\ position.qty > 0)
      <4>1. UNCHANGED <<position, day, attempt>>
        BY <1>15, <3>4, SMTT(60) DEF ExecutePlan
      <4> QED
        BY <2>2, <4>1
    <3> QED
      BY <3>1, <3>2, <3>3, <3>4
  <2>4. gate' = candle /\ pc' = "idle" /\ gate' \in 0 .. candle
    BY <1>4, <2>1 DEF CloseGate, Forget
  <2>5. FilesOK'
    BY <1>2, <1>6, <2>1, <2>3, <2>4 DEF FilesOK
  <2> QED
    BY <2>1, <2>5, ForgetIsTyped DEF CloseGate
<1>16. CASE ReplayOutcome
  <2> DEFINE trade == PositionOf(outcome.plan)
  <2>1. /\ mode = "replay" /\ pc = "planned" /\ CloseGate
        /\ UNCHANGED <<mode, candle, position, attempt>>
    BY <1>16 DEF ReplayOutcome
  <2>2. equity' \in Int /\ daily' \in Accounts /\ daily'.day = daily.day /\ day' \in Results
    <3>1. CASE UNCHANGED <<equity, daily, day>>
      BY <1>2, <3>1 DEF FilesOK
    <3>2. CASE outcome.plan # NoPlan /\ ~ UNCHANGED <<equity, daily, day>>
      <4>1. PICK price \in {trade.stop, trade.target} :
                 /\ equity' = equity + Gain(trade, price)
                 /\ daily' = Book(daily, Gain(trade, price))
                 /\ day' = Book(day, Gain(trade, price))
        BY <1>16, <3>2 DEF ReplayOutcome
      <4>2. Typed(outcome.plan)
        <5>1. PlanOK(outcome.plan, payload.position) /\ payload.position = Flat
          BY <1>2, <2>1 DEF TickOK
        <5> QED
          BY <3>2, <5>1, FlatIsAPosition DEF PlanOK
      <4>3. trade \in Positions
        BY <4>2, OpenedIsAPosition
      <4>4. price \in Int
        BY <4>3 DEF Positions
      <4>5. Gain(trade, price) \in Int
        BY <4>3, <4>4, GainIsANumber
      <4> HIDE DEF trade
      <4> QED
        BY <1>2, <4>1, <4>5, BooksAreTyped DEF FilesOK
    <3> QED
      BY <1>16, <3>1, <3>2 DEF ReplayOutcome
  <2>3. gate' = candle /\ pc' = "idle" /\ gate' \in 0 .. candle
    BY <1>4, <2>1 DEF CloseGate, Forget
  <2>4. FilesOK'
    BY <1>2, <1>6, <2>1, <2>2, <2>3 DEF FilesOK
  <2> QED
    BY <2>1, <2>4, ForgetIsTyped DEF CloseGate
<1>17. CASE UNCHANGED dayVars
  <2>1. UNCHANGED <<mode, candle, gate, pc, payload, outcome, daily, day, position, equity, attempt>>
    BY <1>17 DEF dayVars
  <2>2. FilesOK'
    BY <1>2, <1>8, <2>1 DEF FilesOK
  <2> QED
    BY <1>2, <2>1, <2>2 DEF TickOK
<1> QED
  BY <1>5, <1>7, <1>9, <1>10, <1>12, <1>13, <1>14, <1>15, <1>16, <1>17 DEF DayNext

\* In every reachable state the files and the memory of a tick have their types
\* and belong together.
THEOREM FilesInvAlways == DaySpec => []FilesInv
BY FilesInvInit, FilesInvNext, PTL DEF DaySpec

\* In every reachable state of both programs the files and the memory of a
\* tick hold what the code can put there: a day that is not over, a streak
\* that is a number, a gate and an attempt that are not of the future, and
\* nothing of a tick once it is over.
THEOREM DayTypeCorrect == DaySpec => []DayTypeOK
<1>1. FilesInv => DayTypeOK
  <2> SUFFICES ASSUME FilesInv PROVE DayTypeOK
    OBVIOUS
  <2>1. DayInv /\ FilesOK /\ TickOK
    BY DEF FilesInv
  <2>2. window \in [1 .. Period -> CandleSet]
    BY <2>1, PayloadAssumption DEF DayInv, Windows
  <2>3. /\ candle \in Nat \ {0} /\ MaxCandle \in Nat \ {0} /\ candle <= MaxCandle
    BY <2>1, TradingDayAssumption DEF FilesOK
  <2>4. DayOf(candle) <= DayOf(MaxCandle) /\ DayOf(candle) \in Nat /\ DayOf(MaxCandle) \in Nat
    BY <2>3, DaysGrow, DayIsNatural
  <2>5. daily.day \in -1 .. DayOf(MaxCandle)
    BY <2>1, <2>4 DEF FilesOK
  <2>6. daily.streak \in Nat /\ daily.pnl \in Int
    BY <2>1 DEF FilesOK, Accounts
  <2>7. position.side \in {"NONE", "LONG", "SHORT"} /\ position.qty \in Nat
    BY <2>1 DEF FilesOK, Positions
  <2> QED
    BY <2>1, <2>2, <2>5, <2>6, <2>7 DEF DayTypeOK, FilesOK, TickOK
<1> QED
  BY <1>1, FilesInvAlways, PTL

-----------------------------------------------------------------------------
(* The losses of a replayed day.  What the daily file says of today is what *)
(* today's trades brought, as long as the day began with money: a day that  *)
(* began without is begun anew on every candle.                             *)

Solvent == mode = "replay" => equity > 0

WithinLimits(account) ==
    /\ account.streak < MaxLosses
    /\ -Min({0, account.pnl}) * 100 < MaxDrawdownPct * account.start

DayBooked ==
    mode = "replay" =>
        /\ daily.day = DayOf(candle) =>
              daily.start > 0 /\ daily.pnl = day.pnl /\ daily.streak = day.streak
        /\ daily.day # DayOf(candle) => day = NoTrades
        /\ pc # "idle" => daily.day = DayOf(candle)
        /\ Opening => WithinLimits(daily)

\* A plan that opens has passed every switch.
LEMMA OpeningsPassSwitches ==
    ASSUME NEW p, NEW d, NEW cooling, NEW switches,
           NEW o \in CreateTradePlan(p, d, cooling, switches), o.plan.action = "OPEN"
    PROVE  switches = {}
<1>1. \A reasons : Rejected(reasons).plan.action = "NONE"
  BY DEF Rejected, NoPlan
<1> SUFFICES ASSUME switches # {} PROVE FALSE
  OBVIOUS
<1>2. \E reasons : o = Rejected(reasons)
  BY DEF CreateTradePlan
<1> QED
  BY <1>1, <1>2

LEMMA SwitchesLimit ==
    ASSUME NEW account \in Accounts, account.start > 0, NEW dead, NEW open, NEW conditions,
           NEW c, NEW now, KillSwitches(account, dead, open, conditions, c, now) = {}
    PROVE  WithinLimits(account)
<1>1. /\ "daily_drawdown_exceeded" \notin KillSwitches(account, dead, open, conditions, c, now)
      /\ "consecutive_losses_exceeded" \notin KillSwitches(account, dead, open, conditions, c, now)
  OBVIOUS
<1>2. /\ ~ (-Min({0, account.pnl}) * 100 >= MaxDrawdownPct * account.start)
      /\ ~ (account.streak >= MaxLosses)
  BY <1>1 DEF KillSwitches
<1>3. account.streak \in Nat /\ MaxLosses \in Nat /\ MaxDrawdownPct \in Nat
      /\ account.start \in Int /\ account.pnl \in Int
  BY TradePlanAssumption DEF Accounts
<1>4. Min({0, account.pnl}) \in Int
  <2>1. 0 \in Int
    OBVIOUS
  <2>2. Min({0, account.pnl}) \in {0, account.pnl}
    BY <1>3, <2>1, MinOfTwo
  <2> QED
    BY <1>3, <2>2
<1> DEFINE lost == -Min({0, account.pnl}) * 100
           most == MaxDrawdownPct * account.start
<1>5. lost \in Int /\ most \in Int
  BY <1>3, <1>4
<1> HIDE DEF lost, most
<1>6. lost < most
  <2>1. ~ (lost >= most)
    BY <1>2 DEF lost, most
  <2> QED
    BY <1>5, <2>1
<1> QED
  BY <1>2, <1>3, <1>6 DEF WithinLimits, lost, most

LEMMA BookedInit == DayInit => DayBooked
<1> SUFFICES ASSUME DayInit PROVE DayBooked
  OBVIOUS
<1>1. candle = 1 /\ daily.day = -1 /\ day = NoTrades /\ pc = "idle" /\ ~ Opening
  BY NothingOpens DEF DayInit, Opening
<1>2. DayOf(candle) \in Nat
  BY <1>1, DayIsNatural
<1> QED
  BY <1>1, <1>2 DEF DayBooked

LEMMA BookedNext == FilesInv /\ DayBooked /\ Solvent /\ [DayNext]_dayVars => DayBooked'
<1> SUFFICES ASSUME FilesInv, DayBooked, Solvent, [DayNext]_dayVars, mode' = "replay"
             PROVE  DayBooked'
  BY DEF DayBooked
<1>1. mode = "replay"
  BY DEF DayNext, dayVars, NextCandle, PositionCloses, Kill, Restart, LivePayload,
         ReplayPayload, PlanTrade, ExecutePlan, ReplayOutcome
<1>2. FilesOK /\ TickOK /\ DayInv
  BY DEF FilesInv
<1>3. /\ candle \in Nat \ {0} /\ DayOf(candle) \in Nat /\ daily \in Accounts
      /\ daily.day \in -1 .. DayOf(candle) /\ day \in Results
      /\ equity \in Int /\ equity > 0 /\ position = Flat
  BY <1>1, <1>2, DayIsNatural DEF FilesOK, Solvent
<1>4. ASSUME UNCHANGED candle PROVE (DayOf(candle))' = DayOf(candle)
  BY <1>4 DEF DayOf
<1>5. /\ daily.day = DayOf(candle) =>
            daily.start > 0 /\ daily.pnl = day.pnl /\ daily.streak = day.streak
      /\ daily.day # DayOf(candle) => day = NoTrades
      /\ pc # "idle" => daily.day = DayOf(candle)
      /\ Opening => WithinLimits(daily)
  BY <1>1 DEF DayBooked
<1>6. CASE NextCandle
  <2>1. candle' = candle + 1 /\ pc = "idle" /\ UNCHANGED <<pc, outcome, daily>>
        /\ day' = IF DayOf(candle') = DayOf(candle) THEN day ELSE NoTrades
    BY <1>6 DEF NextCandle, tick
  <2>2. DayOf(candle) <= DayOf(candle') /\ DayOf(candle') \in Nat
    BY <1>3, <2>1, DaysGrow, DayIsNatural
  <2>3. (DayOf(candle))' = DayOf(candle')
    BY DEF DayOf
  <2>4. ~ Opening'
    BY <1>2, <2>1, NothingOpens DEF TickOK, Opening
  <2>5. CASE DayOf(candle') = DayOf(candle)
    BY <1>5, <2>1, <2>3, <2>4, <2>5 DEF DayBooked
  <2>6. CASE DayOf(candle') # DayOf(candle)
    <3>1. daily.day # DayOf(candle')
      BY <1>3, <2>2, <2>6
    <3>2. day' = NoTrades' 
      BY <2>1, <2>6 DEF NoTrades
    <3> QED
      BY <2>1, <2>3, <2>4, <3>1, <3>2 DEF DayBooked
  <2> QED
    BY <2>5, <2>6
<1>7. CASE PositionCloses
  BY <1>3, <1>7, FlatIsAPosition DEF PositionCloses
<1>8. CASE ReplayPayload
  <2>1. /\ pc = "idle" /\ daily' = LoadDaily(equity) /\ UNCHANGED <<candle, day>>
    BY <1>8 DEF ReplayPayload
  <2>2. outcome' = Rejected({})
    BY <1>2, <1>8 DEF ReplayPayload, CloseGate, Forget, TickOK
  <2>3. ~ Opening'
    BY <2>2, NothingOpens DEF Opening
  <2>4. daily'.day = DayOf(candle)
    BY <1>2, <1>3, <2>1, LoadedIsToday
  <2>5. daily'.start > 0 /\ daily'.pnl = day.pnl /\ daily'.streak = day.streak
    <3>1. CASE daily.day # DayOf(candle)
      <4>1. daily' = Fresh(equity) /\ day = NoTrades
        BY <1>5, <2>1, <3>1 DEF LoadDaily
      <4> QED
        BY <1>3, <4>1 DEF Fresh, NoTrades
    <3>2. CASE daily.day = DayOf(candle)
      <4>1. ~ (daily.start <= 0)
        BY <1>3, <1>5, <3>2 DEF Accounts
      <4>2. daily' = daily
        BY <2>1, <3>2, <4>1 DEF LoadDaily
      <4> QED
        BY <1>5, <3>2, <4>2
    <3> QED
      BY <3>1, <3>2
  <2> QED
    BY <1>4, <2>1, <2>3, <2>4, <2>5 DEF DayBooked
<1>9. CASE PlanTrade
  <2>1. /\ pc = "built" /\ UNCHANGED <<candle, day, daily>>
    BY <1>9 DEF PlanTrade
  <2>2. daily.day = DayOf(candle) /\ daily.start > 0
    BY <1>5, <2>1
  <2>3. ASSUME Opening' PROVE WithinLimits(daily)
    <3>1. PICK decision \in Decisions, conditions \in {{}, {"spread_too_wide"}} :
             LET open == IF position.qty > 0 THEN 1 ELSE 0
                 switches == KillSwitches(daily, killed, open, conditions, candle, Now)
                 cooling == attempt # 0 /\ candle - attempt < Cooldown
             IN  outcome' \in CreateTradePlan(payload, decision, cooling, switches)
      BY <1>9 DEF PlanTrade
    <3>2. outcome'.plan.action = "OPEN"
      BY <2>3 DEF Opening
    <3>3. KillSwitches(daily, killed, IF position.qty > 0 THEN 1 ELSE 0, conditions, candle, Now) = {}
      BY <3>1, <3>2, OpeningsPassSwitches
    <3> QED
      BY <1>3, <2>2, <3>3, SwitchesLimit
  <2>4. Opening' => WithinLimits(daily)'
    BY <2>1, <2>3 DEF WithinLimits
  <2> QED
    BY <1>4, <1>5, <2>1, <2>2, <2>4 DEF DayBooked
<1>10. CASE ReplayOutcome
  <2>1. /\ pc = "planned" /\ pc' = "idle" /\ outcome' = Rejected({}) /\ UNCHANGED candle
    BY <1>10 DEF ReplayOutcome, CloseGate, Forget
  <2>2. ~ Opening'
    BY <2>1, NothingOpens DEF Opening
  <2>3. daily.day = DayOf(candle) /\ daily.start > 0 /\ daily.pnl = day.pnl /\ daily.streak = day.streak
    BY <1>5, <2>1
  <2>4. /\ daily'.day = daily.day /\ daily'.start = daily.start
        /\ daily'.pnl = day'.pnl /\ daily'.streak = day'.streak
    <3>1. CASE UNCHANGED <<daily, day>>
      BY <2>3, <3>1
    <3>2. CASE ~ UNCHANGED <<daily, day>>
      <4> DEFINE trade == PositionOf(outcome.plan)
      <4>1. PICK price \in {trade.stop, trade.target} :
                 daily' = Book(daily, Gain(trade, price)) /\ day' = Book(day, Gain(trade, price))
        BY <1>10, <3>2 DEF ReplayOutcome
      <4> DEFINE pnl == Gain(trade, price)
      <4>2. daily' = Book(daily, pnl) /\ day' = Book(day, pnl)
        BY <4>1
      <4> HIDE DEF pnl, trade
      <4> QED
        BY <1>3, <2>3, <4>2 DEF Book, Accounts, Results
    <3> QED
      BY <3>1, <3>2
  <2> QED
    BY <1>4, <2>1, <2>2, <2>3, <2>4 DEF DayBooked
<1>11. CASE UNCHANGED dayVars
  <2>1. UNCHANGED <<candle, pc, outcome, daily, day>>
    BY <1>11 DEF dayVars
  <2>2. Opening' => WithinLimits(daily)'
    BY <1>5, <2>1 DEF Opening, WithinLimits
  <2> QED
    BY <1>4, <1>5, <2>1, <2>2 DEF DayBooked
<1>12. ~ Kill /\ ~ Restart /\ ~ LivePayload /\ ~ ExecutePlan
  BY <1>1 DEF Kill, Restart, LivePayload, ExecutePlan
<1> QED
  BY <1>6, <1>7, <1>8, <1>9, <1>10, <1>11, <1>12 DEF DayNext

LEMMA BookedHonoursLosses == FilesInv /\ DayBooked => ReplayHonoursLosses
<1> SUFFICES ASSUME FilesInv, DayBooked, mode = "replay", Opening
             PROVE  day.streak < MaxLosses /\ -day.pnl * 100 < MaxDrawdownPct * daily.start
  BY DEF ReplayHonoursLosses, LossesStopTheDay
<1>1. pc # "idle" /\ FilesOK
  BY DEF FilesInv, DayInv
<1>2. /\ daily.pnl = day.pnl /\ daily.streak = day.streak /\ WithinLimits(daily)
  BY <1>1 DEF DayBooked
<1>3. daily.pnl \in Int /\ daily.start \in Int /\ MaxDrawdownPct \in Nat
  BY <1>1, TradePlanAssumption DEF FilesOK, Accounts
<1>4. Min({0, daily.pnl}) \in Int /\ Min({0, daily.pnl}) <= daily.pnl
  <2>1. 0 \in Int
    OBVIOUS
  <2>2. Min({0, daily.pnl}) \in {0, daily.pnl} /\ Min({0, daily.pnl}) <= daily.pnl
    BY <1>3, <2>1, MinOfTwo
  <2> QED
    BY <1>3, <2>2
<1> DEFINE most == MaxDrawdownPct * daily.start
           least == Min({0, daily.pnl})
<1>5. most \in Int /\ least \in Int /\ least <= daily.pnl /\ -least * 100 < most
  BY <1>2, <1>3, <1>4 DEF WithinLimits
<1> HIDE DEF most, least
<1>6. -daily.pnl * 100 < most
  BY <1>3, <1>5
<1> QED
  BY <1>2, <1>6 DEF WithinLimits, most

\* As long as its equity is positive, a replay makes no plan on a day whose
\* losses in a row or whose drawdown have reached their limits.
THEOREM SolventReplaysHonourLosses == DaySpec /\ []Solvent => []ReplayHonoursLosses
<1>1. DaySpec /\ []Solvent => [](FilesInv /\ DayBooked)
  BY BookedInit, BookedNext, FilesInvAlways, PTL DEF DaySpec
<1> QED
  BY <1>1, BookedHonoursLosses, PTL

-----------------------------------------------------------------------------

\* No live plan risks more than its share of the funds that the account
\* reported in the same tick, or more margin than they allow.
THEOREM WithinBudgetAlways == DaySpec => []WithinBudget
<1>1. DayInv => WithinBudget
  <2> SUFFICES ASSUME DayInv, mode = "live", Opening PROVE WithinBudget
    BY DEF WithinBudget
  <2>1. Affordable(outcome.plan, payload.funds)
    BY DEF DayInv, Sound
  <2>2. payload.funds = Min({reply.available, reply.margin})
    BY DEF DayInv, BuiltOK
  <2> QED
    BY <2>1, <2>2 DEF WithinBudget, Affordable
<1> QED
  BY <1>1, DayInvAlways, PTL

\* The shares of every plan add up to what it opens, each can be ordered, and
\* a split opens what was sized.
THEOREM SharesAddUpAlways == DaySpec => []SharesAddUp
<1>1. DayInv => SharesAddUp
  <2> SUFFICES ASSUME DayInv, Opening PROVE SharesAddUp
    BY DEF SharesAddUp
  <2>1. Divided(outcome.plan, payload.funds)
    BY DEF DayInv, Sound
  <2> QED
    BY <2>1 DEF SharesAddUp, Divided
<1> QED
  BY <1>1, DayInvAlways, PTL

\* Wherever the levels are, the stop of a plan is on the losing side of its
\* entry and no further than a rule puts it, its targets on the winning side.
THEOREM StopsProtectAlways == DaySpec => []StopsProtect
<1>1. DayInv => StopsProtect
  <2> SUFFICES ASSUME DayInv, Opening PROVE StopsProtect
    BY DEF StopsProtect
  <2>1. Protected(outcome.plan)
    BY DEF DayInv, Sound
  <2> QED
    BY <2>1 DEF StopsProtect, Protected, Ordered, FarthestStop
<1> QED
  BY <1>1, DayInvAlways, PTL
=============================================================================
