--------------------------- MODULE DecisionProofs ---------------------------
(***************************************************************************)
(* Proofs about the decision tick, for every market, every setting and     *)
(* every number of candles.  What the strategies and the predictive layer  *)
(* say of a market stays abstract: the proofs rest on the order in which   *)
(* the engine asks, on the state it saves, and on the steps of the tick.   *)
(***************************************************************************)
EXTENDS DecisionTick, FiniteSetTheorems, WellFoundedInduction, TLAPS

-----------------------------------------------------------------------------
(* The stages of a decision *)

\* The stages an engine blocked by an event or its cooldown can reach.
LEMMA BlockedStages ==
  ASSUME NEW r, NEW ts, NEW strategy, NEW side, NEW hard, NEW pending, hard
  PROVE  Stage(r, ts, strategy, side, hard, pending) \in {"close", "none", "poor", "blocked"}
  BY DEF Stage

\* Only an entry of an earlier candle is confirmed.
LEMMA ConfirmStage ==
  ASSUME NEW r, NEW ts, NEW strategy, NEW side, NEW hard, NEW pending,
         Stage(r, ts, strategy, side, hard, pending) = "confirm"
  PROVE  pending.set # ts
  BY DEF Stage, Matches

LEMMA CloseStage ==
  ASSUME NEW r, NEW ts, NEW strategy, NEW side, NEW hard, NEW pending
  PROVE  /\ r.timeExit => Stage(r, ts, strategy, side, hard, pending) = "close"
         /\ ~r.timeExit => Stage(r, ts, strategy, side, hard, pending) # "close"
  BY DEF Stage

\* What is pending after a candle was pending before it, or was set on it.
LEMMA PendingSteps ==
  ASSUME NEW old, NEW cooldown, NEW ts, NEW m, "set" \in DOMAIN old
  PROVE  LET pending == PendingBefore(old, cooldown, ts, m)
         IN /\ "set" \in DOMAIN pending
            /\ pending.set \in {0, old.set}
  <1>1. "set" \in DOMAIN NoPending /\ NoPending.set = 0
    BY DEF NoPending
  <1>2. /\ "set" \in DOMAIN Aged(old, ts)
        /\ Aged(old, ts).set \in {0, old.set}
    BY <1>1 DEF Aged
  <1>. QED
    BY <1>1, <1>2 DEF PendingBefore

\* A pending entry like another one, but set on a candle.
SetOn(pending, ts) ==
    [side |-> pending.side, strategy |-> pending.strategy, set |-> ts, last |-> ts,
     remaining |-> ExpireCandles + 1]

LEMMA PendingAfterSteps ==
  ASSUME NEW stage, NEW pending, NEW side, NEW strategy, NEW ts, "set" \in DOMAIN pending
  PROVE  LET after == PendingAfter(stage, pending, side, strategy, ts)
         IN /\ "set" \in DOMAIN after
            /\ after.set \in {0, pending.set, ts}
            /\ stage = "confirm" => after = NoPending
            /\ stage \notin {"confirm", "set"} => after = pending
            /\ stage = "set" => after = SetOn(after, ts)
  BY DEF PendingAfter, NoPending, SetOn

-----------------------------------------------------------------------------
(* What one decision promises *)

LEMMA CooldownType ==
  ASSUME NEW old, NEW ts, NEW event, old.remaining \in Nat
  PROVE  Cooldown(old, ts, event).remaining \in Nat
  BY DecisionAssumption DEF Cooldown, DecisionAssumption

\* A decision opens in an execution of its own or not at all.
LEMMA DecidedExecution ==
  ASSUME NEW execution, NEW stage, NEW guess, NEW side, NEW strategy, NEW pending
  PROVE  Decided(execution, stage, guess, side, strategy, pending).execution = execution
  BY DEF Decided, NoDecision

\* A decision has the origin of the pending entry it confirms, or none.
LEMMA DecidedOrigin ==
  ASSUME NEW execution, NEW stage, NEW guess, NEW side, NEW strategy, NEW pending
  PROVE  LET origin == Decided(execution, stage, guess, side, strategy, pending).origin
         IN origin = 0 \/ (stage = "confirm" /\ origin = pending.set)
  BY DEF Decided, NoDecision

\* An opening execution passed the reject reasons and the event.
LEMMA OpeningExecution ==
  ASSUME NEW r, NEW stage, NEW block, NEW hard, NEW guess,
         Execution(r, stage, block, hard, guess) \in {"OPEN_CONFIRMED", "OPEN_EARLY"}
  PROVE  /\ ~Refused(r)
         /\ stage \in {"free", "confirm"} \/ (stage = "none" /\ ~hard)
  <1>1. CASE LegacyOpens(r, stage)
    BY <1>1 DEF LegacyOpens
  <1>2. CASE ~LegacyOpens(r, stage)
    <2>1. stage = "none" /\ ~HardHold(r, block) /\ ~hard
      BY <1>2 DEF Execution
    <2>. QED
      BY <2>1 DEF HardHold
  <1>. QED
    BY <1>1, <1>2

\* While the cooldown runs, nothing stays pending and nothing is set; a decision
\* that confirms a pending entry consumes it; one that opens was free to.
LEMMA OutcomeFacts ==
  ASSUME NEW old, NEW r, NEW ts, old.cooldown.remaining \in Nat, "set" \in DOMAIN old.pending
  PROVE  LET after == Outcome(old, r, ts).update
             made == Outcome(old, r, ts).decision
         IN /\ after.cooldown.remaining \in Nat
            /\ after.pending # NoPending => after.cooldown.remaining = 0
            /\ "set" \in DOMAIN after.pending
            /\ after.pending.set \in {0, old.pending.set, ts}
            /\ made.origin # 0 =>
                 made.origin = old.pending.set /\ made.origin # ts /\ after.pending = NoPending
            /\ Opens(made) =>
                 r.complete /\ ~r.held /\ EventClass(r.market) # "EVENT_CHAOTIC"
            /\ after.cooldown = Cooldown(old.cooldown, ts, r.market.event)
            /\ Opens(made) => after.cooldown.remaining = 0
            /\ after.pending \in {NoPending, SetOn(after.pending, ts), Aged(old.pending, ts)}
            /\ made.origin # 0 =>
                 Aged(old.pending, ts) # NoPending /\ made.origin = Aged(old.pending, ts).set
  <1> DEFINE m == r.market
             cooldown == Cooldown(old.cooldown, ts, m.event)
             block == EventBlock(cooldown, m)
             pending == PendingBefore(old.pending, cooldown, ts, m)
             guess == Prediction(m, old.memory, old.market)
             hard == HardBlock(cooldown, guess)
             strategy == Selected(m, block)
             side == IF strategy = "NONE" THEN "NONE"
                     ELSE SideTaken(PassedSides(strategy, m, block))
             stage == Stage(r, ts, strategy, side, hard, pending)
             execution == Execution(r, stage, block, hard, guess)
             after == Outcome(old, r, ts).update
             made == Outcome(old, r, ts).decision
  <1>1. cooldown.remaining \in Nat
    BY CooldownType
  <1>2. /\ after.cooldown = cooldown
        /\ after.pending = PendingAfter(stage, pending, side, strategy, ts)
        /\ made = Decided(execution, stage, guess, side, strategy, pending)
    BY DEF Outcome
  <1>3. hard => stage \in {"close", "none", "poor", "blocked"}
    <2>. HIDE DEF m, pending, strategy, side, hard
    <2>. QED
      BY BlockedStages
  <1>4. stage = "confirm" => pending.set # ts
    <2>. HIDE DEF m, pending, strategy, side, hard
    <2>. QED
      BY ConfirmStage
  <1>5. stage # "close" => ~r.timeExit
    <2>. HIDE DEF m, pending, strategy, side, hard
    <2>. QED
      BY CloseStage
  <1>6. cooldown.remaining > 0 => pending = NoPending /\ hard
    BY DEF PendingBefore, EventBlock, HardBlock
  <1>7. "set" \in DOMAIN pending /\ pending.set \in {0, old.pending.set}
    <2>. HIDE DEF m, cooldown
    <2>. QED
      BY PendingSteps
  <1>8. ~hard => EventClass(m) # "EVENT_CHAOTIC"
    BY DEF HardBlock, Prediction
  <1>. HIDE DEF m, cooldown, block, guess, hard, strategy, side, stage, pending, execution
  <1>9. /\ "set" \in DOMAIN after.pending
        /\ after.pending.set \in {0, pending.set, ts}
        /\ stage = "confirm" => after.pending = NoPending
        /\ stage \notin {"confirm", "set"} => after.pending = pending
        /\ stage = "set" => after.pending = SetOn(after.pending, ts)
    <2>. HIDE DEF after
    <2>. QED
      BY <1>2, <1>7, PendingAfterSteps
  <1>10. made.origin = 0 \/ (stage = "confirm" /\ made.origin = pending.set)
    <2>. HIDE DEF made
    <2>. QED
      BY <1>2, DecidedOrigin
  <1>11. ASSUME Opens(made)
         PROVE  /\ r.complete /\ ~r.held /\ EventClass(r.market) # "EVENT_CHAOTIC"
                /\ ~hard
    <2>. HIDE DEF made
    <2>1. execution \in {"OPEN_CONFIRMED", "OPEN_EARLY"}
      BY <1>2, <1>11, DecidedExecution DEF Opens
    <2>2. ~Refused(r) /\ (stage \in {"free", "confirm"} \/ (stage = "none" /\ ~hard))
      BY <2>1, OpeningExecution DEF execution
    <2>3. ~hard
      BY <2>2, <1>3
    <2>4. ~r.timeExit
      BY <2>2, <1>5
    <2>. QED
      BY <2>2, <2>3, <2>4, <1>8 DEF Refused, m
  <1>12. after.pending # NoPending => after.cooldown.remaining = 0
    <2>. HIDE DEF after
    <2>. QED
      BY <1>1, <1>2, <1>3, <1>6, <1>9
  <1>13. Opens(made) => after.cooldown.remaining = 0
    <2>. HIDE DEF after, made
    <2>1. ~hard => cooldown.remaining = 0
      BY <1>1, <1>6
    <2>. QED
      BY <2>1, <1>2, <1>11
  <1>14. pending \in {NoPending, Aged(old.pending, ts)}
    BY DEF pending, PendingBefore
  <1>15. after.pending \in {NoPending, SetOn(after.pending, ts), Aged(old.pending, ts)}
    <2>. HIDE DEF after
    <2>. QED
      BY <1>9, <1>14
  <1>16. ASSUME made.origin # 0
         PROVE  Aged(old.pending, ts) # NoPending /\ made.origin = Aged(old.pending, ts).set
    <2>. HIDE DEF made
    <2>1. NoPending.set = 0
      BY DEF NoPending
    <2>. QED
      BY <2>1, <1>10, <1>14, <1>16
  <1>17. after.cooldown = Cooldown(old.cooldown, ts, r.market.event)
    BY <1>2 DEF cooldown, m
  <1>. HIDE DEF after, made
  <1>. QED
    BY <1>1, <1>2, <1>4, <1>7, <1>9, <1>10, <1>11, <1>12, <1>13, <1>15, <1>16, <1>17
    DEF after, made

-----------------------------------------------------------------------------
(* The inductive invariant of the tick *)

\* A decision and the state it belongs to are made together and part in the
\* save: until then the pending entry a decision confirms is still saved, and
\* from then on it is not.  Origins that were handed over are older than the
\* candle, so no entry set on it can be one of them.
SavedInv ==
    /\ saved.cooldown.remaining \in Nat
    /\ NoPendingInCooldown
    /\ "set" \in DOMAIN saved.pending
    /\ saved.pending.set \in 0 .. candle
    /\ saved.pending.set \notin taken

CandleInv ==
    /\ candle \in Nat
    /\ taken \subseteq 1 .. (candle - 1)

OriginInv ==
    /\ pc = "idle" => decision = NoDecision
    /\ pc = "made" => decision = Tick.decision
    /\ pc \in {"made", "saved"} /\ decision.origin # 0 =>
         decision.origin \in 1 .. (candle - 1) /\ decision.origin \notin taken
    /\ pc = "saved" /\ decision.origin # 0 => saved.pending.set # decision.origin

TickInv == SavedInv /\ CandleInv /\ OriginInv /\ OpensOnlyWhenFree

LEMMA NothingDecided == NoDecision.origin = 0 /\ ~Opens(NoDecision)
  BY DEF NoDecision, Opens

LEMMA NothingSaved ==
  /\ DefaultState.cooldown.remaining = 0
  /\ DefaultState.pending = NoPending
  /\ "set" \in DOMAIN NoPending /\ NoPending.set = 0
  BY DEF DefaultState, NoPending

LEMMA TickFacts ==
  ASSUME TickInv
  PROVE  /\ Tick.update.cooldown.remaining \in Nat
         /\ Tick.update.pending # NoPending => Tick.update.cooldown.remaining = 0
         /\ "set" \in DOMAIN Tick.update.pending
         /\ Tick.update.pending.set \in {0, saved.pending.set, candle}
         /\ Tick.decision.origin # 0 =>
              /\ Tick.decision.origin = saved.pending.set
              /\ Tick.decision.origin # candle
              /\ Tick.update.pending = NoPending
         /\ Opens(Tick.decision) =>
              /\ reading.complete /\ ~reading.held
              /\ EventClass(reading.market) # "EVENT_CHAOTIC"
         /\ Tick.update.cooldown = Cooldown(saved.cooldown, candle, reading.market.event)
         /\ Opens(Tick.decision) => Tick.update.cooldown.remaining = 0
         /\ Tick.update.pending \in
              {NoPending, SetOn(Tick.update.pending, candle), Aged(saved.pending, candle)}
         /\ Tick.decision.origin # 0 =>
              /\ Aged(saved.pending, candle) # NoPending
              /\ Tick.decision.origin = Aged(saved.pending, candle).set
  BY OutcomeFacts DEF TickInv, SavedInv, Tick

LEMMA TickInvInit == TickInit => TickInv
  BY NothingDecided, NothingSaved
  DEF TickInit, TickInv, SavedInv, CandleInv, OriginInv, OpensOnlyWhenFree, NoPendingInCooldown

LEMMA TickInvStep == TickInv /\ [TickNext]_tickVars => TickInv'
  <1>. SUFFICES ASSUME TickInv, [TickNext]_tickVars PROVE TickInv'
    OBVIOUS
  <1>. USE DEF TickInv, SavedInv, CandleInv, OriginInv, OpensOnlyWhenFree, NoPendingInCooldown
  <1>1. CASE NextCandle
    BY <1>1, NothingDecided DEF NextCandle
  <1>2. CASE PositionMoves
    BY <1>2, NothingDecided DEF PositionMoves
  <1>3. CASE MakeDecision
    <2>1. /\ UNCHANGED <<candle, reading, saved, gate, decided, eventful, taken>>
          /\ decision' = Tick.decision /\ pc' = "made"
      BY <1>3 DEF MakeDecision
    <2>2. Tick' = Tick
      BY <2>1 DEF Tick
    <2>3. decision'.origin # 0 =>
            decision'.origin \in 1 .. (candle - 1) /\ decision'.origin \notin taken
      BY <2>1, TickFacts
    <2>. QED
      BY <2>1, <2>2, <2>3, TickFacts DEF Opens
  <1>4. CASE SaveDecisionState
    <2>1. /\ UNCHANGED <<candle, reading, decision, gate, taken>>
          /\ saved' = Tick.update /\ pc' = "saved" /\ pc = "made"
      BY <1>4 DEF SaveDecisionState
    <2>2. SavedInv'
      BY <2>1, TickFacts
    <2>3. decision.origin # 0 => saved'.pending.set = 0
      BY <2>1, TickFacts, NothingSaved
    <2>. QED
      BY <2>1, <2>2, <2>3 DEF Opens
  <1>5. CASE HandOver
    BY <1>5 DEF HandOver, Opens
  <1>6. CASE SaveGate
    BY <1>6, NothingDecided DEF SaveGate
  <1>7. CASE Crash
    BY <1>7, NothingDecided DEF Crash
  <1>8. CASE CrashInSave
    BY <1>8, NothingDecided, NothingSaved DEF CrashInSave
  <1>9. CASE UNCHANGED tickVars
    BY <1>9 DEF tickVars, Tick, Opens
  <1>. QED
    BY <1>1, <1>2, <1>3, <1>4, <1>5, <1>6, <1>7, <1>8, <1>9 DEF TickNext

LEMMA TickInvariant == TickSpec => []TickInv
  BY TickInvInit, TickInvStep, PTL DEF TickSpec

-----------------------------------------------------------------------------
(* Candles counted since an event, and since a pending entry was set *)

Later(S, e) == {d \in S : e < d}

LEMMA LaterCounts ==
  ASSUME NEW c \in Nat, NEW S \in SUBSET (1 .. c), NEW e \in 0 .. c
  PROVE  /\ IsFiniteSet(Later(S, e)) /\ Cardinality(Later(S, e)) \in Nat
         /\ c \in S \/ e = c => Cardinality(Later(S \cup {c}, e)) = Cardinality(Later(S, e))
         /\ c \notin S /\ e # c =>
              Cardinality(Later(S \cup {c}, e)) = Cardinality(Later(S, e)) + 1
  <1>1. IsFiniteSet(1 .. c)
    BY FS_Interval
  <1>2. IsFiniteSet(Later(S, e)) /\ Cardinality(Later(S, e)) \in Nat
    <2>1. Later(S, e) \in SUBSET (1 .. c)
      BY DEF Later
    <2>. QED
      BY <1>1, <2>1, FS_Subset, FS_CardinalityType
  <1>3. c \in S \/ e = c => Later(S \cup {c}, e) = Later(S, e)
    BY DEF Later
  <1>4. ASSUME c \notin S, e # c
        PROVE  Later(S \cup {c}, e) = Later(S, e) \cup {c} /\ c \notin Later(S, e)
    BY <1>4 DEF Later
  <1>. QED
    BY <1>2, <1>3, <1>4, FS_AddElement

\* The candles left of a cooldown make up for those decided since any event.
CooldownCount(dec, ev, cooldown) ==
    \A e \in ev : Cardinality(Later(dec, e)) + cooldown.remaining >= CooldownCandles

\* A pending entry has used up a candle of its window for each one decided since.
PendingCount(dec, pending) ==
    pending # NoPending =>
        /\ pending.set \in dec /\ pending.remaining \in Nat \ {0}
        /\ Cardinality(Later(dec, pending.set)) + pending.remaining <= ExpireCandles + 1

\* Whether the candle is decided can be read off the cooldown and off the entry.
LastSeen(dec, cooldown, pending) ==
    /\ cooldown.remaining \in Nat /\ cooldown.last \in 0 .. candle
    /\ candle # 0 => (candle \in dec <=> cooldown.last = candle)
    /\ pending # NoPending =>
         /\ {"set", "last", "remaining"} \subseteq DOMAIN pending
         /\ pending.last \in 0 .. candle
         /\ candle \in dec <=> pending.last = candle

Counts(dec, ev, cooldown, pending) ==
    /\ dec \subseteq 1 .. candle /\ ev \subseteq dec
    /\ CooldownCount(dec, ev, cooldown) /\ PendingCount(dec, pending)
    /\ LastSeen(dec, cooldown, pending)

CountInv ==
    /\ gate \in Nat /\ (pc # "idle" => candle # 0)
    /\ Counts(decided, eventful, saved.cooldown, saved.pending)

EventfulAfter == eventful \cup (IF reading.market.event THEN {candle} ELSE {})

LEMMA CooldownStep ==
  ASSUME TickInv, CountInv, candle # 0
  PROVE  LET cooldown == Cooldown(saved.cooldown, candle, reading.market.event)
         IN /\ CooldownCount(decided \cup {candle}, EventfulAfter, cooldown)
            /\ cooldown.last = candle /\ cooldown.remaining \in Nat
  <1>. DEFINE event == reading.market.event
              dec == decided \cup {candle}
              cooldown == Cooldown(saved.cooldown, candle, event)
  <1>1. /\ candle \in Nat /\ decided \in SUBSET (1 .. candle) /\ eventful \subseteq decided
        /\ saved.cooldown.remaining \in Nat
        /\ candle \in decided <=> saved.cooldown.last = candle
    BY DEF TickInv, CandleInv, SavedInv, CountInv, Counts, LastSeen
  <1>2. cooldown.last = candle /\ cooldown.remaining \in Nat
    BY <1>1, CooldownType DEF Cooldown
  <1>3. CooldownCandles \in Nat
    BY DecisionAssumption DEF DecisionAssumption
  <1>4. ASSUME NEW e \in EventfulAfter
        PROVE  Cardinality(Later(dec, e)) + cooldown.remaining >= CooldownCandles
    <2>1. e \in 0 .. candle
      <3>1. e \in eventful \/ e = candle
        BY <1>4 DEF EventfulAfter
      <3>2. e \in decided \/ e = candle
        BY <1>1, <3>1
      <3>3. e \in 1 .. candle \/ e = candle
        BY <1>1, <3>2
      <3>. HIDE DEF event
      <3>. QED
        BY <1>1, <3>3
    <2>2. dec \in SUBSET (1 .. candle)
      BY <1>1
    <2>3. Cardinality(Later(dec, e)) \in Nat /\ Cardinality(Later(decided, e)) \in Nat
      <3>. HIDE DEF dec
      <3>. QED
        BY <1>1, <2>1, <2>2, LaterCounts
    <2>4. CASE event
      <3>1. cooldown.remaining = CooldownCandles
        BY <2>4 DEF Cooldown
      <3>. QED
        BY <1>3, <2>3, <3>1
    <2>5. CASE ~event
      <3>1. e \in decided
        BY <1>1, <2>5 DEF EventfulAfter
      <3>2. Cardinality(Later(decided, e)) + saved.cooldown.remaining >= CooldownCandles
        <4>1. e \in eventful
          BY <2>5 DEF EventfulAfter
        <4>. QED
          BY <4>1 DEF CountInv, Counts, CooldownCount
      <3>3. CASE candle \in decided
        <4>1. cooldown.remaining = saved.cooldown.remaining
          BY <1>1, <2>5, <3>3 DEF Cooldown
        <4>2. dec = decided
          BY <3>3
        <4>. QED
          BY <3>2, <4>1, <4>2
      <3>4. CASE candle \notin decided
        <4>1. \/ cooldown.remaining = 0 /\ saved.cooldown.remaining = 0
              \/ cooldown.remaining = saved.cooldown.remaining - 1
          BY <1>1, <2>5, <3>4 DEF Cooldown
        <4>2. Cardinality(Later(dec, e)) = Cardinality(Later(decided, e)) + 1
          BY <1>1, <2>1, <3>1, <3>4, LaterCounts
        <4>. HIDE DEF dec, cooldown
        <4>. QED
          BY <1>1, <1>2, <1>3, <2>3, <3>2, <4>1, <4>2
      <3>. QED
        BY <3>3, <3>4
    <2>. QED
      BY <2>4, <2>5
  <1>. QED
    BY <1>2, <1>4 DEF CooldownCount

\* An entry that ages stays within its window; the candle uses up one of it the
\* first time it is decided.
LEMMA AgedStep ==
  ASSUME TickInv, CountInv, candle # 0, Aged(saved.pending, candle) # NoPending
  PROVE  LET aged == Aged(saved.pending, candle)
         IN /\ PendingCount(decided \cup {candle}, aged)
            /\ {"set", "last", "remaining"} \subseteq DOMAIN aged
            /\ aged.last = candle /\ aged.set = saved.pending.set
  <1>. DEFINE old == saved.pending
              aged == Aged(saved.pending, candle)
              dec == decided \cup {candle}
  <1>1. old # NoPending
    BY DEF Aged
  <1>2. /\ candle \in Nat /\ decided \in SUBSET (1 .. candle)
        /\ {"set", "last", "remaining"} \subseteq DOMAIN old
        /\ candle \in decided <=> old.last = candle
        /\ old.set \in decided /\ old.remaining \in Nat \ {0}
        /\ Cardinality(Later(decided, old.set)) + old.remaining <= ExpireCandles + 1
    BY <1>1 DEF TickInv, CandleInv, CountInv, Counts, LastSeen, PendingCount
  <1>3. Cardinality(Later(decided, old.set)) \in Nat
    <2>1. old.set \in 1 .. candle
      BY <1>2
    <2>2. old.set \in 0 .. candle
      BY <1>2, <2>1
    <2>. QED
      BY <1>2, <2>2, LaterCounts
  <1>4. ExpireCandles \in Nat
    BY DecisionAssumption DEF DecisionAssumption
  <1>5. CASE candle \in decided
    <2>1. aged = old /\ dec = decided
      BY <1>1, <1>2, <1>5 DEF Aged
    <2>. HIDE DEF aged, dec, old
    <2>. QED
      BY <1>2, <1>5, <2>1 DEF PendingCount, aged, dec, old
  <1>6. CASE candle \notin decided
    <2>1. /\ old.remaining > 1
          /\ aged = [old EXCEPT !.remaining = @ - 1, !.last = candle]
      BY <1>1, <1>2, <1>6 DEF Aged
    <2>2. /\ aged.remaining = old.remaining - 1 /\ aged.last = candle /\ aged.set = old.set
          /\ DOMAIN aged = DOMAIN old
      <3>. HIDE DEF aged, old
      <3>. QED
        BY <1>2, <2>1
    <2>3. Cardinality(Later(dec, old.set)) = Cardinality(Later(decided, old.set)) + 1
      <3>1. old.set \in 1 .. candle /\ old.set # candle
        BY <1>2, <1>6
      <3>2. old.set \in 0 .. candle
        BY <1>2, <3>1
      <3>. QED
        BY <1>2, <1>6, <3>1, <3>2, LaterCounts
    <2>4. PendingCount(dec, aged)
      <3>1. aged.set \in dec /\ aged.remaining \in Nat \ {0}
        BY <1>2, <2>1, <2>2
      <3>2. Cardinality(Later(dec, aged.set)) + aged.remaining <= ExpireCandles + 1
        <4>. HIDE DEF dec, aged, old
        <4>. QED
          BY <1>2, <1>3, <1>4, <2>2, <2>3
      <3>. QED
        BY <3>1, <3>2 DEF PendingCount
    <2>. QED
      BY <1>2, <2>2, <2>4
  <1>. QED
    BY <1>5, <1>6

\* An entry that is set on the candle has its whole window before it.
LEMMA SetStep ==
  ASSUME TickInv, CountInv, candle # 0, NEW pending, pending = SetOn(pending, candle)
  PROVE  /\ PendingCount(decided \cup {candle}, pending)
         /\ {"set", "last", "remaining"} \subseteq DOMAIN pending
         /\ pending.last = candle
  <1>1. /\ pending.set = candle /\ pending.last = candle
        /\ pending.remaining = ExpireCandles + 1
        /\ {"set", "last", "remaining"} \subseteq DOMAIN pending
    BY DEF SetOn
  <1>2. ExpireCandles \in Nat
    BY DecisionAssumption DEF DecisionAssumption
  <1>3. Cardinality(Later(decided \cup {candle}, candle)) = 0
    <2>1. candle \in Nat /\ \A d \in decided : d \in 1 .. candle
      BY DEF TickInv, CandleInv, CountInv, Counts
    <2>2. \A d \in decided \cup {candle} : ~(candle < d)
      BY <2>1
    <2>3. Later(decided \cup {candle}, candle) = {}
      BY <2>2 DEF Later
    <2>. QED
      BY <2>3, FS_EmptySet
  <1>. QED
    BY <1>1, <1>2, <1>3 DEF PendingCount

LEMMA CountsAfter ==
  ASSUME TickInv, CountInv, candle # 0
  PROVE  Counts(decided \cup {candle}, EventfulAfter, Tick.update.cooldown, Tick.update.pending)
  <1>. DEFINE dec == decided \cup {candle}
              after == Tick.update
  <1>1. candle \in Nat /\ decided \subseteq 1 .. candle /\ eventful \subseteq decided
    BY DEF TickInv, CandleInv, CountInv, Counts
  <1>2. dec \subseteq 1 .. candle /\ EventfulAfter \subseteq dec
    BY <1>1 DEF EventfulAfter
  <1>3. /\ CooldownCount(dec, EventfulAfter, after.cooldown)
        /\ after.cooldown.last = candle /\ after.cooldown.remaining \in Nat
    BY TickFacts, CooldownStep
  <1>4. ASSUME after.pending # NoPending
        PROVE  /\ PendingCount(dec, after.pending)
               /\ {"set", "last", "remaining"} \subseteq DOMAIN after.pending
               /\ after.pending.last = candle
    <2>1. \/ after.pending = SetOn(after.pending, candle)
          \/ after.pending = Aged(saved.pending, candle)
      BY <1>4, TickFacts
    <2>. HIDE DEF after
    <2>. QED
      BY <1>4, <2>1, SetStep, AgedStep
  <1>5. PendingCount(dec, after.pending)
    BY <1>4 DEF PendingCount
  <1>6. LastSeen(dec, after.cooldown, after.pending)
    <2>. HIDE DEF after
    <2>. QED
      BY <1>1, <1>3, <1>4 DEF LastSeen
  <1>. QED
    BY <1>2, <1>3, <1>5, <1>6 DEF Counts

LEMMA CountInvInit == TickInit => CountInv
  BY NothingSaved
  DEF TickInit, CountInv, Counts, CooldownCount, PendingCount, LastSeen, DefaultState

LEMMA CountInvStep == TickInv /\ CountInv /\ [TickNext]_tickVars => CountInv'
  <1>. SUFFICES ASSUME TickInv, CountInv, [TickNext]_tickVars PROVE CountInv'
    OBVIOUS
  <1>0. candle \in Nat /\ gate \in Nat
    BY DEF TickInv, CandleInv, CountInv
  <1>1. CASE NextCandle
    <2>1. /\ candle' = candle + 1 /\ pc = "idle"
          /\ UNCHANGED <<pc, decision, saved, gate, decided, eventful, taken>>
      BY <1>1 DEF NextCandle
    <2>2. candle' \notin decided /\ saved.cooldown.last # candle'
      BY <1>0, <2>1 DEF CountInv, Counts, LastSeen
    <2>3. LastSeen(decided, saved.cooldown, saved.pending)'
      BY <1>0, <2>1, <2>2 DEF CountInv, Counts, LastSeen
    <2>4. decided \subseteq 1 .. candle'
      BY <1>0, <2>1 DEF CountInv, Counts
    <2>. QED
      BY <2>1, <2>3, <2>4 DEF CountInv, Counts, CooldownCount, PendingCount
  <1>2. CASE SaveDecisionState
    <2>1. /\ saved' = Tick.update /\ decided' = decided \cup {candle}
          /\ eventful' = EventfulAfter
          /\ UNCHANGED <<candle, gate>> /\ candle # 0
      BY <1>2 DEF SaveDecisionState, EventfulAfter, CountInv
    <2>2. Counts(decided', eventful', saved'.cooldown, saved'.pending)
      BY <2>1, CountsAfter
    <2>. QED
      BY <1>0, <2>1, <2>2 DEF CountInv, Counts, LastSeen
  <1>3. CASE CrashInSave
    <2>1. /\ saved' = DefaultState /\ decided' = {} /\ eventful' = {} /\ pc' = "idle"
          /\ UNCHANGED <<candle, gate>>
      BY <1>3 DEF CrashInSave
    <2>2. Counts(decided, eventful, saved.cooldown, saved.pending)'
      BY <1>0, <2>1, NothingSaved
      DEF Counts, CooldownCount, PendingCount, LastSeen, DefaultState
    <2>. QED
      BY <1>0, <2>1, <2>2 DEF CountInv
  <1>4. ASSUME UNCHANGED <<candle, saved, decided, eventful>>, gate' \in Nat,
               pc' # "idle" => candle # 0
        PROVE  CountInv'
    BY <1>4 DEF CountInv, Counts, CooldownCount, PendingCount, LastSeen
  <1>5. CASE MakeDecision
    BY <1>0, <1>4, <1>5 DEF MakeDecision
  <1>6. CASE SaveGate
    BY <1>0, <1>4, <1>6 DEF SaveGate, CountInv
  <1>7. CASE PositionMoves \/ HandOver \/ Crash \/ UNCHANGED tickVars
    BY <1>0, <1>4, <1>7 DEF PositionMoves, HandOver, Crash, tickVars, CountInv
  <1>. QED
    BY <1>1, <1>2, <1>3, <1>5, <1>6, <1>7 DEF TickNext

LEMMA CountInvariant == TickSpec => []CountInv
  BY TickInvariant, CountInvInit, CountInvStep, PTL DEF TickSpec

LEMMA CooldownHeld == TickInv /\ CountInv => CooldownHolds
  <1>. SUFFICES ASSUME TickInv, CountInv, pc = "made", Opens(decision),
                       NEW e \in EventfulAfter
                PROVE  Cardinality({d \in decided \cup {candle} : e < d}) >= CooldownCandles
    BY DEF CooldownHolds, EventfulAfter
  <1>1. decision = Tick.decision /\ candle # 0
    BY DEF TickInv, OriginInv, CountInv
  <1>2. Tick.update.cooldown.remaining = 0
    BY <1>1, TickFacts
  <1>3. Cardinality(Later(decided \cup {candle}, e)) + 0 >= CooldownCandles
    BY <1>1, <1>2, CountsAfter DEF Counts, CooldownCount
  <1>4. Cardinality(Later(decided \cup {candle}, e)) \in Nat
    <2>1. /\ candle \in Nat /\ e \in 0 .. candle
          /\ decided \cup {candle} \in SUBSET (1 .. candle)
      BY <1>1 DEF TickInv, CandleInv, CountInv, Counts, EventfulAfter
    <2>. QED
      BY <2>1, LaterCounts
  <1>. QED
    BY <1>3, <1>4 DEF Later

LEMMA WindowKept == TickInv /\ CountInv => ConfirmsInWindow
  <1>. SUFFICES ASSUME TickInv, CountInv, pc = "made", decision.origin # 0
                PROVE  /\ decision.origin < candle
                       /\ Cardinality({d \in decided : decision.origin < d /\ d < candle})
                            < ExpireCandles
    BY DEF ConfirmsInWindow
  <1>. DEFINE aged == Aged(saved.pending, candle)
              dec == decided \cup {candle}
              before == {d \in decided : decision.origin < d /\ d < candle}
  <1>1. decision = Tick.decision /\ candle # 0 /\ candle \in Nat
        /\ decision.origin \in 1 .. (candle - 1)
    BY DEF TickInv, OriginInv, CountInv, CandleInv
  <1>2. aged # NoPending /\ decision.origin = aged.set
    BY <1>1, TickFacts
  <1>3. aged.remaining >= 1
        /\ aged.remaining \in Nat
        /\ Cardinality(Later(dec, aged.set)) + aged.remaining <= ExpireCandles + 1
    BY <1>1, <1>2, AgedStep DEF PendingCount
  <1>4. dec \in SUBSET (1 .. candle) /\ candle \notin before
    BY <1>1 DEF CountInv, Counts
  <1>5. Later(dec, aged.set) = before \cup {candle}
    <2>. HIDE DEF aged
    <2>. QED
      BY <1>1, <1>2, <1>4 DEF Later
  <1>6. IsFiniteSet(before)
    <2>1. before \in SUBSET (1 .. candle) /\ IsFiniteSet(1 .. candle)
      BY <1>1, <1>4, FS_Interval
    <2>. QED
      BY <2>1, FS_Subset
  <1>7. Cardinality(before \cup {candle}) = Cardinality(before) + 1 /\ Cardinality(before) \in Nat
    <2>. HIDE DEF before
    <2>. QED
      BY <1>4, <1>6, FS_AddElement, FS_CardinalityType
  <1>8. ExpireCandles \in Nat
    BY DecisionAssumption DEF DecisionAssumption
  <1>. HIDE DEF aged, dec, before
  <1>9. Cardinality(before) < ExpireCandles
    BY <1>3, <1>5, <1>7, <1>8
  <1>. QED
    BY <1>1, <1>9 DEF before

-----------------------------------------------------------------------------
(* What the strategies and the predictive layer can say of a market *)

LEMMA LeastNatural ==
  ASSUME NEW S \in SUBSET Nat, S # {}
  PROVE  Min(S) \in S /\ \A y \in S : Min(S) <= y
  <1>1. PICK x \in S : \A y \in S : ~ (<<y, x>> \in OpToRel(<, Nat))
    BY WFMin, NatLessThanWellFounded
  <1>2. \A y \in S : ~ (y < x)
    BY <1>1 DEF OpToRel
  <1>3. \A y \in S : x <= y
    BY <1>2
  <1>. QED
    BY <1>3 DEF Min

\* When one of the rules holds, one that holds speaks.
LEMMA FirstHolds ==
  ASSUME NEW n \in Nat, NEW rules, DOMAIN rules = 1 .. n, NEW k \in 1 .. n, rules[k][2]
  PROVE  \E i \in 1 .. n : rules[i][2] /\ First(rules) = rules[i][1]
  <1>. DEFINE holding == {i \in DOMAIN rules : rules[i][2]}
  <1>1. holding \in SUBSET Nat /\ holding # {}
    OBVIOUS
  <1>2. Min(holding) \in holding
    <2>. HIDE DEF holding
    <2>. QED
      BY <1>1, LeastNatural
  <1>3. First(rules) = rules[Min(holding)][1]
    BY DEF First
  <1>. QED
    BY <1>2, <1>3

LEMMA RegimeKnown ==
  ASSUME NEW m
  PROVE  Regime(m) \in Regimes
  <1>. DEFINE rules == RegimeRules(m)
  <1>1. DOMAIN rules = 1 .. 10 /\ rules[10][2]
    BY DEF RegimeRules
  <1>2. \A i \in 1 .. 10 : rules[i][1] \in Regimes
    BY DEF RegimeRules, Regimes
  <1>. HIDE DEF rules
  <1>3. \E i \in 1 .. 10 : First(rules) = rules[i][1]
    <2>1. 10 \in Nat /\ 10 \in 1 .. 10
      OBVIOUS
    <2>. QED
      BY <1>1, <2>1, FirstHolds
  <1>. QED
    BY <1>2, <1>3 DEF Regime, rules

LEMMA ElementOf == ASSUME NEW S, NEW s \in Seq(S), NEW i \in 1 .. Len(s) PROVE s[i] \in S
  OBVIOUS

LEMMA CandidatesKnown ==
  ASSUME NEW m
  PROVE  DOMAIN Candidates(m) = 1 .. 7 /\ \A i \in 1 .. 7 : Candidates(m)[i] \in Names
  <1>1. Names = {BO, SQ, TA, CO, PB, MR, RL}
    <2>1. DOMAIN AllStrategies = 1 .. 7
      BY DEF AllStrategies
    <2>. QED
      BY <2>1 DEF Names, AllStrategies, BO, SQ, TA, CO, PB, MR, RL
  <1>. DEFINE Known(order) == DOMAIN order = 1 .. 7 /\ \A i \in 1 .. 7 : order[i] \in Names
  <1>2. Known(Priority[Regime(m)])
    <2>1. ASSUME NEW regime \in Regimes PROVE Known(Priority[regime])
      <3>1. Priority[regime] \in
              {<<BO, SQ, TA, CO, PB, MR, RL>>, <<SQ, BO, TA, CO, PB, MR, RL>>,
               <<CO, TA, BO, PB, SQ, MR, RL>>, <<TA, CO, BO, PB, SQ, MR, RL>>,
               <<PB, CO, TA, BO, SQ, MR, RL>>, <<MR, CO, BO, TA, PB, SQ, RL>>,
               <<SQ, BO, CO, TA, PB, MR, RL>>, <<BO, SQ, CO, TA, PB, MR, RL>>}
        BY DEF Priority
      <3>. QED
        BY <1>1, <3>1
    <2>. QED
      BY <2>1, RegimeKnown
  <1>3. Known((IF PullbackGeometry(m) THEN <<PB, CO>> ELSE <<CO, PB>>) \o <<TA, BO, SQ, MR, RL>>)
    <2>1. ASSUME NEW a \in Names, NEW b \in Names
          PROVE  Known(<<a, b>> \o <<TA, BO, SQ, MR, RL>>)
      <3>1. <<a, b>> \in Seq(Names) /\ Len(<<a, b>>) = 2
        OBVIOUS
      <3>2. <<TA, BO, SQ, MR, RL>> \in Seq(Names) /\ Len(<<TA, BO, SQ, MR, RL>>) = 5
        BY <1>1
      <3>. DEFINE all == <<a, b>> \o <<TA, BO, SQ, MR, RL>>
      <3>3. all \in Seq(Names) /\ Len(all) = 7
        BY <3>1, <3>2
      <3>. HIDE DEF all
      <3>4. DOMAIN all = 1 .. Len(all)
        BY <3>3
      <3>5. \A i \in 1 .. Len(all) : all[i] \in Names
        BY <3>3, ElementOf
      <3>. QED
        BY <3>3, <3>4, <3>5 DEF all
    <2>2. PB \in Names /\ CO \in Names
      BY <1>1
    <2>. HIDE DEF Known
    <2>. QED
      BY <2>1, <2>2
  <1>. QED
    BY <1>2, <1>3 DEF Candidates

LEMMA SelectedKnown ==
  ASSUME NEW m, NEW block
  PROVE  Selected(m, block) \in Names \cup {"NONE"}
  <1>. DEFINE order == Candidates(m)
              wanted == {i \in DOMAIN order : Eligible(order[i], m, block)}
  <1>1. wanted \in SUBSET (1 .. 7) /\ \A i \in 1 .. 7 : order[i] \in Names
    BY CandidatesKnown
  <1>2. Selected(m, block) = IF wanted = {} THEN "NONE" ELSE order[Min(wanted)]
    BY DEF Selected
  <1>. HIDE DEF order, wanted
  <1>3. wanted # {} => Min(wanted) \in wanted
    <2>1. wanted \in SUBSET Nat
      BY <1>1
    <2>. QED
      BY <2>1, LeastNatural
  <1>. QED
    BY <1>1, <1>2, <1>3

LEMMA SidesTaken == ASSUME NEW sides PROVE SideTaken(sides) \in Sides
  BY DEF SideTaken, Sides

LEMMA EventClasses ==
  ASSUME NEW m
  PROVE  /\ EventClass(m) \in {"NONE", "EVENT_DIRECTIONAL", "EVENT_CHAOTIC"}
         /\ m.event => EventClass(m) \in {"EVENT_DIRECTIONAL", "EVENT_CHAOTIC"}
  BY DEF EventClass

LEMMA MarketStateKnown ==
  ASSUME NEW m, NEW memory, NEW previous \in MarketStates
  PROVE  NextMarketState(m, memory, previous) \in MarketStates
  <1>1. \A side, stage : StateName(side, stage) \in MarketStates
    BY DEF StateName, MarketStates
  <1>2. {"EVENT_DIRECTIONAL", "EVENT_CHAOTIC", "RANGE_BALANCED"} \subseteq MarketStates
    BY DEF MarketStates
  <1>. QED
    BY <1>1, <1>2, EventClasses DEF NextMarketState

LEMMA BiasKnown ==
  ASSUME NEW m \in Markets, NEW memory, NEW market
  PROVE  Bias(m, memory, market).bias \in Sides \cup {"NEUTRAL", "NONE"}
  <1>. DEFINE directional == [bias |-> m.closeAt, state |-> "EVENT_DIRECTIONAL", tier |-> "HIGH"]
              rules == << <<Neutral("NEUTRAL"), ~PredictiveLayer>>,
             <<Neutral("CHOP"), EventClass(m) = "EVENT_CHAOTIC">>,
             <<directional, EventClass(m) = "EVENT_DIRECTIONAL">>,
             <<FailurePrediction(m, "SHORT"), TrendFailure(m, "SHORT", memory)>>,
             <<FailurePrediction(m, "LONG"), TrendFailure(m, "LONG", memory)>>,
             <<EarlyPrediction("SHORT"), LocalBreak(m, "SHORT") /\ Acceptance(m, "SHORT")>>,
             <<EarlyPrediction("LONG"), LocalBreak(m, "LONG") /\ Acceptance(m, "LONG")>>,
             <<Neutral("CHOP"), market = "RANGE_BALANCED">>,
             <<Neutral("NEUTRAL"), TRUE>> >>
  <1>1. DOMAIN rules = 1 .. 9 /\ rules[9][2]
    OBVIOUS
  <1>2. \A i \in 1 .. 9 : rules[i][1] \in
            {Neutral("NEUTRAL"), Neutral("CHOP"), directional, FailurePrediction(m, "SHORT"),
             FailurePrediction(m, "LONG"), EarlyPrediction("SHORT"), EarlyPrediction("LONG")}
    <2>. HIDE DEF directional
    <2>. QED
      OBVIOUS
  <1>3. Bias(m, memory, market) = First(rules)
    BY DEF Bias
  <1>4. /\ Neutral("NEUTRAL").bias = "NEUTRAL" /\ Neutral("CHOP").bias = "NEUTRAL"
        /\ directional.bias = m.closeAt
        /\ FailurePrediction(m, "SHORT").bias = "SHORT" /\ FailurePrediction(m, "LONG").bias = "LONG"
        /\ EarlyPrediction("SHORT").bias = "SHORT" /\ EarlyPrediction("LONG").bias = "LONG"
    BY DEF Neutral, FailurePrediction, EarlyPrediction
  <1>5. m.closeAt \in Sides \cup {"NONE"}
    BY DEF Markets
  <1>. HIDE DEF rules, directional
  <1>6. \E i \in 1 .. 9 : First(rules) = rules[i][1]
    <2>1. 9 \in Nat /\ 9 \in 1 .. 9
      OBVIOUS
    <2>. QED
      BY <1>1, <2>1, FirstHolds
  <1>7. First(rules) \in
            {Neutral("NEUTRAL"), Neutral("CHOP"), directional, FailurePrediction(m, "SHORT"),
             FailurePrediction(m, "LONG"), EarlyPrediction("SHORT"), EarlyPrediction("LONG")}
    BY <1>2, <1>6
  <1>. QED
    BY <1>3, <1>4, <1>5, <1>7 DEF Sides

-----------------------------------------------------------------------------
(* The labels that wait.  They stand in the order of their candles, and an   *)
(* older one has never waited less than a younger one: what has waited its   *)
(* horizon is therefore at the front.                                        *)

Labels == [ts : Candles, elapsed : 0 .. Horizon - 1]

QueueOK(queue, last) ==
    /\ queue \in Seq(Labels)
    /\ \A i \in 1 .. Len(queue) : queue[i].ts <= last
    /\ \A i, j \in 1 .. Len(queue) :
         i <= j => queue[i].ts <= queue[j].ts /\ queue[i].elapsed >= queue[j].elapsed

LEMMA EndOfSequence ==
  ASSUME NEW S, NEW s \in Seq(S), NEW a \in 1 .. Len(s) + 1
  PROVE  /\ SubSeq(s, a, Len(s)) \in Seq(S) /\ Len(SubSeq(s, a, Len(s))) = Len(s) - a + 1
         /\ \A i \in 1 .. Len(s) - a + 1 : SubSeq(s, a, Len(s))[i] = s[a + i - 1]
  <1>1. Len(s) \in Nat /\ \A i \in 1 .. Len(s) : s[i] \in S
    OBVIOUS
  <1>2. \A i \in 1 .. Len(s) - a + 1 : SubSeq(s, a, Len(s))[i] = s[a + i - 1]
    BY <1>1
  <1>3. Len(SubSeq(s, a, Len(s))) = Len(s) - a + 1
    BY <1>1
  <1>4. SubSeq(s, a, Len(s)) \in Seq(S)
    BY <1>1
  <1>. QED
    BY <1>2, <1>3, <1>4

LEMMA CutKeeps ==
  ASSUME NEW last, NEW queue, QueueOK(queue, last), NEW limit \in Nat
  PROVE  /\ QueueOK(LastOf(queue, limit), last)
         /\ Len(LastOf(queue, limit)) <= limit /\ Len(LastOf(queue, limit)) <= Len(queue)
         /\ \A i \in 1 .. Len(LastOf(queue, limit)) :
                \E j \in 1 .. Len(queue) : LastOf(queue, limit)[i] = queue[j]
  <1>. DEFINE n == Len(queue)
              from == IF n > limit THEN n - limit + 1 ELSE 1
              cut == SubSeq(queue, from, n)
  <1>1. queue \in Seq(Labels) /\ n \in Nat
    BY DEF QueueOK
  <1>2. from \in 1 .. n + 1 /\ n - from + 1 <= limit
    BY <1>1
  <1>3. /\ cut \in Seq(Labels) /\ Len(cut) = n - from + 1
        /\ \A i \in 1 .. n - from + 1 : cut[i] = queue[from + i - 1]
    <2>. HIDE DEF from
    <2>. QED
      BY <1>1, <1>2, EndOfSequence
  <1>. HIDE DEF cut, from
  <1>4. \A i \in 1 .. Len(cut) : cut[i] = queue[from + i - 1] /\ from + i - 1 \in 1 .. n
    BY <1>1, <1>2, <1>3
  <1>5. LastOf(queue, limit) = cut
    BY DEF LastOf, cut, from
  <1>6. \A i \in 1 .. Len(cut) : cut[i].ts <= last
    BY <1>4 DEF QueueOK
  <1>7. ASSUME NEW i \in 1 .. Len(cut), NEW j \in 1 .. Len(cut), i <= j
        PROVE  cut[i].ts <= cut[j].ts /\ cut[i].elapsed >= cut[j].elapsed
    <2>1. from + i - 1 <= from + j - 1
      BY <1>1, <1>2, <1>3, <1>7
    <2>. QED
      BY <1>4, <2>1 DEF QueueOK
  <1>8. QueueOK(cut, last)
    BY <1>3, <1>6, <1>7 DEF QueueOK
  <1>9. Len(cut) <= limit /\ Len(cut) <= n
    BY <1>1, <1>2, <1>3
  <1>10. \A i \in 1 .. Len(cut) : \E j \in 1 .. n : cut[i] = queue[j]
    BY <1>4
  <1>. QED
    BY <1>5, <1>8, <1>9, <1>10

\* The items at the last places of a sequence.
LEMMA ItemsAtEnd ==
  ASSUME NEW items, NEW n \in Nat, NEW a \in 1 .. n + 1
  PROVE  ItemsAt(items, a .. n) = [k \in 1 .. n - a + 1 |-> items[a + k - 1]]
  <1>. DEFINE Rank(i) == Cardinality({j \in a .. n : j <= i})
              Place(k) == CHOOSE i \in a .. n : Rank(i) = k
  <1>1. Cardinality(a .. n) = n - a + 1
    <2>1. a \in Int /\ n \in Int /\ (a > n => n - a + 1 = 0)
      OBVIOUS
    <2>2. Cardinality(a .. n) = IF a > n THEN 0 ELSE n - a + 1
      BY <2>1, FS_Interval
    <2>. QED
      BY <2>1, <2>2
  <1>2. ASSUME NEW i \in a .. n PROVE Rank(i) = i - a + 1
    <2>1. {j \in a .. n : j <= i} = a .. i
      OBVIOUS
    <2>2. Cardinality(a .. i) = i - a + 1
      BY FS_Interval
    <2>. QED
      BY <2>1, <2>2
  <1>. HIDE DEF Rank
  <1>3. ASSUME NEW k \in 1 .. n - a + 1 PROVE Place(k) = a + k - 1
    <2>1. a + k - 1 \in a .. n /\ Rank(a + k - 1) = k
      BY <1>2
    <2>2. \A i \in a .. n : Rank(i) = k => i = a + k - 1
      BY <1>2
    <2>. QED
      BY <2>1, <2>2
  <1>4. ItemsAt(items, a .. n) = [k \in 1 .. Cardinality(a .. n) |-> items[Place(k)]]
    BY DEF ItemsAt, Rank
  <1>. HIDE DEF Place
  <1>. QED
    BY <1>1, <1>3, <1>4

\* What a candle leaves of the queue: its own label and labels that it has aged.
AgedLabel(label, ts) == IF label.ts = ts THEN label ELSE [label EXCEPT !.elapsed = @ + 1]
NewLabel(ts) == [ts |-> ts, elapsed |-> 0]

LEMMA LabelsStep ==
  ASSUME NEW labels, NEW ts \in Candles, QueueOK(labels, ts)
  PROVE  /\ QueueOK(LabelsAfter(labels, ts), ts)
         /\ Len(LabelsAfter(labels, ts)) <= FileLimit
         /\ Len(LabelsAfter(labels, ts)) <= QueueLimit
         /\ \A k \in 1 .. Len(LabelsAfter(labels, ts)) :
                \/ LabelsAfter(labels, ts)[k] = NewLabel(ts)
                \/ \E i \in 1 .. Len(labels) :
                       LabelsAfter(labels, ts)[k] = AgedLabel(labels[i], ts)
  <1>. DEFINE n == Len(labels)
              aged == [i \in DOMAIN labels |->
                    IF labels[i].ts = ts THEN labels[i] ELSE [labels[i] EXCEPT !.elapsed = @ + 1]]
              waiting == {i \in DOMAIN aged : aged[i].elapsed < Horizon}
              a == IF waiting = {} THEN n + 1 ELSE Min(waiting)
              kept == ItemsAt(aged, waiting)
              new == [ts |-> ts, elapsed |-> 0]
              queue == Append(kept, new)
  <1>1. /\ Horizon \in Nat \ {0} /\ FileLimit \in Nat /\ QueueLimit \in Nat
        /\ MaxCandle \in Nat
    BY DecisionAssumption DEF QueueLimit
  <1>2. n \in Nat /\ DOMAIN labels = 1 .. n /\ DOMAIN aged = 1 .. n
    BY DEF QueueOK
  <1>3. ASSUME NEW i \in 1 .. n
        PROVE  /\ labels[i] \in Labels /\ labels[i].ts <= ts
               /\ aged[i].ts = labels[i].ts
               /\ aged[i].elapsed = IF labels[i].ts = ts THEN labels[i].elapsed
                                    ELSE labels[i].elapsed + 1
               /\ aged[i] \in [ts : Candles, elapsed : Nat]
    <2>1. labels[i] \in Labels /\ labels[i].ts <= ts
      BY ElementOf DEF QueueOK
    <2>2. aged[i] = IF labels[i].ts = ts THEN labels[i] ELSE [labels[i] EXCEPT !.elapsed = @ + 1]
      BY <1>2
    <2>. HIDE DEF aged
    <2>. QED
      BY <1>1, <2>1, <2>2 DEF Labels
  <1>4. ASSUME NEW i \in 1 .. n, NEW j \in 1 .. n, i <= j
        PROVE  aged[i].ts <= aged[j].ts /\ aged[i].elapsed >= aged[j].elapsed
    <2>1. labels[i].ts <= labels[j].ts /\ labels[i].elapsed >= labels[j].elapsed
      BY <1>4 DEF QueueOK
    <2>2. labels[i].ts = ts => labels[j].ts = ts
      <3>1. labels[i] \in Labels /\ labels[j] \in Labels /\ labels[j].ts <= ts
        BY <1>3
      <3>2. labels[i].ts \in Nat /\ labels[j].ts \in Nat /\ ts \in Nat
        BY <3>1 DEF Labels, Candles
      <3>. HIDE DEF aged
      <3>. QED
        BY <2>1, <3>1, <3>2
    <2>. HIDE DEF aged
    <2>. QED
      BY <1>1, <1>3, <2>1, <2>2 DEF Labels
  <1>5. waiting = {i \in 1 .. n : aged[i].elapsed < Horizon}
    BY <1>2
  <1>. HIDE DEF aged, n
  <1>6. a \in 1 .. n + 1 /\ waiting = a .. n
    <2>1. CASE waiting = {}
      BY <1>2, <2>1
    <2>2. CASE waiting # {}
      <3>1. waiting \in SUBSET Nat
        BY <1>5
      <3>2. a \in waiting /\ \A i \in waiting : a <= i
        <4>. HIDE DEF waiting
        <4>. QED
          BY <2>2, <3>1, LeastNatural
      <3>. HIDE DEF a
      <3>3. ASSUME NEW i \in a .. n PROVE i \in waiting
        <4>1. a \in 1 .. n /\ i \in 1 .. n /\ a <= i /\ aged[a].elapsed < Horizon
          BY <1>2, <1>5, <3>2
        <4>2. aged[a].elapsed >= aged[i].elapsed /\ aged[a].elapsed \in Nat /\ aged[i].elapsed \in Nat
          BY <1>3, <1>4, <4>1
        <4>. QED
          BY <1>1, <1>5, <4>1, <4>2
      <3>4. \A i \in waiting : i \in 1 .. n
        BY <1>5
      <3>. HIDE DEF waiting
      <3>5. a \in 1 .. n
        BY <3>2, <3>4
      <3>6. \A i \in waiting : i \in a .. n
        BY <1>2, <3>2, <3>4, <3>5
      <3>7. waiting = a .. n
        BY <3>3, <3>6, Zenon
      <3>8. a \in 1 .. n + 1
        BY <1>2, <3>5
      <3>. QED
        BY <3>7, <3>8
    <2>. QED
      BY <2>1, <2>2
  <1>7. kept = [k \in 1 .. n - a + 1 |-> aged[a + k - 1]]
    <2>. HIDE DEF a, waiting
    <2>. QED
      BY <1>2, <1>6, ItemsAtEnd
  <1>8. \A i \in a .. n : i \in 1 .. n /\ aged[i].elapsed < Horizon
    BY <1>5, <1>6
  <1>. HIDE DEF waiting, a
  <1>9. \A i \in a .. n : aged[i] \in Labels /\ aged[i].ts <= ts
    BY <1>1, <1>3, <1>8 DEF Labels
  <1>10. n - a + 1 \in Nat /\ \A k \in 1 .. n - a + 1 : a + k - 1 \in a .. n
    BY <1>2, <1>6
  <1>11. kept \in Seq(Labels) /\ Len(kept) = n - a + 1
    BY <1>7, <1>9, <1>10
  <1>12. \A k \in 1 .. Len(kept) : kept[k] = aged[a + k - 1] /\ a + k - 1 \in a .. n
    BY <1>7, <1>10, <1>11
  <1>. HIDE DEF kept
  <1>13. new \in Labels /\ new.ts = ts /\ new.elapsed = 0
    BY <1>1 DEF Labels
  <1>. HIDE DEF new
  <1>14. /\ queue \in Seq(Labels) /\ Len(queue) = Len(kept) + 1
         /\ queue[Len(kept) + 1] = new
         /\ \A k \in 1 .. Len(kept) : queue[k] = kept[k]
    BY <1>11, <1>13
  <1>. HIDE DEF queue
  <1>15. \A i \in 1 .. Len(queue) : queue[i].ts <= ts
    <2>1. ASSUME NEW i \in 1 .. Len(queue) PROVE queue[i].ts <= ts
      <3>1. CASE i = Len(kept) + 1
        BY <1>13, <1>14, <3>1 DEF Candles
      <3>2. CASE i \in 1 .. Len(kept)
        BY <1>9, <1>12, <1>14, <3>2
      <3>. QED
        BY <1>11, <1>14, <3>1, <3>2
    <2>. QED
      BY <2>1
  <1>16. ASSUME NEW i \in 1 .. Len(queue), NEW j \in 1 .. Len(queue), i <= j
         PROVE  queue[i].ts <= queue[j].ts /\ queue[i].elapsed >= queue[j].elapsed
    <2>1. queue[i] \in Labels /\ queue[i].ts <= ts
      BY <1>14, <1>15, ElementOf
    <2>2. CASE j = Len(kept) + 1
      BY <1>13, <1>14, <2>1, <2>2 DEF Labels
    <2>3. CASE j # Len(kept) + 1
      <3>1. i \in 1 .. Len(kept) /\ j \in 1 .. Len(kept)
        BY <1>11, <1>14, <1>16, <2>3
      <3>2. /\ queue[i] = aged[a + i - 1] /\ queue[j] = aged[a + j - 1]
            /\ a + i - 1 \in 1 .. n /\ a + j - 1 \in 1 .. n
        BY <1>8, <1>12, <1>14, <3>1
      <3>3. a + i - 1 <= a + j - 1
        BY <1>6, <1>16, <3>1
      <3>. QED
        BY <1>4, <3>2, <3>3
    <2>. QED
      BY <2>2, <2>3
  <1>17. QueueOK(queue, ts)
    BY <1>14, <1>15, <1>16 DEF QueueOK
  <1>18. LabelsAfter(labels, ts) = LastOf(LastOf(queue, QueueLimit), FileLimit)
    BY DEF LabelsAfter, queue, kept, new, waiting, aged
  <1>19. \A k \in 1 .. Len(queue) :
            queue[k] = NewLabel(ts) \/ \E i \in 1 .. n : queue[k] = AgedLabel(labels[i], ts)
    <2>1. new = NewLabel(ts)
      BY DEF new, NewLabel
    <2>2. \A i \in 1 .. n : aged[i] = AgedLabel(labels[i], ts)
      BY <1>2 DEF aged, AgedLabel
    <2>3. ASSUME NEW k \in 1 .. Len(queue), k # Len(kept) + 1
          PROVE  \E i \in 1 .. n : queue[k] = AgedLabel(labels[i], ts)
      <3>1. k \in 1 .. Len(kept)
        BY <1>11, <1>14, <2>3
      <3>2. queue[k] = aged[a + k - 1] /\ a + k - 1 \in 1 .. n
        BY <1>8, <1>12, <1>14, <3>1
      <3>. QED
        BY <2>2, <3>2
    <2>. QED
      BY <1>14, <2>1, <2>3
  <1>. DEFINE short == LastOf(queue, QueueLimit)
              final == LastOf(short, FileLimit)
  <1>20. /\ QueueOK(short, ts) /\ Len(short) <= QueueLimit
         /\ \A k \in 1 .. Len(short) : \E j \in 1 .. Len(queue) : short[k] = queue[j]
    BY <1>1, <1>17, CutKeeps
  <1>. HIDE DEF short
  <1>21. /\ QueueOK(final, ts) /\ Len(final) <= FileLimit /\ Len(final) <= Len(short)
         /\ \A k \in 1 .. Len(final) : \E j \in 1 .. Len(short) : final[k] = short[j]
    BY <1>1, <1>20, CutKeeps
  <1>22. Len(final) <= QueueLimit
    <2>1. Len(final) \in Nat /\ Len(short) \in Nat
      BY <1>20, <1>21 DEF QueueOK
    <2>. HIDE DEF final
    <2>. QED
      BY <1>1, <1>20, <1>21, <2>1
  <1>. HIDE DEF final
  <1>23. \A k \in 1 .. Len(final) : \E j \in 1 .. Len(queue) : final[k] = queue[j]
    BY <1>20, <1>21
  <1>24. LabelsAfter(labels, ts) = final
    BY <1>18 DEF final, short
  <1>25. \A k \in 1 .. Len(final) :
            final[k] = NewLabel(ts) \/ \E i \in 1 .. n : final[k] = AgedLabel(labels[i], ts)
    BY <1>19, <1>23
  <1>. QED
    BY <1>21, <1>22, <1>24, <1>25 DEF n

\* No label has waited less than the candles decided after its own.
AgesCounted(dec, queue) ==
    \A i \in 1 .. Len(queue) : Cardinality(Later(dec, queue[i].ts)) <= queue[i].elapsed

LEMMA AgesStep ==
  ASSUME NEW labels, NEW ts \in Candles, QueueOK(labels, ts),
         NEW dec \in SUBSET (1 .. ts), AgesCounted(dec, labels)
  PROVE  AgesCounted(dec \cup {ts}, LabelsAfter(labels, ts))
  <1>. DEFINE after == LabelsAfter(labels, ts)
              all == dec \cup {ts}
  <1>1. ts \in Nat /\ ts \in 0 .. ts
    BY DEF Candles
  <1>2. Cardinality(Later(all, ts)) = 0
    <2>1. \A d \in all : ~(ts < d)
      BY <1>1
    <2>2. Later(all, ts) = {}
      BY <2>1 DEF Later
    <2>. QED
      BY <2>2, FS_EmptySet
  <1>3. ASSUME NEW i \in 1 .. Len(labels)
        PROVE  Cardinality(Later(all, AgedLabel(labels[i], ts).ts))
                 <= AgedLabel(labels[i], ts).elapsed
    <2>1. labels[i] \in Labels /\ labels[i].ts <= ts
      BY ElementOf DEF QueueOK
    <2>2. /\ labels[i].ts \in 0 .. ts /\ labels[i].elapsed \in Nat
          /\ AgedLabel(labels[i], ts).ts = labels[i].ts
          /\ AgedLabel(labels[i], ts).elapsed =
               IF labels[i].ts = ts THEN labels[i].elapsed ELSE labels[i].elapsed + 1
      BY <1>1, <2>1 DEF Labels, Candles, AgedLabel
    <2>3. CASE labels[i].ts = ts
      BY <1>2, <2>2, <2>3
    <2>4. CASE labels[i].ts # ts
      <3>1. Cardinality(Later(dec, labels[i].ts)) <= labels[i].elapsed
        BY DEF AgesCounted
      <3>2. /\ Cardinality(Later(dec, labels[i].ts)) \in Nat
            /\ Cardinality(Later(all, labels[i].ts)) \in
                 {Cardinality(Later(dec, labels[i].ts)), Cardinality(Later(dec, labels[i].ts)) + 1}
        <4>. HIDE DEF all
        <4>1. ts \in dec => Cardinality(Later(all, labels[i].ts)) = Cardinality(Later(dec, labels[i].ts))
          BY <1>1, <2>2, LaterCounts DEF all
        <4>. QED
          BY <1>1, <2>2, <2>4, <4>1, LaterCounts DEF all
      <3>. QED
        BY <2>2, <2>4, <3>1, <3>2
    <2>. QED
      BY <2>3, <2>4
  <1>4. NewLabel(ts).ts = ts /\ NewLabel(ts).elapsed = 0
    BY DEF NewLabel
  <1>5. \A k \in 1 .. Len(after) :
           after[k] = NewLabel(ts) \/ \E i \in 1 .. Len(labels) : after[k] = AgedLabel(labels[i], ts)
    BY LabelsStep
  <1>. HIDE DEF after, all
  <1>6. \A k \in 1 .. Len(after) : Cardinality(Later(all, after[k].ts)) <= after[k].elapsed
    BY <1>2, <1>3, <1>4, <1>5
  <1>. QED
    BY <1>6 DEF AgesCounted, after, all

-----------------------------------------------------------------------------
(* Types *)

\* The decision state, as a file that was written on this candle may hold it.
StateOK(state, ts) ==
    /\ state.pending \in Pendings \cup {NoPending}
    /\ state.cooldown \in [remaining : 0 .. CooldownCandles, last : 0 .. MaxCandle]
    /\ state.market \in MarketStates /\ state.memory \in Memories
    /\ QueueOK(state.labels, ts)
    /\ Len(state.labels) <= FileLimit /\ Len(state.labels) <= QueueLimit

LEMMA NamesKnown == Names = {BO, SQ, TA, CO, PB, MR, RL}
  <1>1. DOMAIN AllStrategies = 1 .. 7
    BY DEF AllStrategies
  <1>. QED
    BY <1>1 DEF Names, AllStrategies, BO, SQ, TA, CO, PB, MR, RL

LEMMA AgedTyped ==
  ASSUME NEW old \in Pendings \cup {NoPending}, NEW ts \in Candles
  PROVE  Aged(old, ts) \in Pendings \cup {NoPending}
  <1>1. CASE old = NoPending \/ old.last = ts \/ ~(old.remaining > 1)
    BY <1>1 DEF Aged
  <1>2. CASE old \in Pendings /\ old # NoPending /\ old.last # ts /\ old.remaining > 1
    <2>1. Aged(old, ts) = [old EXCEPT !.remaining = old.remaining - 1, !.last = ts]
      BY <1>2 DEF Aged
    <2>2. ExpireCandles \in Nat /\ old.remaining - 1 \in 1 .. ExpireCandles + 1
      BY <1>2, DecisionAssumption DEF Pendings
    <2>. QED
      BY <1>2, <2>1, <2>2 DEF Pendings
  <1>. QED
    BY <1>1, <1>2

LEMMA CooldownTyped ==
  ASSUME NEW ts \in Candles, NEW event,
         NEW old \in [remaining : 0 .. CooldownCandles, last : 0 .. MaxCandle]
  PROVE  Cooldown(old, ts, event) \in [remaining : 0 .. CooldownCandles, last : 0 .. MaxCandle]
  <1>1. CooldownCandles \in Nat /\ MaxCandle \in Nat
    BY DecisionAssumption
  <1>2. old.remaining \in 0 .. CooldownCandles /\ ts \in 0 .. MaxCandle
    BY <1>1 DEF Candles
  <1>. QED
    BY <1>1, <1>2 DEF Cooldown

\* An entry waits only for a side and a strategy.
LEMMA PendingTyped ==
  ASSUME NEW stage, NEW pending \in Pendings \cup {NoPending}, NEW ts \in Candles,
         NEW side, NEW strategy, stage = "set" => side \in Sides /\ strategy \in Followers
  PROVE  PendingAfter(stage, pending, side, strategy, ts) \in Pendings \cup {NoPending}
  <1>1. ExpireCandles \in Nat
    BY DecisionAssumption
  <1>. QED
    BY <1>1 DEF PendingAfter, Pendings, Followers

\* The stages at which a strategy has been selected, and those of a follower.
LEMMA SelectedStages ==
  ASSUME NEW r, NEW ts, NEW strategy, NEW side, NEW hard, NEW pending
  PROVE  LET stage == Stage(r, ts, strategy, side, hard, pending)
         IN /\ stage \in {"free", "set", "confirm"} => strategy # "NONE"
            /\ stage = "set" => strategy \in Followers
  BY DEF Stage, MustWait

LEMMA ExecutionKnown ==
  ASSUME NEW r, NEW stage, NEW block, NEW hard, NEW guess
  PROVE  LET execution == Execution(r, stage, block, hard, guess)
         IN /\ execution \in Executions
            /\ execution = "OPEN_CONFIRMED" => stage \in {"free", "confirm"}
            /\ execution = "OPEN_EARLY" => guess.bias # "NEUTRAL"
  BY DEF Execution, Executions, LegacyOpens

LEMMA DecidedTyped ==
  ASSUME NEW execution \in Executions, NEW stage, NEW guess, NEW side, NEW strategy,
         NEW pending \in Pendings \cup {NoPending},
         execution = "OPEN_CONFIRMED" => side \in Sides /\ strategy \in Names,
         execution = "OPEN_EARLY" => guess.bias \in Sides \cup {"NONE"}
  PROVE  Decided(execution, stage, guess, side, strategy, pending) \in Decisions
  <1>1. MaxCandle \in Nat /\ pending.set \in 0 .. MaxCandle
    BY DecisionAssumption DEF Pendings, NoPending, Candles
  <1>2. NoDecision \in Decisions
    BY <1>1 DEF NoDecision, Decisions, Executions
  <1>3. CASE execution = "OPEN_CONFIRMED"
    <2>1. (Splits(strategy) /\ strategy \in Trailing) \in BOOLEAN
      BY DEF Splits
    <2>. DEFINE trail == Splits(strategy) /\ strategy \in Trailing
                origin == IF stage = "confirm" THEN pending.set ELSE 0
                targets == IF Splits(strategy) THEN 2 ELSE 1
    <2>2. origin \in 0 .. MaxCandle /\ targets \in 1 .. 2 /\ trail \in BOOLEAN
      BY <1>1, <2>1
    <2>3. Decided(execution, stage, guess, side, strategy, pending) =
            [execution |-> execution, side |-> side, strategy |-> strategy,
             origin |-> origin, targets |-> targets, trail |-> trail]
      BY <1>3 DEF Decided
    <2>. HIDE DEF trail, origin, targets
    <2>. QED
      BY <1>3, <2>2, <2>3 DEF Decisions
  <1>4. CASE execution = "OPEN_EARLY"
    <2>1. Decided(execution, stage, guess, side, strategy, pending) =
            [NoDecision EXCEPT !.execution = execution, !.side = guess.bias, !.strategy = "EARLY"]
      BY <1>4 DEF Decided
    <2>. QED
      BY <1>2, <1>4, <2>1 DEF Decisions
  <1>5. CASE execution \notin {"OPEN_CONFIRMED", "OPEN_EARLY"}
    <2>1. Decided(execution, stage, guess, side, strategy, pending) =
            [NoDecision EXCEPT !.execution = execution]
      BY <1>5 DEF Decided
    <2>. QED
      BY <1>2, <2>1 DEF Decisions
  <1>. QED
    BY <1>3, <1>4, <1>5

LEMMA OutcomeTyped ==
  ASSUME NEW old, NEW r \in Readings, NEW ts \in Candles, StateOK(old, ts)
  PROVE  Outcome(old, r, ts).decision \in Decisions /\ StateOK(Outcome(old, r, ts).update, ts)
  <1>. DEFINE m == r.market
              cooldown == Cooldown(old.cooldown, ts, m.event)
              block == EventBlock(cooldown, m)
              pending == PendingBefore(old.pending, cooldown, ts, m)
              guess == Prediction(m, old.memory, old.market)
              hard == HardBlock(cooldown, guess)
              strategy == Selected(m, block)
              side == IF strategy = "NONE" THEN "NONE"
                      ELSE SideTaken(PassedSides(strategy, m, block))
              stage == Stage(r, ts, strategy, side, hard, pending)
              execution == Execution(r, stage, block, hard, guess)
              after == Outcome(old, r, ts).update
  <1>1. m \in Markets
    BY DecisionAssumption DEF Readings
  <1>2. /\ after.pending = PendingAfter(stage, pending, side, strategy, ts)
        /\ after.cooldown = cooldown /\ after.market = guess.market
        /\ after.memory = m.dist /\ after.labels = LabelsAfter(old.labels, ts)
        /\ Outcome(old, r, ts).decision = Decided(execution, stage, guess, side, strategy, pending)
    BY DEF Outcome
  <1>3. cooldown \in [remaining : 0 .. CooldownCandles, last : 0 .. MaxCandle]
    <2>. HIDE DEF m
    <2>. QED
      BY CooldownTyped DEF StateOK
  <1>4. pending \in Pendings \cup {NoPending}
    <2>1. Aged(old.pending, ts) \in Pendings \cup {NoPending}
      BY AgedTyped DEF StateOK
    <2>. QED
      BY <2>1 DEF PendingBefore
  <1>5. guess.market \in MarketStates /\ guess.bias \in Sides \cup {"NEUTRAL", "NONE"}
    <2>1. /\ guess.market = NextMarketState(m, old.memory, old.market)
          /\ guess.bias = Bias(m, old.memory, guess.market).bias
      BY DEF Prediction
    <2>2. old.market \in MarketStates
      BY DEF StateOK
    <2>. HIDE DEF m, guess
    <2>. QED
      BY <1>1, <2>1, <2>2, MarketStateKnown, BiasKnown
  <1>6. strategy \in Names \cup {"NONE"} /\ (strategy # "NONE" => side \in Sides)
    <2>1. strategy \in Names \cup {"NONE"}
      BY SelectedKnown
    <2>2. strategy # "NONE" => side = SideTaken(PassedSides(strategy, m, block))
      OBVIOUS
    <2>. HIDE DEF m, block, strategy, side
    <2>. QED
      BY <2>1, <2>2, SidesTaken
  <1>7. m.dist \in Memories
    BY <1>1 DEF Markets, Memories
  <1>8. /\ QueueOK(after.labels, ts)
        /\ Len(after.labels) <= FileLimit /\ Len(after.labels) <= QueueLimit
    BY <1>2, LabelsStep DEF StateOK
  <1>. HIDE DEF m, cooldown, block, pending, guess, hard, strategy, side
  <1>9. /\ stage \in {"free", "set", "confirm"} => strategy # "NONE"
        /\ stage = "set" => strategy \in Followers
    BY SelectedStages
  <1>. HIDE DEF stage
  <1>10. /\ execution \in Executions
         /\ execution = "OPEN_CONFIRMED" => stage \in {"free", "confirm"}
         /\ execution = "OPEN_EARLY" => guess.bias # "NEUTRAL"
    BY ExecutionKnown
  <1>. HIDE DEF execution, after
  <1>11. after.pending \in Pendings \cup {NoPending}
    BY <1>2, <1>4, <1>6, <1>9, PendingTyped
  <1>12. Outcome(old, r, ts).decision \in Decisions
    <2>1. execution = "OPEN_CONFIRMED" => side \in Sides /\ strategy \in Names
      BY <1>6, <1>9, <1>10
    <2>2. execution = "OPEN_EARLY" => guess.bias \in Sides \cup {"NONE"}
      BY <1>5, <1>10
    <2>. QED
      BY <1>2, <1>4, <1>10, <2>1, <2>2, DecidedTyped
  <1>13. StateOK(after, ts)
    BY <1>2, <1>3, <1>5, <1>7, <1>8, <1>11 DEF StateOK
  <1>. QED
    BY <1>12, <1>13 DEF after

TypeInv ==
    /\ candle \in 0 .. MaxCandle /\ gate \in 0 .. candle
    /\ reading \in Readings
    /\ pc \in {"idle", "made", "saved", "handed"}
    /\ decision \in Decisions
    /\ StateOK(saved, candle)

LEMMA NoDecisionTyped == NoDecision \in Decisions
  <1>1. MaxCandle \in Nat
    BY DecisionAssumption
  <1>. QED
    BY <1>1 DEF NoDecision, Decisions, Executions

LEMMA DefaultTyped == ASSUME NEW ts PROVE StateOK(DefaultState, ts)
  <1>1. CooldownCandles \in Nat /\ MaxCandle \in Nat /\ FileLimit \in Nat /\ QueueLimit \in Nat
    BY DecisionAssumption DEF QueueLimit
  <1>2. QueueOK(<<>>, ts) /\ Len(<<>>) <= FileLimit /\ Len(<<>>) <= QueueLimit
    BY <1>1 DEF QueueOK
  <1>. QED
    BY <1>1, <1>2 DEF DefaultState, StateOK, MarketStates, Memories

LEMMA TypeInvInit == TickInit => TypeInv
  <1>. SUFFICES ASSUME TickInit PROVE TypeInv
    OBVIOUS
  <1>1. MaxCandle \in Nat
    BY DecisionAssumption
  <1>. QED
    BY <1>1, NoDecisionTyped, DefaultTyped DEF TickInit, TypeInv

LEMMA TypeInvStep == TypeInv /\ CountInv /\ OriginInv /\ [TickNext]_tickVars => TypeInv'
  <1>. SUFFICES ASSUME TypeInv, CountInv, OriginInv, [TickNext]_tickVars PROVE TypeInv'
    OBVIOUS
  <1>0. /\ MaxCandle \in Nat /\ candle \in Nat /\ candle <= MaxCandle /\ gate \in 0 .. candle
        /\ reading \in Readings /\ decision \in Decisions /\ StateOK(saved, candle)
    BY DecisionAssumption DEF TypeInv
  <1>1. ASSUME candle # 0
        PROVE  Tick.decision \in Decisions /\ StateOK(Tick.update, candle)
    <2>1. candle \in Candles
      BY <1>0, <1>1 DEF Candles
    <2>. QED
      BY <1>0, <2>1, OutcomeTyped DEF Tick
  <1>2. CASE NextCandle
    <2>1. /\ candle' = candle + 1 /\ candle' <= MaxCandle /\ reading' \in Readings
          /\ UNCHANGED <<pc, decision, saved, gate>>
      BY <1>0, <1>2 DEF NextCandle
    <2>2. \A i \in 1 .. Len(saved.labels) : saved.labels[i].ts <= candle'
      <3>1. ASSUME NEW i \in 1 .. Len(saved.labels) PROVE saved.labels[i].ts <= candle'
        <4>1. saved.labels[i] \in Labels /\ saved.labels[i].ts <= candle
          BY <1>0, ElementOf DEF StateOK, QueueOK
        <4>2. saved.labels[i].ts \in Nat
          BY <1>0, <4>1 DEF Labels, Candles
        <4>. QED
          BY <1>0, <2>1, <4>1, <4>2
      <3>. QED
        BY <3>1
    <2>3. QueueOK(saved.labels, candle')
      BY <1>0, <2>2 DEF StateOK, QueueOK
    <2>4. StateOK(saved, candle)'
      BY <1>0, <2>1, <2>3 DEF StateOK
    <2>5. candle' \in 0 .. MaxCandle /\ gate' \in 0 .. candle'
      BY <1>0, <2>1
    <2>. QED
      BY <2>1, <2>4, <2>5 DEF TypeInv
  <1>3. ASSUME UNCHANGED <<candle, saved>>, gate' \in {gate, candle}, reading' \in Readings,
               pc' \in {"idle", "made", "saved", "handed"}, decision' \in Decisions
        PROVE  TypeInv'
    BY <1>0, <1>3 DEF TypeInv, StateOK, QueueOK
  <1>4. CASE PositionMoves
    <2>1. reading' \in Readings
      BY <1>0, <1>4 DEF PositionMoves, Readings
    <2>. QED
      BY <1>0, <1>3, <1>4, <2>1 DEF PositionMoves, TypeInv
  <1>5. CASE MakeDecision
    <2>1. candle # 0
      BY <1>0, <1>5 DEF MakeDecision
    <2>. QED
      BY <1>0, <1>1, <1>3, <1>5, <2>1 DEF MakeDecision
  <1>6. CASE SaveDecisionState
    <2>1. candle # 0 /\ saved' = Tick.update /\ pc' = "saved"
          /\ UNCHANGED <<candle, reading, decision, gate>>
      BY <1>6 DEF SaveDecisionState, CountInv
    <2>2. StateOK(saved', candle)
      BY <1>1, <2>1
    <2>3. StateOK(saved, candle)'
      BY <2>1, <2>2 DEF StateOK, QueueOK
    <2>. QED
      BY <1>0, <2>1, <2>3 DEF TypeInv
  <1>7. CASE HandOver
    BY <1>0, <1>3, <1>7 DEF HandOver
  <1>8. CASE SaveGate
    BY <1>0, <1>3, <1>8, NoDecisionTyped DEF SaveGate
  <1>9. CASE Crash
    BY <1>0, <1>3, <1>9, NoDecisionTyped DEF Crash
  <1>10. CASE CrashInSave
    <2>1. /\ saved' = DefaultState /\ pc' = "idle" /\ decision' = NoDecision
          /\ UNCHANGED <<candle, reading, gate>>
      BY <1>10 DEF CrashInSave
    <2>2. StateOK(saved', candle)
      BY <2>1, DefaultTyped
    <2>3. StateOK(saved, candle)'
      BY <2>1, <2>2 DEF StateOK, QueueOK
    <2>. QED
      BY <1>0, <2>1, <2>3, NoDecisionTyped DEF TypeInv
  <1>11. CASE UNCHANGED tickVars
    <2>1. UNCHANGED <<candle, reading, pc, decision, saved, gate>>
      BY <1>11 DEF tickVars
    <2>. QED
      BY <1>0, <1>3, <2>1 DEF TypeInv
  <1>. QED
    BY <1>2, <1>4, <1>5, <1>6, <1>7, <1>8, <1>9, <1>10, <1>11 DEF TickNext

LEMMA TypeInvariant == TickSpec => []TypeInv
  <1>1. TickInv => OriginInv
    BY DEF TickInv
  <1>. QED
    BY <1>1, TickInvariant, CountInvariant, TypeInvInit, TypeInvStep, PTL DEF TickSpec

\* What the file says of a label's age and what was decided.
AgeInv == AgesCounted(decided, saved.labels)

LEMMA LabelsOfTick == Tick.update.labels = LabelsAfter(saved.labels, candle)
  BY DEF Tick, Outcome

LEMMA AgeInvStep == TypeInv /\ CountInv /\ AgeInv /\ [TickNext]_tickVars => AgeInv'
  <1>. SUFFICES ASSUME TypeInv, CountInv, AgeInv, [TickNext]_tickVars PROVE AgeInv'
    OBVIOUS
  <1>1. CASE SaveDecisionState
    <2>1. /\ saved' = Tick.update /\ decided' = decided \cup {candle} /\ candle # 0
      BY <1>1 DEF SaveDecisionState, CountInv
    <2>2. candle \in Candles
      BY <2>1 DEF TypeInv, Candles
    <2>3. QueueOK(saved.labels, candle) /\ decided \in SUBSET (1 .. candle)
      BY DEF TypeInv, StateOK, CountInv, Counts
    <2>4. AgesCounted(decided \cup {candle}, LabelsAfter(saved.labels, candle))
      BY <2>2, <2>3, AgesStep DEF AgeInv
    <2>5. saved'.labels = LabelsAfter(saved.labels, candle)
      BY <2>1, LabelsOfTick
    <2>. QED
      BY <2>1, <2>4, <2>5 DEF AgeInv, AgesCounted
  <1>2. CASE CrashInSave
    <2>1. saved'.labels = << >>
      BY <1>2 DEF CrashInSave, DefaultState
    <2>. QED
      BY <2>1 DEF AgeInv, AgesCounted
  <1>3. CASE UNCHANGED <<saved, decided>>
    BY <1>3 DEF AgeInv, AgesCounted
  <1>. QED
    BY <1>1, <1>2, <1>3
    DEF TickNext, NextCandle, PositionMoves, MakeDecision, HandOver, SaveGate, Crash, tickVars

LEMMA AgeInvariant == TickSpec => []AgeInv
  <1>1. TickInit => AgeInv
    BY DEF TickInit, AgeInv, AgesCounted, DefaultState
  <1>. QED
    BY <1>1, TypeInvariant, CountInvariant, AgeInvStep, PTL DEF TickSpec

-----------------------------------------------------------------------------
(* Theorems *)

\* Whatever path the decision takes, it opens nothing on an incomplete history,
\* beside an open position or on a chaotic event: the three kinds of rejection
\* in make_decision leave no path around them.
THEOREM OpensOnlyWhenFreeAlways == TickSpec => []OpensOnlyWhenFree
  <1>1. TickInv => OpensOnlyWhenFree
    BY DEF TickInv
  <1>. QED
    BY <1>1, TickInvariant, PTL

\* No pending entry is saved while the event cooldown runs.
THEOREM NoPendingInCooldownAlways == TickSpec => []NoPendingInCooldown
  <1>1. TickInv => NoPendingInCooldown
    BY DEF TickInv, SavedInv
  <1>. QED
    BY <1>1, TickInvariant, PTL

\* A pending entry opens at most one position, however the process dies between
\* the steps of a tick.
THEOREM TakenOnceAlways == TickSpec => TakenOnce
  <1>1. TickInv /\ [TickNext]_tickVars =>
          [HandOver => ~(Opens(decision) /\ decision.origin \in taken)]_tickVars
    <2>. SUFFICES ASSUME TickInv, HandOver, decision.origin \in taken
                  PROVE  FALSE
      OBVIOUS
    <2>1. decision.origin # 0
      BY DEF TickInv, CandleInv
    <2>. QED
      BY <2>1 DEF HandOver, TickInv, OriginInv
  <1>. QED
    BY <1>1, TickInvariant, PTL DEF TickSpec, TakenOnce

\* When a plan opens, the candles decided since an event, the candle of the plan
\* among them, are at least EVENT_COOLDOWN_CANDLES, although candles are decided
\* again after a crash.
THEOREM CooldownHoldsAlways == TickSpec => []CooldownHolds
  BY TickInvariant, CountInvariant, CooldownHeld, PTL

\* A pending entry is confirmed within its window, never by the candle that set it.
THEOREM ConfirmsInWindowAlways == TickSpec => []ConfirmsInWindow
  BY TickInvariant, CountInvariant, WindowKept, PTL

\* Every variable has its type: the file never holds a pending entry of a strategy
\* that does not wait, or one older than its window, or a decision without a side.
THEOREM TickTypeCorrect == TickSpec => []TickTypeOK
  <1>1. TickInv /\ CountInv /\ TypeInv => TickTypeOK
    <2>. SUFFICES ASSUME TickInv, CountInv, TypeInv PROVE TickTypeOK
      OBVIOUS
    <2>1. candle \in Nat /\ taken \subseteq 1 .. candle
      BY DEF TickInv, CandleInv
    <2>2. eventful \subseteq decided /\ decided \subseteq 1 .. candle
      BY DEF CountInv, Counts
    <2>3. saved.labels \in Seq([ts : Candles, elapsed : 0 .. Horizon - 1])
      BY DEF TypeInv, StateOK, QueueOK, Labels
    <2>. QED
      BY <2>1, <2>2, <2>3 DEF TickTypeOK, TypeInv, StateOK
  <1>. QED
    BY <1>1, TickInvariant, CountInvariant, TypeInvariant, PTL

\* The labels that wait stay within both limits, in the order of their candles, and
\* none outlives its horizon, counted in candles: however a crash makes a candle
\* age them twice, no candle that is decided fails to age them.
THEOREM LabelsStayBounded == TickSpec => []LabelsBounded
  <1>1. TypeInv /\ AgeInv => LabelsBounded
    <2>. SUFFICES ASSUME TypeInv, AgeInv PROVE LabelsBounded
      OBVIOUS
    <2>1. /\ QueueOK(saved.labels, candle)
          /\ Len(saved.labels) <= FileLimit /\ Len(saved.labels) <= QueueLimit
      BY DEF TypeInv, StateOK
    <2>2. ASSUME NEW i \in DOMAIN saved.labels
          PROVE  /\ Cardinality({d \in decided : saved.labels[i].ts < d}) <= saved.labels[i].elapsed
                 /\ saved.labels[i].elapsed < Horizon
                 /\ i > 1 => saved.labels[i - 1].ts <= saved.labels[i].ts
      <3>1. i \in 1 .. Len(saved.labels)
        BY <2>1 DEF QueueOK
      <3>2. saved.labels[i] \in Labels /\ Horizon \in Nat
        BY <2>1, <3>1, ElementOf, DecisionAssumption DEF QueueOK
      <3>3. ASSUME i > 1 PROVE saved.labels[i - 1].ts <= saved.labels[i].ts
        <4>1. i - 1 \in 1 .. Len(saved.labels) /\ i - 1 <= i
          BY <2>1, <3>1, <3>3 DEF QueueOK
        <4>. QED
          BY <2>1, <3>1, <4>1 DEF QueueOK
      <3>4. Cardinality({d \in decided : saved.labels[i].ts < d}) <= saved.labels[i].elapsed
        BY <3>1 DEF AgeInv, AgesCounted, Later
      <3>. QED
        BY <3>2, <3>3, <3>4 DEF Labels
    <2>. QED
      BY <2>1, <2>2 DEF LabelsBounded
  <1>. QED
    BY <1>1, TypeInvariant, AgeInvariant, PTL
=============================================================================
