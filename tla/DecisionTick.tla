----------------------------- MODULE DecisionTick -----------------------------
(***************************************************************************)
(* A tick of app/run.py around make_decision: decide, save the decision    *)
(* state, hand the decision over, close the candle's gate.  The process may*)
(* die between any two steps, and while the state is written, which leaves *)
(* a file that load_decision_state replaces by defaults.  After a restart  *)
(* the candle is decided again unless its gate was closed.                 *)
(***************************************************************************)
EXTENDS DecisionEngine

VARIABLES
    candle,     \* the latest closed candle, 0 before the first
    reading,    \* what the candle and the account show
    pc,         \* the step of the tick that was done last
    decision,   \* the decision in memory
    saved,      \* the decision state on disk
    gate,       \* the last candle whose gate was closed, on disk
    decided,    \* history: candles whose decision state was saved,
    eventful,   \* history: those with an event,
    taken       \* history: origins of the confirmations handed over

tickVars == <<candle, reading, pc, decision, saved, gate, decided, eventful, taken>>

Opens(d) == d.execution \in {"OPEN_CONFIRMED", "OPEN_EARLY"}

Tick == Outcome(saved, reading, candle)

TickInit ==
    /\ candle = 0
    /\ reading \in Readings
    /\ ~reading.complete /\ ~reading.held /\ ~reading.poorEv
    /\ pc = "idle" /\ decision = NoDecision
    /\ saved = DefaultState /\ gate = 0
    /\ decided = {} /\ eventful = {} /\ taken = {}

\* The market moves on between two ticks; a tick looks at the latest candle only.
NextCandle ==
    /\ pc = "idle" /\ candle < MaxCandle
    /\ candle' = candle + 1
    /\ reading' \in Readings
    /\ UNCHANGED <<pc, decision, saved, gate, decided, eventful, taken>>

\* A position is opened or closed between two ticks on the same candle.
PositionMoves ==
    /\ pc = "idle" /\ candle > 0
    /\ reading' = [reading EXCEPT !.held = ~@, !.timeExit = FALSE]
    /\ UNCHANGED <<candle, pc, decision, saved, gate, decided, eventful, taken>>

MakeDecision ==
    /\ pc = "idle" /\ candle > gate
    /\ decision' = Tick.decision
    /\ pc' = "made"
    /\ UNCHANGED <<candle, reading, saved, gate, decided, eventful, taken>>

SaveDecisionState ==
    /\ pc = "made"
    /\ saved' = Tick.update
    /\ decided' = decided \cup {candle}
    /\ eventful' = IF reading.market.event THEN eventful \cup {candle} ELSE eventful
    /\ pc' = "saved"
    /\ UNCHANGED <<candle, reading, decision, gate, taken>>

HandOver ==
    /\ pc = "saved"
    /\ taken' = IF Opens(decision) /\ decision.origin # 0
                  THEN taken \cup {decision.origin} ELSE taken
    /\ pc' = "handed"
    /\ UNCHANGED <<candle, reading, decision, saved, gate, decided, eventful>>

SaveGate ==
    /\ pc = "handed"
    /\ gate' = candle
    /\ decision' = NoDecision
    /\ pc' = "idle"
    /\ UNCHANGED <<candle, reading, saved, decided, eventful, taken>>

Crash ==
    /\ pc # "idle"
    /\ decision' = NoDecision
    /\ pc' = "idle"
    /\ UNCHANGED <<candle, reading, saved, gate, decided, eventful, taken>>

\* What was decided before is forgotten with the file.
CrashInSave ==
    /\ pc = "made"
    /\ saved' = DefaultState
    /\ decided' = {} /\ eventful' = {}
    /\ decision' = NoDecision
    /\ pc' = "idle"
    /\ UNCHANGED <<candle, reading, gate, taken>>

TickNext ==
    NextCandle \/ PositionMoves \/ MakeDecision \/ SaveDecisionState \/ HandOver
        \/ SaveGate \/ Crash \/ CrashInSave

TickSpec == TickInit /\ [][TickNext]_tickVars

-----------------------------------------------------------------------------
(* Properties *)

\* Every variable has its type; a pending entry is one of the followers' and is
\* never older than its window.
TickTypeOK ==
    /\ candle \in 0 .. MaxCandle /\ gate \in 0 .. candle
    /\ reading \in Readings
    /\ pc \in {"idle", "made", "saved", "handed"}
    /\ decision \in Decisions
    /\ saved.pending \in Pendings \cup {NoPending}
    /\ saved.cooldown \in [remaining : 0 .. CooldownCandles, last : 0 .. MaxCandle]
    /\ saved.market \in MarketStates /\ saved.memory \in Memories
    /\ saved.labels \in Seq([ts : Candles, elapsed : 0 .. Horizon - 1])
    /\ eventful \subseteq decided /\ decided \subseteq 1 .. candle
    /\ taken \subseteq 1 .. candle

\* Whatever path the decision takes (a strategy, a confirmed pending entry, an
\* early entry), it opens nothing on an incomplete history, beside an open
\* position, or on a chaotic event.
OpensOnlyWhenFree ==
    Opens(decision) =>
        /\ reading.complete /\ ~reading.held
        /\ EventClass(reading.market) # "EVENT_CHAOTIC"

\* An event keeps the bot out until EVENT_COOLDOWN_CANDLES candles are decided after
\* it, the candle of the entry among them, although candles are decided again after
\* a crash.
CooldownHolds ==
    pc = "made" /\ Opens(decision) =>
        \A e \in eventful \cup (IF reading.market.event THEN {candle} ELSE {}) :
            Cardinality({d \in decided \cup {candle} : e < d}) >= CooldownCandles

\* A pending entry does not wait through an event: none is saved while the
\* cooldown runs.
NoPendingInCooldown == saved.pending # NoPending => saved.cooldown.remaining = 0

\* A pending entry is confirmed within PENDING_EXPIRE_CANDLES decided candles
\* after the one that set it, and never by that one.
ConfirmsInWindow ==
    pc = "made" /\ decision.origin # 0 =>
        /\ decision.origin < candle
        /\ Cardinality({d \in decided : decision.origin < d /\ d < candle}) < ExpireCandles

\* A pending entry opens at most one position: since its confirmation is saved
\* before it is handed over, no restart brings it back.
TakenOnce == [][HandOver => ~(Opens(decision) /\ decision.origin \in taken)]_tickVars

\* The labels that wait for their outcome stay within both limits and in the order of
\* their candles, and none outlives its horizon: each has aged with every candle
\* that was decided after its own.  A candle decided twice ages it twice.
LabelsBounded ==
    /\ Len(saved.labels) <= QueueLimit /\ Len(saved.labels) <= FileLimit
    /\ \A i \in DOMAIN saved.labels :
           /\ Cardinality({d \in decided : saved.labels[i].ts < d}) <= saved.labels[i].elapsed
           /\ saved.labels[i].elapsed < Horizon
           /\ i > 1 => saved.labels[i - 1].ts <= saved.labels[i].ts
=============================================================================
