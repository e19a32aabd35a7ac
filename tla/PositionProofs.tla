--------------------------- MODULE PositionProofs ---------------------------
(***************************************************************************)
(* Proofs about what the trading loop and the execution service keep       *)
(* together: no second call requests the entry of a candle, the position   *)
(* never outgrows what one call may request, and the stop is moved only    *)
(* after a target.  Each rests on what the loop read in the tick and on    *)
(* how long that stays true while exits fill and the process dies.         *)
(***************************************************************************)
EXTENDS TradingLoopProofs, OrderProofs

\* From the snapshot to the decision.
Watching == {"recheck", "orders", "market", "decide"}

-----------------------------------------------------------------------------
(* The kinds of steps of the loop *)

\* Steps that leave the exchange and the call of the service alone.
LoopAlone ==
    \/ BootPositions \/ BootReconcile
    \/ TakeSnapshot \/ Recheck \/ ReconcileOrders
    \/ NoCandle \/ SkipCandle \/ TakeCandle
    \/ Hold \/ DecideOpen \/ DecideClose \/ DecideUpdate
    \/ Executed \/ SaveGate \/ NewCandle

Crashes == Crash \/ CrashTornIds \/ CrashTornPosition \/ CrashTornCooldown \/ CrashTornGate

LEMMA LoopKinds ==
  [LoopNext]_allVars =>
      LoopAlone \/ HandOver \/ Execute \/ Exchange \/ Crashes \/ UNCHANGED allVars
  BY DEF LoopNext, AppStep, LoopAlone, Crashes

LEMMA AloneFacts == LoopAlone => UNCHANGED <<exchange, proc, history>>
  <1>1. ServiceIdles \/ KilledElsewhere => UNCHANGED <<exchange, proc, history>>
    BY DEF ServiceIdles, KilledElsewhere, vars, exchange, history
  <1>. QED
    BY <1>1
    DEF LoopAlone, BootPositions, BootReconcile, KillAndRaise, TakeSnapshot, Recheck,
        ReconcileOrders, NoCandle, SkipCandle, TakeCandle, Hold, DecideOpen, DecideClose,
        DecideUpdate, PlanTo, Executed, SaveGate, NewCandle

\* Where the loop's own steps take the tick.
LEMMA TickRoutes ==
  ASSUME LoopInv
  PROVE  /\ BootPositions \/ BootReconcile \/ NoCandle \/ SkipCandle \/ Hold \/ SaveGate =>
                ~In("execute") /\ tick'.pc \notin Watching \cup {"call", "execute"}
         /\ Executed => At("idle") /\ tick'.pc = "gate"
         /\ TakeSnapshot => In("sleep") /\ tick'.pc = "recheck" /\ tick'.snapshot = posState'
         /\ Recheck \/ ReconcileOrders =>
                /\ tick.pc \in {"recheck", "orders"}
                /\ \/ tick'.pc \in {"off", "sleep"}
                   \/ tick'.pc \in {"orders", "market"} /\ tick'.snapshot = tick.snapshot
         /\ TakeCandle =>
                /\ In("market") /\ tick'.pc = "decide" /\ tick'.ts = candle
                /\ tick'.snapshot = tick.snapshot
         /\ \A plan : PlanTo(plan) =>
                /\ tick'.pc = "call" /\ tick'.plan = plan /\ tick'.ts = tick.ts
                /\ tick'.snapshot = tick.snapshot
  <1>1. Off.pc = "off" /\ Sleeping.pc = "sleep"
    BY TickMoves
  <1>2. \A amount, snapshot :
            /\ [Off EXCEPT !.pc = "boot", !.seen = amount].pc = "boot"
            /\ [Off EXCEPT !.pc = "recheck", !.snapshot = snapshot].pc = "recheck"
            /\ [Off EXCEPT !.pc = "recheck", !.snapshot = snapshot].snapshot = snapshot
    BY DEF Off
  <1>3. \A amount, open :
            /\ [tick EXCEPT !.pc = "market"].pc = "market"
            /\ [tick EXCEPT !.pc = "market"].snapshot = tick.snapshot
            /\ [tick EXCEPT !.pc = "orders", !.seen = amount].pc = "orders"
            /\ [tick EXCEPT !.pc = "orders", !.seen = amount].snapshot = tick.snapshot
            /\ [tick EXCEPT !.pc = "market", !.tpOpen = open].pc = "market"
            /\ [tick EXCEPT !.pc = "market", !.tpOpen = open].snapshot = tick.snapshot
            /\ [tick EXCEPT !.pc = "gate"].pc = "gate"
    BY DEF LoopInv, LoopTypes
  <1>. HIDE DEF Off, Sleeping
  <1>4. BootPositions \/ BootReconcile \/ NoCandle \/ SkipCandle \/ Hold \/ SaveGate =>
            ~In("execute") /\ tick'.pc \notin Watching \cup {"call", "execute"}
    BY <1>1, <1>2
    DEF BootPositions, BootReconcile, NoCandle, SkipCandle, Hold, SaveGate, EndTick,
        KillAndRaise, In, Watching
  <1>5. Executed => At("idle") /\ tick'.pc = "gate"
    BY <1>3 DEF Executed
  <1>6. TakeSnapshot => In("sleep") /\ tick'.pc = "recheck" /\ tick'.snapshot = posState'
    BY <1>2 DEF TakeSnapshot
  <1>7. ASSUME Recheck \/ ReconcileOrders
        PROVE  /\ tick.pc \in {"recheck", "orders"}
               /\ \/ tick'.pc \in {"off", "sleep"}
                  \/ tick'.pc \in {"orders", "market"} /\ tick'.snapshot = tick.snapshot
    <2>1. tick.pc \in {"recheck", "orders"}
      BY <1>7 DEF Recheck, ReconcileOrders, In
    <2>2. \E amount, open :
              \/ tick' = Off \/ tick' = Sleeping
              \/ tick' = [tick EXCEPT !.pc = "market"]
              \/ tick' = [tick EXCEPT !.pc = "orders", !.seen = amount]
              \/ tick' = [tick EXCEPT !.pc = "market", !.tpOpen = open]
      <3>1. CASE Recheck
        BY <3>1 DEF Recheck, Reconciled
      <3>2. CASE ReconcileOrders
        BY <3>2 DEF ReconcileOrders, KillAndRaise
      <3>. QED
        BY <1>7, <3>1, <3>2
    <2>3. PICK amount, open :
              \/ tick' = Off \/ tick' = Sleeping
              \/ tick' = [tick EXCEPT !.pc = "market"]
              \/ tick' = [tick EXCEPT !.pc = "orders", !.seen = amount]
              \/ tick' = [tick EXCEPT !.pc = "market", !.tpOpen = open]
      BY <2>2
    <2>4. CASE tick' = Off \/ tick' = Sleeping
      BY <1>1, <2>1, <2>4
    <2>5. CASE tick' = [tick EXCEPT !.pc = "market"]
      BY <1>3, <2>1, <2>5
    <2>6. CASE tick' = [tick EXCEPT !.pc = "orders", !.seen = amount]
      BY <1>3, <2>1, <2>6
    <2>7. CASE tick' = [tick EXCEPT !.pc = "market", !.tpOpen = open]
      BY <1>3, <2>1, <2>7
    <2>. QED
      BY <2>3, <2>4, <2>5, <2>6, <2>7
  <1>8. TakeCandle =>
            /\ In("market") /\ tick'.pc = "decide" /\ tick'.ts = candle
            /\ tick'.snapshot = tick.snapshot
    BY DEF TakeCandle, LoopInv, LoopTypes
  <1>9. \A plan : PlanTo(plan) =>
            /\ tick'.pc = "call" /\ tick'.plan = plan /\ tick'.ts = tick.ts
            /\ tick'.snapshot = tick.snapshot
    BY DEF PlanTo, LoopInv, LoopTypes
  <1>. QED
    BY <1>4, <1>5, <1>6, <1>7, <1>8, <1>9

LEMMA HandOverFacts ==
  ASSUME LoopInv, HandOver
  PROVE  /\ In("call") /\ proc.pc = "idle"
         /\ UNCHANGED <<exchange, history, gate, posState, lastTry, candle>>
         /\ tick' = [tick EXCEPT !.pc = "execute"]
         /\ \/ proc' = proc
            \/ /\ proc' = [Idle EXCEPT !.pc = "leverage", !.plan = tick.plan, !.attempt = 1]
               /\ tick.plan.action = "OPEN"
            \/ /\ proc' = [Idle EXCEPT !.pc = "close", !.plan = tick.plan, !.attempt = 1]
               /\ tick.plan.action = "CLOSE"
            \/ /\ proc' = [Idle EXCEPT !.pc = "upd_position", !.plan = tick.plan, !.attempt = 1]
               /\ tick.plan.action = "UPDATE_SLTP"
  <1>1. Call(tick.plan) /\ In("call") /\ UNCHANGED <<loopDisk, candle>>
        /\ tick' = [tick EXCEPT !.pc = "execute"]
    BY DEF HandOver
  <1>. QED
    BY <1>1
    DEF Call, CallReadonly, CallSafeRun, CallUpdate, CallDuplicate, CallDryRun, CallClose,
        CallOpen, CallKnown, ReturnAtOnce, Begin, Fresh, loopDisk, exchange, history

\* The process is gone; only what is on disk and on the exchange is left.
LEMMA CrashFacts ==
  ASSUME Crashes
  PROVE  /\ proc' = Idle /\ tick' = Off /\ UNCHANGED <<exchange, history, candle>>
         /\ posState' \in {posState, NoState}
         /\ lastTry' = lastTry \/ (lastTry' = 0 /\ In("call") /\ tick.plan.action = "OPEN")
  <1>1. Restart \/ RestartTorn => proc' = Idle /\ UNCHANGED <<exchange, history>>
    BY DEF Restart, RestartTorn, ProcessRestarts
  <1>. QED
    BY <1>1
    DEF Crashes, Crash, CrashTornIds, CrashTornPosition, CrashTornCooldown, CrashTornGate,
        CrashInWrite, loopDisk

\* A step of the service's call keeps its plan, and returns to a request only to
\* repeat it.
LEMMA ServicePlan ==
  ASSUME TypeInv, ServiceStep
  PROVE  /\ proc.pc # "idle"
         /\ proc'.pc # "leverage"
         /\ proc'.pc # "idle" => proc'.plan = proc.plan
         /\ proc'.pc = "entry" =>
                \/ LeverageStep /\ proc.pc = "leverage" /\ proc'.attempt = proc.attempt
                \/ /\ EntryStep /\ proc.pc = "entry" /\ proc.attempt < Attempts
                   /\ proc'.attempt = proc.attempt + 1
         /\ proc'.pc = "close" => CloseStep /\ proc.attempt < Attempts
  <1>0. proc \in Procs
    BY StateFacts
  <1>a. Retry => /\ proc'.pc = proc.pc /\ proc'.plan = proc.plan
                 /\ proc.attempt < Attempts /\ proc'.attempt = proc.attempt + 1
    BY <1>0 DEF Retry, Procs
  <1>b. \A o, pc : PostAnswered(o, pc) => proc'.pc = pc /\ proc'.plan = proc.plan
    BY <1>0 DEF PostAnswered, Procs
  <1>1. CASE LeverageStep
    BY <1>0, <1>1 DEF LeverageStep, At, Procs
  <1>2. CASE EntryStep
    <2>1. /\ proc.pc = "entry"
          /\ \/ \E o : PostAnswered(o, "fill")
             \/ Retry
             \/ \E executed, reason, errs : Return(executed, reason, errs)
      BY <1>2 DEF EntryStep, At
    <2>. QED
      BY <1>2, <1>a, <1>b, <2>1, ReturnIsIdle
  <1>3. CASE CloseStep
    <2>1. /\ proc.pc = "close"
          /\ \/ \E o : PostAnswered(o, "close_fill")
             \/ Retry
             \/ \E executed, reason, errs : Return(executed, reason, errs)
      BY <1>3 DEF CloseStep, At
    <2>. QED
      BY <1>3, <1>a, <1>b, <2>1, ReturnIsIdle
  <1>4. CASE FillStep \/ CloseFillStep
    <2>1. PollInconclusive => proc'.pc = proc.pc /\ proc'.plan = proc.plan
      BY <1>0 DEF PollInconclusive, Procs
    <2>2. proc' = [proc EXCEPT !.pc = "sl", !.attempt = 1] =>
              proc'.pc = "sl" /\ proc'.plan = proc.plan
      BY <1>0 DEF Procs
    <2>3. proc.pc \in {"fill", "close_fill"}
      BY <1>4 DEF FillStep, CloseFillStep, At
    <2>4. \/ PollInconclusive
          \/ proc' = [proc EXCEPT !.pc = "sl", !.attempt = 1]
          \/ \E executed, reason, errs : Return(executed, reason, errs)
      BY <1>4 DEF FillStep, CloseFillStep, NotFilled
    <2>. QED
      BY <2>1, <2>2, <2>3, <2>4, ReturnIsIdle
  <1>5. CASE SlStep \/ TpStep
    BY <1>0, <1>5 DEF SlStep, TpStep, At, PostAnswered, Retry, Skip, Procs
  <1>6. CASE SlSaveStep \/ TpSaveStep \/ UpdSaveStep
    BY <1>0, <1>6 DEF SlSaveStep, TpSaveStep, UpdSaveStep, SaveStep, At, Procs
  <1>7. CASE OpenDone \/ UpdPlaceStep
    BY <1>0, <1>7 DEF OpenDone, UpdPlaceStep, Retry, Return, Idle, At, Procs
  <1>8. CASE UpdPositionStep \/ UpdOrdersStep \/ UpdCancelStep \/ UpdCancelDone
    <2>1. proc.pc \in {"upd_position", "upd_orders", "upd_cancel"}
      BY <1>8 DEF UpdPositionStep, UpdOrdersStep, UpdCancelStep, UpdCancelDone, At
    <2>2. \/ Return(FALSE, "no_position", {})
          \/ Retry
          \/ proc'.pc \notin {"leverage", "entry", "close"} /\ proc'.plan = proc.plan
      <3>1. CancelFailed => proc'.pc = "upd_save" /\ proc'.plan = proc.plan
        BY <1>0 DEF CancelFailed, Procs
      <3>. QED
        BY <1>0, <1>8, <3>1
        DEF UpdPositionStep, UpdOrdersStep, UpdCancelStep, UpdCancelDone, At, Procs
    <2>. QED
      BY <1>a, <2>1, <2>2, ReturnIsIdle
  <1>. QED
    BY <1>1, <1>2, <1>3, <1>4, <1>5, <1>6, <1>7, <1>8 DEF ServiceStep

-----------------------------------------------------------------------------
(* No second request *)

\* The cooldown file says that the newest candle an entry was requested for is
\* the last one tried, for as long as that candle can still be decided on.
AttemptNoted ==
    \A c \in posted : c <= candle /\ (c = candle => lastTry = candle)

DecidesOnNoted ==
    In("decide") =>
        /\ tick.ts <= candle
        /\ \A c \in posted : c <= tick.ts /\ (c = tick.ts => lastTry = tick.ts)

\* No call has requested the entry of the candle: every request was older.
Unrequested(ts) == ts <= candle /\ lastTry = ts /\ \A c \in posted : c < ts

CallIsFirst == In("call") /\ tick.plan.action = "OPEN" => Unrequested(tick.plan.ts)

RequestIsFirst ==
    /\ proc.pc = "leverage" => proc.attempt = 1
    /\ proc.pc = "entry" => proc.attempt > 0
    /\ proc.pc = "leverage" \/ (proc.pc = "entry" /\ proc.attempt = 1) =>
           Unrequested(proc.plan.ts)

\* A call of the service runs inside the tick that made it.
CallInTick == proc.pc # "idle" => In("execute")

RequestInv ==
    AttemptNoted /\ DecidesOnNoted /\ CallIsFirst /\ RequestIsFirst /\ CallInTick
    /\ NoSecondRequest

LEMMA RequestInit == LoopInit => RequestInv
  BY DEF LoopInit, Init, RequestInv, AttemptNoted, DecidesOnNoted, CallIsFirst, RequestIsFirst,
         CallInTick, NoSecondRequest, In, Off, Idle

\* Candles are counted in natural numbers.
LEMMA CandleNumbers ==
  ASSUME LoopInv
  PROVE  /\ candle \in Nat /\ lastTry \in Nat /\ tick.ts \in Nat
         /\ posted \subseteq Nat \ {0} /\ proc.attempt \in Nat
         /\ proc.pc \in {"leverage", "entry"} => proc.plan.ts \in Nat \ {0}
         /\ In("call") => tick.plan.ts \in Nat \ {0}
  <1>0. \A c \in Candles : c \in Nat \ {0}
    BY CandlesAssumption
  <1>1. /\ lastTry \in Candles \cup {0} /\ candle \in Candles \cup {0}
        /\ tick.ts \in Candles \cup {0} /\ posted \subseteq Candles
    BY TickTypes, StateFacts DEF LoopInv, LoopTypes
  <1>2. proc.attempt \in Nat
    BY StateFacts DEF LoopInv, Procs
  <1>3. proc.pc \in {"leverage", "entry"} => proc.plan.ts \in Candles
    BY StateFacts DEF LoopInv, PlanFits, OpenPCs
  <1>4. In("call") => tick.plan.ts \in Candles
    BY PlanTypes DEF LoopInv, TickFits, AllPlans
  <1>. QED
    BY <1>0, <1>1, <1>2, <1>3, <1>4

\* The tick moves on or ends; what it decides on, it decides on as before.
LEMMA RequestKept ==
  ASSUME LoopInv, RequestInv, UNCHANGED <<proc, posted, reposted, candle, lastTry>>,
         tick'.pc = "decide" => /\ tick'.ts <= candle
                                /\ \A c \in posted : c <= tick'.ts
                                                    /\ (c = tick'.ts => lastTry = tick'.ts),
         tick'.pc # "call" \/ tick'.plan.action # "OPEN",
         proc.pc = "idle" \/ tick'.pc = "execute"
  PROVE  RequestInv'
  BY DEF RequestInv, AttemptNoted, DecidesOnNoted, CallIsFirst, RequestIsFirst, CallInTick,
         NoSecondRequest, Unrequested, In

LEMMA AloneRequests ==
  ASSUME EveryPlan, Cooldown >= 1, LoopInv, RequestInv, LoopAlone
  PROVE  RequestInv'
  <1>0. UNCHANGED <<proc, posted, reposted>>
    BY AloneFacts DEF history
  <1>i. ~In("execute") => proc.pc = "idle"
    BY DEF RequestInv, CallInTick
  <1>1. CASE \/ BootPositions \/ BootReconcile \/ TakeSnapshot \/ Recheck \/ ReconcileOrders
             \/ NoCandle \/ SkipCandle \/ Hold \/ SaveGate \/ Executed
    <2>1. UNCHANGED <<candle, lastTry>>
      BY <1>1
      DEF BootPositions, BootReconcile, TakeSnapshot, Recheck, ReconcileOrders, NoCandle,
          SkipCandle, Hold, SaveGate, Executed, loopDisk
    <2>2. tick'.pc \notin {"decide", "call"} /\ proc.pc = "idle"
      <3>1. CASE BootPositions \/ BootReconcile \/ NoCandle \/ SkipCandle \/ Hold \/ SaveGate
        BY <1>i, <3>1, TickRoutes DEF Watching
      <3>2. CASE TakeSnapshot \/ Recheck \/ ReconcileOrders \/ Executed
        BY <1>i, <3>2, TickRoutes DEF In, At
      <3>. QED
        BY <1>1, <3>1, <3>2
    <2>. QED
      BY <1>0, <2>1, <2>2, RequestKept
  <1>2. CASE TakeCandle
    <2>1. /\ UNCHANGED <<candle, lastTry>> /\ tick'.pc = "decide" /\ tick'.ts = candle
          /\ proc.pc = "idle"
      BY <1>2, <1>i DEF TakeCandle, loopDisk, LoopInv, LoopTypes, In
    <2>2. \A c \in posted : c <= candle /\ (c = candle => lastTry = candle)
      BY DEF RequestInv, AttemptNoted
    <2>. QED
      BY <1>0, <2>1, <2>2, CandleNumbers, RequestKept
  <1>3. CASE DecideClose \/ DecideUpdate
    <2>1. UNCHANGED <<candle, lastTry>> /\ tick'.pc = "call" /\ proc.pc = "idle"
      BY <1>3, <1>i, TickRoutes DEF DecideClose, DecideUpdate, PlanTo, In
    <2>2. tick'.plan.action # "OPEN"
      <3>1. CASE DecideClose
        BY <3>1 DEF DecideClose, PlanTo, LoopInv, LoopTypes
      <3>2. CASE DecideUpdate
        BY <3>2 DEF DecideUpdate, PlanTo, UpdatePlans, LoopInv, LoopTypes
      <3>. QED
        BY <1>3, <3>1, <3>2
    <2>. QED
      BY <1>0, <2>1, <2>2, RequestKept
  <1>4. CASE DecideOpen
    <2>1. PICK plan \in OpenPlans : plan.ts = tick.ts /\ PlanTo(plan)
      BY <1>4 DEF DecideOpen
    <2>2. /\ In("decide") /\ proc.pc = "idle" /\ lastTry' = tick.ts /\ candle' = candle
          /\ tick'.pc = "call" /\ tick'.plan = plan
          /\ lastTry = 0 \/ tick.ts - lastTry >= Cooldown
      BY <1>4, <1>i, <2>1 DEF DecideOpen, PlanTo, LoopInv, LoopTypes, In
    <2>3. \A c \in posted : c < tick.ts
      <3>1. ASSUME NEW c \in posted PROVE c # tick.ts /\ c <= tick.ts
        <4>1. c <= tick.ts /\ (c = tick.ts => lastTry = tick.ts) /\ c \in Nat \ {0}
          BY <2>2, CandleNumbers DEF RequestInv, DecidesOnNoted
        <4>. QED
          BY <2>2, <4>1, CandleNumbers, LoopAssumption, Cooldown >= 1
      <3>. QED
        BY <3>1, CandleNumbers
    <2>4. tick.ts <= candle
      BY <2>2 DEF RequestInv, DecidesOnNoted
    <2>5. AttemptNoted'
      BY <1>0, <2>2, <2>3, <2>4, CandleNumbers DEF AttemptNoted
    <2>. QED
      BY <1>0, <2>1, <2>2, <2>3, <2>4, <2>5
      DEF RequestInv, DecidesOnNoted, CallIsFirst, RequestIsFirst, CallInTick, NoSecondRequest,
          Unrequested, In
  <1>5. CASE NewCandle
    <2>1. candle' = candle + 1 /\ UNCHANGED <<lastTry, tick>>
      BY <1>5 DEF NewCandle, loopDisk
    <2>. QED
      BY <1>0, <2>1, CandleNumbers
      DEF RequestInv, AttemptNoted, DecidesOnNoted, CallIsFirst, RequestIsFirst, CallInTick,
          NoSecondRequest, Unrequested, In
  <1>. QED
    BY <1>1, <1>2, <1>3, <1>4, <1>5 DEF LoopAlone

LEMMA HandOverRequests == ASSUME LoopInv, RequestInv, HandOver PROVE RequestInv'
  <1>1. /\ In("call") /\ proc.pc = "idle" /\ UNCHANGED <<posted, reposted, candle, lastTry>>
        /\ tick'.pc = "execute"
    BY HandOverFacts DEF LoopInv, LoopTypes, history
  <1>2. /\ proc'.pc \in {"idle", "leverage", "close", "upd_position"}
        /\ proc'.pc = "leverage" =>
               proc'.attempt = 1 /\ proc'.plan = tick.plan /\ tick.plan.action = "OPEN"
    BY <1>1, HandOverFacts DEF Idle
  <1>3. proc'.pc = "leverage" => Unrequested(proc'.plan.ts)
    BY <1>1, <1>2 DEF RequestInv, CallIsFirst
  <1>. QED
    BY <1>1, <1>2, <1>3
    DEF RequestInv, AttemptNoted, DecidesOnNoted, CallIsFirst, RequestIsFirst, CallInTick,
        NoSecondRequest, Unrequested, In

\* Only the first request of a call adds to the history, and it is the first for
\* its candle.
LEMMA ExecuteRequests == ASSUME LoopInv, RequestInv, Execute PROVE RequestInv'
  <1>1. TypeInv /\ ServiceStep /\ In("execute") /\ UNCHANGED <<candle, lastTry, tick>>
    BY DEF Execute, LoopInv, loopVars
  <1>2. EntryStep \/ UNCHANGED history
    BY <1>1
    DEF ServiceStep, LeverageStep, FillStep, SlStep, SlSaveStep, TpStep, TpSaveStep, OpenDone,
        CloseStep, CloseFillStep, UpdPositionStep, UpdOrdersStep, UpdCancelStep, UpdCancelDone,
        UpdSaveStep, UpdPlaceStep, SaveStep
  <1>3. CASE EntryStep /\ proc.attempt = 1
    <2>1. /\ proc.pc = "entry" /\ posted' = posted \cup {proc.plan.ts}
          /\ reposted' = IF proc.plan.ts \in posted THEN reposted \cup {proc.plan.ts}
                                                   ELSE reposted
      BY <1>3 DEF EntryStep, At, NoteEntryRequest
    <2>2. Unrequested(proc.plan.ts) /\ proc.plan.ts \in Nat \ {0}
      BY <1>3, <2>1, CandleNumbers DEF RequestInv, RequestIsFirst
    <2>3. reposted' = {}
      BY <2>1, <2>2, CandleNumbers DEF Unrequested, RequestInv, NoSecondRequest
    <2>4. AttemptNoted'
      BY <1>1, <2>1, <2>2, CandleNumbers DEF RequestInv, AttemptNoted, Unrequested
    <2>5. RequestIsFirst'
      BY <1>1, <1>3, <2>1, ServicePlan DEF RequestIsFirst
    <2>. QED
      BY <1>1, <2>3, <2>4, <2>5
      DEF RequestInv, DecidesOnNoted, CallIsFirst, CallInTick, NoSecondRequest, In
  <1>4. CASE UNCHANGED history
    <2>1. UNCHANGED <<posted, reposted>>
      BY <1>4 DEF history
    <2>2. RequestIsFirst'
      <3>1. CASE proc'.pc = "entry"
        <4>1. proc'.plan = proc.plan
          BY <1>1, <3>1, ServicePlan
        <4>2. CASE proc.pc = "leverage" /\ proc'.attempt = proc.attempt
          BY <1>1, <2>1, <3>1, <4>1, <4>2 DEF RequestInv, RequestIsFirst, Unrequested
        <4>3. CASE proc.pc = "entry" /\ proc'.attempt = proc.attempt + 1
          <5>1. proc'.attempt > 1 /\ proc'.attempt \in Nat
            BY <4>3, CandleNumbers DEF RequestInv, RequestIsFirst
          <5>. QED
            BY <3>1, <5>1 DEF RequestIsFirst
        <4>. QED
          BY <1>1, <3>1, <4>2, <4>3, ServicePlan
      <3>. QED
        BY <1>1, <3>1, ServicePlan DEF RequestIsFirst
    <2>. QED
      BY <1>1, <2>1, <2>2
      DEF RequestInv, AttemptNoted, DecidesOnNoted, CallIsFirst, CallInTick, NoSecondRequest, In
  <1>5. CASE EntryStep /\ proc.attempt # 1
    BY <1>4, <1>5 DEF EntryStep, NoteEntryRequest
  <1>. QED
    BY <1>2, <1>3, <1>4, <1>5

LEMMA CrashRequests == ASSUME LoopInv, RequestInv, Crashes PROVE RequestInv'
  <1>1. /\ UNCHANGED <<posted, reposted, candle>> /\ proc'.pc = "idle" /\ tick'.pc = "off"
    BY CrashFacts, TickMoves DEF history, Idle
  <1>2. AttemptNoted'
    <2>1. CASE lastTry' = lastTry
      BY <1>1, <2>1 DEF RequestInv, AttemptNoted
    <2>2. CASE In("call") /\ tick.plan.action = "OPEN"
      <3>1. \A c \in posted : c < candle
        BY <2>2, CandleNumbers DEF RequestInv, CallIsFirst, Unrequested
      <3>. QED
        BY <1>1, <3>1, CandleNumbers DEF AttemptNoted
    <2>. QED
      BY <2>1, <2>2, CrashFacts
  <1>. QED
    BY <1>1, <1>2
    DEF RequestInv, DecidesOnNoted, CallIsFirst, RequestIsFirst, CallInTick, NoSecondRequest, In

LEMMA RequestStep ==
  ASSUME EveryPlan, Cooldown >= 1
  PROVE  LoopInv /\ RequestInv /\ [LoopNext]_allVars => RequestInv'
  <1>. SUFFICES ASSUME LoopInv, RequestInv, [LoopNext]_allVars PROVE RequestInv'
    OBVIOUS
  <1>1. CASE LoopAlone
    BY <1>1, AloneRequests
  <1>2. CASE Exchange
    BY <1>2
    DEF Exchange, ExchangeStep, ExchangeFills, ExchangeExpires, loopVars, history, RequestInv,
        AttemptNoted, DecidesOnNoted, CallIsFirst, RequestIsFirst, CallInTick, NoSecondRequest,
        Unrequested, In
  <1>3. CASE UNCHANGED allVars
    BY <1>3
    DEF allVars, loopVars, vars, RequestInv, AttemptNoted, DecidesOnNoted, CallIsFirst,
        RequestIsFirst, CallInTick, NoSecondRequest, Unrequested, In
  <1>. QED
    BY <1>1, <1>2, <1>3, LoopKinds, HandOverRequests, ExecuteRequests, CrashRequests

\* With a cooldown of a candle at least, no candle's entry is requested by a
\* second call, whichever of the state files is torn and however often the
\* process dies: where the trade ids are lost the cooldown file still tells.
THEOREM TornFilesRequestOnce ==
  ASSUME EveryPlan, Cooldown >= 1
  PROVE  LoopSpec => []NoSecondRequest
  <1>1. RequestInv => NoSecondRequest
    BY DEF RequestInv
  <1>2. LoopInv /\ [LoopNext]_allVars => LoopInv'
    BY LoopInvStep
  <1>3. LoopInv /\ RequestInv /\ [LoopNext]_allVars => RequestInv'
    BY RequestStep
  <1>. QED
    BY <1>1, <1>2, <1>3, LoopInvInit, RequestInit, PTL DEF LoopSpec

-----------------------------------------------------------------------------
(* What the exchange does to the position *)

LEMMA Sizes ==
  /\ \A n \in Int : SizeOf(n) \in Nat /\ (SizeOf(n) = 0 <=> n = 0)
  /\ \A n, m \in Int : SizeOf(n + m) <= SizeOf(n) + SizeOf(m)
  BY DEF SizeOf

\* An entry order that is open fills; an exit or close order that is open takes
\* its share of a position, or all of it; or an order expires.
LEMMA ExchangeMoves ==
  ASSUME TypeInv, OrderKinds, ExchangeStep
  PROVE  /\ UNCHANGED <<proc, history>>
         /\ \E i \in DOMAIN orders :
              \/ /\ Becomes(i, "FILLED") /\ EntryKind(orders[i])
                 /\ SizeOf(pos') <= SizeOf(pos) + Lot
              \/ /\ Becomes(i, "FILLED") /\ ~EntryKind(orders[i]) /\ orders[i].reduceOnly
                 /\ pos # 0
                 /\ \/ orders[i].closePosition /\ pos' = 0
                    \/ /\ ~orders[i].closePosition
                       /\ SizeOf(pos') = IF SizeOf(pos) > orders[i].qty
                                           THEN SizeOf(pos) - orders[i].qty ELSE 0
              \/ Becomes(i, "EXPIRED") /\ UNCHANGED pos
  <1>1. PICK i \in DOMAIN orders : ExchangeFills(i) \/ ExchangeExpires(i)
    BY DEF ExchangeStep
  <1>2. orders[i] \in Orders /\ pos \in Int /\ Lot \in Nat
    BY StateFacts, LotAssumption
  <1>3. UNCHANGED <<proc, history>>
    BY <1>1 DEF ExchangeFills, ExchangeExpires
  <1>4. CASE ExchangeExpires(i)
    <2>1. Becomes(i, "EXPIRED") /\ UNCHANGED pos
      BY <1>4 DEF ExchangeExpires, Becomes
    <2>. QED
      BY <1>3, <2>1
  <1>5. CASE ExchangeFills(i) /\ EntryKind(orders[i])
    <2>1. Becomes(i, "FILLED")
      BY <1>5 DEF ExchangeFills, Becomes
    <2>2. pos' = pos + Signed(orders[i].side, Lot) /\ orders[i].side \in {"BUY", "SELL"}
      BY <1>2, <1>5 DEF ExchangeFills, EntryKind, Orders
    <2>3. SizeOf(pos') <= SizeOf(pos) + Lot
      BY <1>2, <2>2 DEF Signed, SizeOf
    <2>. QED
      BY <1>3, <1>5, <2>1, <2>3
  <1>6. CASE ExchangeFills(i) /\ ~EntryKind(orders[i])
    <2>1. Becomes(i, "FILLED")
      BY <1>6 DEF ExchangeFills, Becomes
    <2>2. orders[i].reduceOnly
      BY <1>6 DEF OrderKinds, CloseKind, ExitKind
    <2>3. Opposes(orders[i].side)
      BY <1>6, <2>2 DEF ExchangeFills
    <2>4. CASE orders[i].closePosition
      <3>1. pos' = 0
        BY <1>6, <2>4 DEF ExchangeFills
      <3>. QED
        BY <1>3, <1>6, <2>1, <2>2, <2>3, <2>4, <3>1 DEF Opposes
    <2>5. CASE ~orders[i].closePosition
      <3>1. pos' = Reduced(orders[i].side, orders[i].qty) /\ orders[i].qty \in Nat
        BY <1>2, <1>6, <2>2, <2>5 DEF ExchangeFills, Orders
      <3>2. SizeOf(pos') = IF SizeOf(pos) > orders[i].qty THEN SizeOf(pos) - orders[i].qty ELSE 0
        BY <1>2, <2>3, <3>1 DEF Reduced, SizeOf, Opposes
      <3>. QED
        BY <1>3, <1>6, <2>1, <2>2, <2>3, <2>5, <3>2 DEF Opposes
    <2>. QED
      BY <2>4, <2>5
  <1>. QED
    BY <1>1, <1>4, <1>5, <1>6

-----------------------------------------------------------------------------
(* No pyramiding *)

\* What k attempts of a call can have bought.
Capacity(k) == k * Lot

LEMMA Capacities ==
  /\ Capacity(0) = 0 /\ Capacity(1) = Lot
  /\ \A k \in Nat : Capacity(k) \in Nat /\ Capacity(k + 1) = Capacity(k) + Lot
  /\ \A k, m \in Nat : k <= m => Capacity(k) <= Capacity(m)
  <1>0. Lot \in Nat
    BY LotAssumption
  <1>1. Capacity(0) = 0 /\ Capacity(1) = Lot
    BY <1>0 DEF Capacity
  <1>2. \A k \in Nat : Capacity(k) \in Nat /\ Capacity(k + 1) = Capacity(k) + Lot
    BY <1>0 DEF Capacity
  <1>3. ASSUME NEW k \in Nat, NEW m \in Nat, k <= m
        PROVE  Capacity(k) <= Capacity(m)
    <2>1. m - k \in Nat /\ (m - k) * Lot \in Nat /\ m * Lot = k * Lot + (m - k) * Lot
      BY <1>0, <1>3
    <2>. QED
      BY <1>0, <2>1 DEF Capacity
  <1>. QED
    BY <1>1, <1>2, <1>3

PendingEntries ==
    {i \in DOMAIN orders : EntryKind(orders[i]) /\ orders[i].status = "NEW"}

\* The position, with the entry that is pending, is what k attempts can have bought.
Room(k) ==
    /\ SizeOf(pos) <= Capacity(k)
    /\ PendingEntries # {} => SizeOf(pos) + Lot <= Capacity(k)

OneEntryPending == \A i, j \in PendingEntries : i = j

\* From the snapshot to the first request no market order rests...
RestsInTick ==
    tick.pc \in Watching \cup {"call"} \/ proc.pc = "leverage" => Settled

\* ...so that the position can only have shrunk since the snapshot.
SnapshotHolds == tick.pc \in Watching => SizeOf(pos) <= tick.snapshot.qty

FlatBeforeEntry ==
    (In("call") /\ tick.plan.action = "OPEN") \/ proc.pc = "leverage" => pos = 0

\* Before its k-th request a call can have bought k - 1 times, and what is
\* pending is its own.
AttemptsCounted ==
    /\ proc.pc = "leverage" => proc.attempt = 1
    /\ proc.pc = "entry" =>
           /\ \E k \in Nat : proc.attempt = k + 1 /\ k + 1 <= Attempts /\ Room(k)
           /\ \A i \in PendingEntries : orders[i].id = PlanId(proc.plan)

PositionInv ==
    /\ OneEntryPending /\ RestsInTick /\ SnapshotHolds /\ FlatBeforeEntry /\ AttemptsCounted
    /\ Room(Attempts)
\* What the proofs below take of a state: its types and the kinds of its orders.
PositionFacts == LoopInv /\ OrderKinds

LEMMA PositionInit == LoopInit => PositionInv
  <1>. SUFFICES ASSUME LoopInit PROVE PositionInv
    OBVIOUS
  <1>1. orders = << >> /\ pos = 0 /\ proc.pc = "idle" /\ tick.pc = "off"
    BY DEF LoopInit, Init, Off, Idle
  <1>2. PendingEntries = {}
    BY <1>1 DEF PendingEntries
  <1>3. Room(Attempts)
    BY <1>1, <1>2, Capacities, RetryAssumption DEF Room, SizeOf
  <1>. QED
    BY <1>1, <1>2, <1>3
    DEF PositionInv, OneEntryPending, RestsInTick, SnapshotHolds, FlatBeforeEntry,
        AttemptsCounted, In, Watching

\* Nothing is pending where no market order rests.
LEMMA SettledPending == Settled => PendingEntries = {}
  BY DEF Settled, PendingEntries, EntryKind

\* The exchange stays as it is.
LEMMA ExchangeSame ==
  ASSUME UNCHANGED exchange
  PROVE  /\ (Settled' <=> Settled) /\ PendingEntries' = PendingEntries
         /\ \A k : Room(k)' <=> Room(k)
         /\ OneEntryPending => OneEntryPending'
         /\ \A i : orders'[i] = orders[i]
  BY DEF exchange, Settled, PendingEntries, Room, OneEntryPending

LEMMA AlonePosition ==
  ASSUME ~FailedReads, PositionFacts, PositionInv, LoopAlone
  PROVE  PositionInv'
  <1>. USE DEF PositionFacts
  <1>0. UNCHANGED <<exchange, proc, pos, orders>>
    BY AloneFacts DEF exchange
  <1>1. OneEntryPending' /\ Room(Attempts)' /\ AttemptsCounted'
    <2>1. OneEntryPending' /\ Room(Attempts)'
      BY <1>0, ExchangeSame DEF PositionInv
    <2>2. AttemptsCounted'
      BY <1>0, ExchangeSame DEF PositionInv, AttemptsCounted
    <2>. QED
      BY <2>1, <2>2
  <1>2. ASSUME tick'.pc \in Watching \cup {"call"} => Settled,
               tick'.pc \in Watching => SizeOf(pos) <= tick'.snapshot.qty,
               tick'.pc = "call" /\ tick'.plan.action = "OPEN" => pos = 0
        PROVE  PositionInv'
    BY <1>0, <1>1, <1>2, ExchangeSame
    DEF PositionInv, RestsInTick, SnapshotHolds, FlatBeforeEntry, In
  <1>3. CASE \/ BootPositions \/ BootReconcile \/ NoCandle \/ SkipCandle \/ Hold \/ SaveGate
             \/ Executed
    BY <1>2, <1>3, TickRoutes DEF Watching
  <1>4. CASE TakeSnapshot
    <2>1. Settled /\ tick'.pc = "recheck" /\ tick'.snapshot = posState'
      BY <1>4, TickRoutes DEF TakeSnapshot
    <2>2. posState'.qty = SizeOf(pos)
      <3>1. \A amount \in Readings : amount = pos
        BY DEF Readings
      <3>2. posState' = IF pos = 0 THEN Flat
                        ELSE [posState EXCEPT !.side = SideOf(pos), !.qty = SizeOf(pos)]
        BY <1>4, <3>1 DEF TakeSnapshot
      <3>3. posState \in Snapshots
        BY DEF LoopInv, LoopTypes
      <3>. QED
        BY <3>2, <3>3 DEF Flat, SizeOf, Snapshots
    <2>3. SizeOf(pos) \in Nat
      BY Sizes, StateFacts DEF LoopInv
    <2>. QED
      BY <1>2, <2>1, <2>2, <2>3 DEF Watching
  <1>5. CASE Recheck \/ ReconcileOrders \/ TakeCandle
    <2>1. /\ tick.pc \in Watching
          /\ tick'.pc \notin Watching \cup {"call"}
             \/ (tick'.pc \in Watching /\ tick'.snapshot = tick.snapshot)
      BY <1>5, TickRoutes DEF Watching, In
    <2>. QED
      BY <1>2, <2>1 DEF PositionInv, RestsInTick, SnapshotHolds, Watching
  <1>6. CASE DecideOpen \/ DecideClose \/ DecideUpdate
    <2>1. In("decide") /\ \E plan : PlanTo(plan)
      BY <1>6 DEF DecideOpen, DecideClose, DecideUpdate
    <2>2. tick'.pc = "call" /\ Settled /\ SizeOf(pos) <= tick.snapshot.qty
      BY <2>1, TickRoutes DEF PositionInv, RestsInTick, SnapshotHolds, In, Watching
    <2>3. tick'.plan.action = "OPEN" => pos = 0
      <3>1. CASE DecideOpen
        BY <2>2, <3>1, Sizes, StateFacts DEF DecideOpen, LoopInv
      <3>2. CASE DecideClose
        BY <3>2, TickRoutes DEF DecideClose
      <3>3. CASE DecideUpdate
        BY <3>3, TickRoutes DEF DecideUpdate, UpdatePlans
      <3>. QED
        BY <1>6, <3>1, <3>2, <3>3
    <2>. QED
      BY <1>2, <2>2, <2>3 DEF Watching
  <1>7. CASE NewCandle
    BY <1>2, <1>7
    DEF NewCandle, loopDisk, PositionInv, RestsInTick, SnapshotHolds, FlatBeforeEntry, In
  <1>. QED
    BY <1>3, <1>4, <1>5, <1>6, <1>7 DEF LoopAlone

LEMMA HandOverPosition == ASSUME PositionFacts, PositionInv, HandOver PROVE PositionInv'
  <1>1. /\ In("call") /\ UNCHANGED <<exchange, pos, orders>> /\ tick'.pc = "execute"
        /\ proc'.pc \in {"idle", "leverage", "close", "upd_position"}
        /\ proc'.pc = "leverage" => proc'.attempt = 1 /\ tick.plan.action = "OPEN"
    BY HandOverFacts DEF PositionFacts, LoopInv, LoopTypes, exchange, Idle
  <1>2. Settled /\ (tick.plan.action = "OPEN" => pos = 0)
    BY <1>1 DEF PositionInv, RestsInTick, FlatBeforeEntry, In
  <1>3. OneEntryPending' /\ Room(Attempts)' /\ Settled'
    BY <1>1, <1>2, ExchangeSame DEF PositionInv
  <1>. QED
    BY <1>1, <1>2, <1>3
    DEF PositionInv, RestsInTick, SnapshotHolds, FlatBeforeEntry, AttemptsCounted, In, Watching

\* Fewer entries are pending, and the position has not grown.
LEMMA LessPending ==
  ASSUME TypeInv, PendingEntries' \subseteq PendingEntries, pos' \in Int,
         SizeOf(pos') <= SizeOf(pos)
  PROVE  /\ OneEntryPending => OneEntryPending'
         /\ \A k \in Nat : Room(k) => Room(k)'
  <1>1. SizeOf(pos) \in Nat /\ SizeOf(pos') \in Nat /\ Lot \in Nat
    BY Sizes, StateFacts, LotAssumption
  <1>2. OneEntryPending => OneEntryPending'
    BY DEF OneEntryPending
  <1>3. ASSUME NEW k \in Nat, Room(k) PROVE Room(k)'
    <2>1. Capacity(k) \in Nat /\ Capacity(k)' = Capacity(k)
      BY Capacities DEF Capacity
    <2>. QED
      BY <1>1, <1>3, <2>1 DEF Room
  <1>. QED
    BY <1>2, <1>3

\* An order that is not an entry is sent, or an open order is closed.
LEMMA PendingAfter ==
  ASSUME TypeInv
  PROVE  /\ \A o \in Orders : Accepted(o) /\ ~EntryKind(o) => PendingEntries' = PendingEntries
         /\ \A i : \A s \in Statuses \ {"NEW"} :
                Becomes(i, s) => PendingEntries' = PendingEntries \ {i}
  <1>1. ASSUME NEW o \in Orders, Accepted(o), ~EntryKind(o)
        PROVE  PendingEntries' = PendingEntries
    BY <1>1, AcceptedType, StateFacts DEF PendingEntries
  <1>2. ASSUME NEW i, NEW s \in Statuses \ {"NEW"}, Becomes(i, s)
        PROVE  PendingEntries' = PendingEntries \ {i}
    <2>1. \A j \in DOMAIN orders : EntryKind(orders'[j]) <=> EntryKind(orders[j])
      BY <1>2, BecomesFacts DEF SameOrder, EntryKind
    <2>. QED
      BY <1>2, <2>1, BecomesFacts DEF PendingEntries
  <1>. QED
    BY <1>1, <1>2

\* The k-th request of a call: the exchange takes it only if none is pending.
LEMMA EntryPosition ==
  ASSUME PositionFacts, PositionInv, EntryStep
  PROVE  OneEntryPending' /\ AttemptsCounted' /\ Room(Attempts)'
  <1>. DEFINE o == EntryOrder(proc.plan)
  <1>0. TypeInv /\ ServiceStep /\ Attempts \in Nat
    BY RetryAssumption DEF PositionFacts, LoopInv, ServiceStep
  <1>1. /\ proc.pc = "entry" /\ proc.plan \in Plans /\ proc.plan.ts \in Candles
        /\ proc.plan.action = "OPEN" /\ proc.plan.qty = Lot
    BY <1>0, StateFacts DEF EntryStep, At, PlanFits, OpenPCs
  <1>2. PICK k \in Nat : proc.attempt = k + 1 /\ k + 1 <= Attempts /\ Room(k)
    BY <1>1 DEF PositionInv, AttemptsCounted
  <1>3. \A i \in PendingEntries : orders[i].id = PlanId(proc.plan)
    BY <1>1 DEF PositionInv, AttemptsCounted
  <1>4. o \in Orders /\ o.id = PlanId(proc.plan) /\ EntryKind(o)
    BY <1>0, <1>1, OrderTypes DEF EntryOrder, EntryKind, PlanId, IdOf
  <1>5. UNCHANGED pos /\ (UNCHANGED orders \/ Accepted(o))
    BY DEF EntryStep, PostAnswered, PostUnanswered
  <1>6. /\ Capacity(k) \in Nat /\ Capacity(k + 1) = Capacity(k) + Lot
        /\ Capacity(k + 1) <= Capacity(Attempts) /\ Capacity(Attempts) \in Nat
        /\ SizeOf(pos) \in Nat /\ Lot \in Nat
    <2>1. k + 1 \in Nat
      OBVIOUS
    <2>. QED
      BY <1>0, <1>2, <2>1, Capacities, Sizes, StateFacts, LotAssumption
  <1>. HIDE DEF o
  <1>7. /\ OneEntryPending' /\ Room(k + 1)' /\ Room(Attempts)'
        /\ \A i \in PendingEntries' : orders'[i].id = PlanId(proc.plan)
    <2>1. CASE UNCHANGED orders
      <3>1. Room(k + 1)
        BY <1>2, <1>6 DEF Room
      <3>. QED
        BY <1>3, <1>5, <2>1, <3>1, ExchangeSame DEF PositionInv, exchange
    <2>2. CASE Accepted(o)
      <3>1. PendingEntries = {}
        BY <1>3, <1>4, <2>2 DEF Accepted, PendingEntries
      <3>2. PendingEntries' = {Len(orders) + 1} /\ orders'[Len(orders) + 1] = o
        <4>1. /\ DOMAIN orders' = DOMAIN orders \cup {Len(orders) + 1}
              /\ \A i \in DOMAIN orders : orders'[i] = orders[i]
              /\ orders'[Len(orders) + 1] = o /\ o.status = "NEW"
          BY <1>0, <1>4, <2>2, AcceptedType, StateFacts DEF o, EntryOrder
        <4>2. \A i \in DOMAIN orders : ~(EntryKind(orders'[i]) /\ orders'[i].status = "NEW")
          BY <3>1, <4>1 DEF PendingEntries
        <4>. QED
          BY <1>4, <4>1, <4>2 DEF PendingEntries
      <3>3. Room(k + 1)' /\ Room(Attempts)'
        <4>1. SizeOf(pos) <= Capacity(k) /\ SizeOf(pos') = SizeOf(pos)
          BY <1>2, <1>5 DEF Room
        <4>3. Capacity(k + 1)' = Capacity(k + 1) /\ Capacity(Attempts)' = Capacity(Attempts)
          BY DEF Capacity
        <4>. QED
          BY <1>6, <4>1, <4>3 DEF Room
      <3>. QED
        BY <1>4, <3>2, <3>3 DEF OneEntryPending
    <2>. QED
      BY <1>5, <2>1, <2>2
  <1>8. proc'.pc = "entry" =>
            proc'.plan = proc.plan /\ proc'.attempt = k + 2 /\ k + 2 <= Attempts
    <2>1. proc'.pc = "entry" =>
              proc'.plan = proc.plan /\ proc'.attempt = proc.attempt + 1 /\ proc.attempt < Attempts
      BY <1>0, <1>1, ServicePlan
    <2>. QED
      BY <1>0, <1>2, <2>1
  <1>9. AttemptsCounted'
    <2>1. proc'.pc # "leverage"
      BY <1>0, ServicePlan
    <2>2. k + 1 \in Nat /\ k + 2 = (k + 1) + 1
      OBVIOUS
    <2>. QED
      BY <1>7, <1>8, <2>1, <2>2 DEF AttemptsCounted
  <1>. QED
    BY <1>7, <1>9

LEMMA ExecutePosition == ASSUME PositionFacts, PositionInv, Execute PROVE PositionInv'
  <1>1. TypeInv /\ ServiceStep /\ In("execute") /\ tick' = tick /\ Attempts \in Nat
    BY RetryAssumption DEF Execute, PositionFacts, LoopInv, loopVars
  <1>2. ASSUME OneEntryPending', AttemptsCounted', Room(Attempts)'
        PROVE  PositionInv'
    BY <1>1, <1>2, ServicePlan
    DEF PositionInv, RestsInTick, SnapshotHolds, FlatBeforeEntry, In, Watching
  <1>3. CASE EntryStep
    BY <1>2, <1>3, EntryPosition
  <1>4. CASE ~EntryStep
    <2>1. UNCHANGED pos /\ PendingEntries' \subseteq PendingEntries
      <3>1. CASE UNCHANGED exchange
        BY <3>1, ExchangeSame DEF exchange
      <3>2. CASE Sends /\ UNCHANGED pos
        <4>1. proc.pc # "entry"
          BY <1>1, <1>4
          DEF ServiceStep, LeverageStep, FillStep, SlStep, SlSaveStep, TpStep, TpSaveStep,
              OpenDone, CloseStep, CloseFillStep, UpdPositionStep, UpdOrdersStep, UpdCancelStep,
              UpdCancelDone, UpdSaveStep, UpdPlaceStep, At
        <4>2. PICK o \in Orders : Accepted(o) /\ (CloseKind(o) \/ ExitKind(o))
          BY <1>1, <3>2, <4>1, SentOrders
        <4>. QED
          BY <1>1, <3>2, <4>2, PendingAfter DEF CloseKind, ExitKind, EntryKind
      <3>3. CASE UNCHANGED pos /\ \E i : Becomes(i, "CANCELED")
        BY <1>1, <3>3, PendingAfter DEF Statuses
      <3>. QED
        BY <1>1, <3>1, <3>2, <3>3, ServiceOrders
    <2>2. OneEntryPending' /\ Room(Attempts)'
      <3>1. pos' \in Int /\ SizeOf(pos') <= SizeOf(pos)
        BY <1>1, <2>1, StateFacts, Sizes
      <3>. QED
        BY <1>1, <2>1, <3>1, LessPending DEF PositionInv
    <2>3. AttemptsCounted'
      <3>1. CASE proc'.pc = "entry"
        <4>1. LeverageStep /\ proc.pc = "leverage" /\ proc'.attempt = 1
          BY <1>1, <1>4, <3>1, ServicePlan DEF PositionInv, AttemptsCounted
        <4>2. Settled /\ pos = 0 /\ UNCHANGED exchange
          BY <4>1 DEF PositionInv, RestsInTick, FlatBeforeEntry, LeverageStep
        <4>3. PendingEntries' = {} /\ pos' = 0
          BY <4>2, SettledPending, ExchangeSame DEF exchange
        <4>4. Room(0)'
          <5>1. Capacity(0)' = 0
            BY LotAssumption DEF Capacity
          <5>. QED
            BY <4>3, <5>1 DEF Room, SizeOf
        <4>. QED
          BY <1>1, <3>1, <4>1, <4>3, <4>4, RetryAssumption DEF AttemptsCounted
      <3>. QED
        BY <1>1, <3>1, ServicePlan DEF AttemptsCounted
    <2>. QED
      BY <1>2, <2>2, <2>3
  <1>. QED
    BY <1>3, <1>4

LEMMA SettledKept ==
  ASSUME TypeInv, NEW i, NEW s \in Statuses \ {"NEW"}, Becomes(i, s), Settled
  PROVE  Settled'
  BY BecomesFacts DEF Settled, SameOrder

\* A fill or an expiry, as far as the entries are concerned.
LEMMA EntryMoves ==
  ASSUME PositionFacts, ExchangeStep
  PROVE  /\ UNCHANGED <<proc, history>> /\ pos' \in Int
         /\ Settled => Settled'
         /\ \A j \in PendingEntries' : orders'[j].id = orders[j].id
         /\ \/ /\ PendingEntries' \subseteq PendingEntries /\ SizeOf(pos') <= SizeOf(pos)
               /\ pos = 0 => pos' = 0
            \/ \E i \in PendingEntries : /\ PendingEntries' = PendingEntries \ {i}
                                         /\ SizeOf(pos') <= SizeOf(pos) + Lot
  <1>1. TypeInv /\ OrderKinds /\ [Next]_vars /\ pos \in Int
    BY StateFacts DEF PositionFacts, LoopInv, Next
  <1>2. pos' \in Int
    BY <1>1, TypeStep, StateFacts DEF TypeInv, TypeOK
  <1>3. PICK i \in DOMAIN orders :
            \/ /\ Becomes(i, "FILLED") /\ EntryKind(orders[i])
               /\ SizeOf(pos') <= SizeOf(pos) + Lot
            \/ Becomes(i, "FILLED") /\ pos # 0 /\ SizeOf(pos') <= SizeOf(pos)
            \/ Becomes(i, "EXPIRED") /\ UNCHANGED pos
    <2>1. \A j \in DOMAIN orders : orders[j].qty \in Nat
      <3>1. \A j \in DOMAIN orders : orders[j] \in Orders
        BY <1>1, StateFacts
      <3>. QED
        BY <3>1 DEF Orders
    <2>2. SizeOf(pos) \in Nat /\ SizeOf(0) = 0
      BY <1>1, Sizes DEF SizeOf
    <2>. QED
      BY <1>1, <2>1, <2>2, ExchangeMoves
  <1>4. UNCHANGED <<proc, history>>
    BY <1>1, ExchangeMoves
  <1>5. PICK s \in Statuses \ {"NEW"} : Becomes(i, s)
    BY <1>3 DEF Statuses
  <1>6. /\ PendingEntries' = PendingEntries \ {i} /\ (Settled => Settled')
        /\ \A j \in DOMAIN orders : orders'[j].id = orders[j].id
    BY <1>1, <1>5, PendingAfter, SettledKept, BecomesFacts DEF SameOrder
  <1>7. \A j \in PendingEntries' : orders'[j].id = orders[j].id
    BY <1>6 DEF PendingEntries
  <1>8. CASE EntryKind(orders[i]) /\ SizeOf(pos') <= SizeOf(pos) + Lot
    <2>1. i \in PendingEntries
      BY <1>5, <1>8 DEF PendingEntries, Becomes
    <2>. QED
      BY <1>2, <1>4, <1>6, <1>7, <1>8, <2>1
  <1>9. CASE (pos # 0 /\ SizeOf(pos') <= SizeOf(pos)) \/ UNCHANGED pos
    <2>1. SizeOf(pos) \in Nat
      BY <1>1, Sizes
    <2>. QED
      BY <1>2, <1>4, <1>6, <1>7, <1>9, <2>1
  <1>. QED
    BY <1>3, <1>8, <1>9

LEMMA ExchangePosition == ASSUME PositionFacts, PositionInv, Exchange PROVE PositionInv'
  <1>1. /\ ExchangeStep /\ UNCHANGED <<tick, proc>> /\ TypeInv
        /\ SizeOf(pos) \in Nat /\ SizeOf(pos') \in Nat /\ Lot \in Nat
    BY EntryMoves, StateFacts, Sizes, LotAssumption
    DEF Exchange, PositionFacts, LoopInv, loopVars
  <1>2. ASSUME OneEntryPending', \A k \in Nat : Room(k) => Room(k)',
               Settled => SizeOf(pos') <= SizeOf(pos) /\ (pos = 0 => pos' = 0),
               PendingEntries' \subseteq PendingEntries
        PROVE  PositionInv'
    <2>1. Settled => Settled' /\ SizeOf(pos') <= SizeOf(pos) /\ (pos = 0 => pos' = 0)
      BY <1>1, <1>2, EntryMoves
    <2>2. RestsInTick'
      BY <1>1, <2>1 DEF PositionInv, RestsInTick
    <2>3. SnapshotHolds'
      <3>1. CASE tick.pc \in Watching
        <4>1. tick.snapshot.qty \in Nat
          BY TickTypes DEF PositionFacts, LoopInv
        <4>. QED
          BY <1>1, <2>1, <3>1, <4>1 DEF PositionInv, RestsInTick, SnapshotHolds
      <3>. QED
        BY <1>1, <3>1 DEF SnapshotHolds
    <2>4. FlatBeforeEntry'
      BY <1>1, <2>1 DEF PositionInv, RestsInTick, FlatBeforeEntry, In
    <2>5. AttemptsCounted'
      BY <1>1, <1>2, EntryMoves DEF PositionInv, AttemptsCounted
    <2>6. Room(Attempts)'
      BY <1>2, RetryAssumption DEF PositionInv
    <2>. QED
      BY <1>2, <2>2, <2>3, <2>4, <2>5, <2>6 DEF PositionInv
  <1>3. CASE /\ PendingEntries' \subseteq PendingEntries /\ SizeOf(pos') <= SizeOf(pos)
             /\ pos = 0 => pos' = 0
    BY <1>1, <1>2, <1>3, LessPending, EntryMoves DEF PositionInv
  <1>4. CASE \E i \in PendingEntries : /\ PendingEntries' = PendingEntries \ {i}
                                       /\ SizeOf(pos') <= SizeOf(pos) + Lot
    <2>1. PendingEntries # {} /\ PendingEntries' = {}
      BY <1>4 DEF PositionInv, OneEntryPending
    <2>2. ~Settled /\ OneEntryPending'
      BY <2>1, SettledPending DEF OneEntryPending
    <2>3. ASSUME NEW k \in Nat, Room(k) PROVE Room(k)'
      <3>1. Capacity(k) \in Nat /\ Capacity(k)' = Capacity(k)
        BY Capacities DEF Capacity
      <3>2. SizeOf(pos) + Lot <= Capacity(k)
        BY <2>1, <2>3 DEF Room
      <3>. QED
        BY <1>1, <1>4, <2>1, <3>1, <3>2 DEF Room
    <2>. QED
      BY <1>2, <2>1, <2>2, <2>3
  <1>. QED
    BY <1>1, <1>3, <1>4, EntryMoves

LEMMA CrashPosition == ASSUME PositionFacts, PositionInv, Crashes PROVE PositionInv'
  <1>1. UNCHANGED exchange /\ proc'.pc = "idle" /\ tick'.pc = "off"
    BY CrashFacts, TickMoves DEF Idle
  <1>. QED
    BY <1>1, ExchangeSame
    DEF PositionInv, RestsInTick, SnapshotHolds, FlatBeforeEntry, AttemptsCounted, In, Watching

LEMMA PositionStep ==
  ASSUME ~FailedReads
  PROVE  PositionFacts /\ PositionInv /\ [LoopNext]_allVars => PositionInv'
  <1>. SUFFICES ASSUME PositionFacts, PositionInv, [LoopNext]_allVars PROVE PositionInv'
    OBVIOUS
  <1>1. CASE UNCHANGED allVars
    <2>1. UNCHANGED <<exchange, proc, tick>>
      BY <1>1 DEF allVars, vars, loopVars, exchange
    <2>2. OneEntryPending' /\ Room(Attempts)' /\ AttemptsCounted'
      BY <2>1, ExchangeSame DEF PositionInv, AttemptsCounted
    <2>. QED
      BY <2>1, <2>2, ExchangeSame
      DEF PositionInv, RestsInTick, SnapshotHolds, FlatBeforeEntry, In, exchange
  <1>. QED
    BY <1>1, LoopKinds, AlonePosition, HandOverPosition, ExecutePosition, ExchangePosition,
       CrashPosition

LEMMA FactsOfPositions ==
  ASSUME EveryPlan
  PROVE  LoopSpec => []PositionFacts
  <1>1. LoopInv /\ [LoopNext]_allVars => LoopInv'
    BY LoopInvStep
  <1>2. LoopSpec => []LoopInv
    BY <1>1, LoopInvInit, PTL DEF LoopSpec
  <1>3. LoopSpec => []OrderKinds
    BY LoopUsesService, KindsOfOrders DEF UsesService
  <1>4. LoopInv /\ OrderKinds <=> PositionFacts
    BY DEF PositionFacts
  <1>. QED
    BY <1>2, <1>3, <1>4, PTL

\* While no read of the account fails, the position is never larger than the
\* attempts of one call can have made it: no entry ever meets an open position,
\* wherever the process dies and whatever fills between the reads of a tick.
THEOREM NoPyramiding ==
  ASSUME EveryPlan, ~FailedReads
  PROVE  LoopSpec => []SinglePosition
  <1>1. PositionFacts /\ PositionInv => SinglePosition
    BY DEF PositionInv, Room, Capacity, SinglePosition
  <1>2. PositionFacts /\ PositionInv /\ [LoopNext]_allVars => PositionInv'
    BY PositionStep
  <1>3. LoopSpec => []PositionFacts
    BY FactsOfPositions
  <1>. QED
    BY <1>1, <1>2, <1>3, PositionInit, PTL DEF LoopSpec

-----------------------------------------------------------------------------
(* The stop is moved only after a target *)

\* An order that takes a share of a position, and not all of it, has filled.
TargetTaken ==
    \E i \in DOMAIN orders : orders[i].id[2] \in {"tp1", "tp2"} /\ orders[i].status = "FILLED"

\* The stop is moved to break-even only after one of the two targets has been
\* taken: a single target, a stop, a close, an entry that was requested again or a
\* read that failed never leaves quantities that look as if TP1 had filled.
StopMovesOnlyAfterTarget ==
    In("call") /\ tick.plan.action = "UPDATE_SLTP" => TargetTaken

\* The quantities of entries and closes are multiples of a plan's quantity.
Whole(n) == \E k \in Int : n = k * Lot

\* As long as no target has been taken, so is everything derived from them: the
\* position, the snapshot of it, and what a close was decided, begun or sent with.
WholeQuantities ==
    /\ Whole(pos) /\ Whole(tick.snapshot.qty)
    /\ \A i \in DOMAIN orders : CloseKind(orders[i]) => Whole(orders[i].qty)
    /\ In("call") /\ tick.plan.action = "CLOSE" => Whole(tick.plan.qty)
    /\ proc.pc = "close" => Whole(proc.plan.qty)

\* The quantities a snapshot keeps are those of a plan, or absent.
QuantitiesOfPlan(s) == s.originalQty \in {0, Lot} /\ s.tp1Qty \in {0, Tp1Lot}

QuantitiesKept ==
    /\ QuantitiesOfPlan(posState) /\ QuantitiesOfPlan(tick.snapshot)
    /\ In("call") \/ In("execute") => (tick.plan.action = "OPEN" => tick.plan.qty = Lot)

TargetInv ==
    /\ ~TargetTaken => WholeQuantities
    /\ QuantitiesKept
    /\ StopMovesOnlyAfterTarget

LEMMA Wholes ==
  /\ Whole(0) /\ Whole(Lot) /\ Whole(-Lot)
  /\ \A n, m \in Int : Whole(n) /\ Whole(m) => Whole(n + m) /\ Whole(n - m)
  /\ \A n \in Int : Whole(n) => Whole(SizeOf(n))
  <1>0. Lot \in Nat
    BY LotAssumption
  <1>1. Whole(0) /\ Whole(Lot) /\ Whole(-Lot)
    <2>1. 0 = 0 * Lot /\ Lot = 1 * Lot /\ -Lot = (-1) * Lot
      BY <1>0
    <2>. QED
      BY <2>1 DEF Whole
  <1>2. ASSUME NEW n \in Int, NEW m \in Int, Whole(n), Whole(m)
        PROVE  Whole(n + m) /\ Whole(n - m)
    <2>1. PICK j \in Int, k \in Int : n = j * Lot /\ m = k * Lot
      BY <1>2 DEF Whole
    <2>2. n + m = (j + k) * Lot /\ n - m = (j - k) * Lot
      BY <1>0, <2>1
    <2>. QED
      BY <2>2 DEF Whole
  <1>3. ASSUME NEW n \in Int, Whole(n) PROVE Whole(SizeOf(n))
    <2>1. Whole(0 - n)
      BY <1>1, <1>2, <1>3
    <2>2. SizeOf(n) = n \/ SizeOf(n) = 0 - n
      BY DEF SizeOf
    <2>. QED
      BY <1>3, <2>1, <2>2
  <1>. QED
    BY <1>1, <1>2, <1>3

\* A position of whole plans differs from what TP1 leaves of one by more than the
\* tolerance.
LEMMA WholesTellApart ==
  ASSUME Tp1Lot > Tolerance, NEW n \in Nat, n > 0, Whole(n)
  PROVE  SizeOf(n - (Lot - Tp1Lot)) > Tolerance
  <1>1. Lot \in Nat /\ Tp1Lot \in Nat /\ Tp1Lot < Lot /\ Tolerance = 2
    BY LotAssumption DEF Tolerance
  <1>2. PICK k \in Int : n = k * Lot
    BY DEF Whole
  <1>3. n >= Lot
    <2>1. CASE k <= 0
      <3>1. -k \in Nat /\ (-k) * Lot \in Nat /\ k * Lot = -((-k) * Lot)
        BY <1>1, <2>1
      <3>. QED
        BY <1>2, <3>1
    <2>2. CASE k >= 1
      <3>1. k - 1 \in Nat /\ (k - 1) * Lot \in Nat /\ k * Lot = (k - 1) * Lot + Lot
        BY <1>1, <2>2
      <3>. QED
        BY <1>1, <1>2, <3>1
    <2>. QED
      BY <2>1, <2>2
  <1>. QED
    BY <1>1, <1>3, Tp1Lot > Tolerance DEF SizeOf

LEMMA TargetInit == LoopInit => TargetInv
  <1>. SUFFICES ASSUME LoopInit PROVE TargetInv
    OBVIOUS
  <1>1. /\ orders = << >> /\ pos = 0 /\ proc.pc = "idle" /\ tick.pc = "off"
        /\ tick.snapshot = Flat /\ posState = NoState
    BY DEF LoopInit, Init, Off, Idle
  <1>. QED
    BY <1>1, Wholes
    DEF TargetInv, WholeQuantities, QuantitiesKept, QuantitiesOfPlan, Flat, NoState,
        StopMovesOnlyAfterTarget, In

\* A target that has been taken stays so, and every order keeps what it is.
LEMMA OrdersStay ==
  ASSUME TypeInv, UNCHANGED exchange \/ (\E o \in Orders : Accepted(o))
                  \/ (\E i : \E s \in Statuses \ {"NEW"} : Becomes(i, s))
  PROVE  /\ TargetTaken => TargetTaken'
         /\ \A j \in DOMAIN orders : j \in DOMAIN orders' /\ SameOrder(orders'[j], orders[j])
  <1>1. CASE UNCHANGED exchange
    BY <1>1 DEF exchange, TargetTaken, SameOrder
  <1>2. CASE \E o \in Orders : Accepted(o)
    <2>1. /\ DOMAIN orders \subseteq DOMAIN orders'
          /\ \A j \in DOMAIN orders : orders'[j] = orders[j]
      BY <1>2, AcceptedType, StateFacts
    <2>. QED
      BY <2>1 DEF TargetTaken, SameOrder
  <1>3. CASE \E i : \E s \in Statuses \ {"NEW"} : Becomes(i, s)
    <2>0. PICK i : \E s \in Statuses \ {"NEW"} : Becomes(i, s)
      BY <1>3
    <2>1. PICK s \in Statuses \ {"NEW"} : Becomes(i, s)
      BY <2>0
    <2>2. /\ orders[i].status = "NEW" /\ DOMAIN orders' = DOMAIN orders
          /\ \A j \in DOMAIN orders :
                 /\ SameOrder(orders'[j], orders[j])
                 /\ orders'[j].status = IF j = i THEN s ELSE orders[j].status
      BY <2>1, BecomesFacts
    <2>3. TargetTaken => TargetTaken'
      BY <2>2 DEF TargetTaken, SameOrder
    <2>. QED
      BY <2>2, <2>3
  <1>. QED
    BY <1>1, <1>2, <1>3

-----------------------------------------------------------------------------
(* Its steps *)

\* The loop reads the position, and decides on what it has read.
LEMMA AloneTargets ==
  ASSUME Tp1Lot > Tolerance, PositionFacts, TargetInv, LoopAlone
  PROVE  TargetInv'
  <1>. USE DEF PositionFacts
  <1>0. UNCHANGED <<orders, pos, proc>> /\ (TargetTaken' <=> TargetTaken)
    BY AloneFacts DEF exchange, TargetTaken
  <1>t. /\ tick.snapshot.qty \in Nat /\ pos \in Int
        /\ posState \in Snapshots /\ tick.snapshot \in Snapshots
    BY TickTypes, StateFacts DEF LoopInv, LoopTypes
  <1>1. ASSUME QuantitiesOfPlan(posState'), QuantitiesOfPlan(tick'.snapshot),
               ~TargetTaken => Whole(tick'.snapshot.qty),
               tick'.pc # "execute",
               tick'.pc = "call" /\ tick'.plan.action = "OPEN" => tick'.plan.qty = Lot,
               tick'.pc = "call" /\ tick'.plan.action = "CLOSE" =>
                   tick'.plan.qty = tick'.snapshot.qty,
               tick'.pc = "call" /\ tick'.plan.action = "UPDATE_SLTP" => TargetTaken
        PROVE  TargetInv'
    <2>1. ~TargetTaken => WholeQuantities'
      BY <1>0, <1>1 DEF TargetInv, WholeQuantities, Whole, CloseKind, In
    <2>2. QuantitiesKept' /\ StopMovesOnlyAfterTarget'
      BY <1>0, <1>1 DEF QuantitiesKept, QuantitiesOfPlan, StopMovesOnlyAfterTarget, In
    <2>. QED
      BY <1>0, <2>1, <2>2 DEF TargetInv
  <1>2. /\ QuantitiesOfPlan(posState) /\ QuantitiesOfPlan(tick.snapshot)
        /\ ~TargetTaken => Whole(tick.snapshot.qty) /\ Whole(SizeOf(pos))
        /\ QuantitiesOfPlan(Flat) /\ Whole(Flat.qty)
    BY <1>t, Wholes
    DEF TargetInv, WholeQuantities, QuantitiesKept, QuantitiesOfPlan, Flat
  <1>3. CASE BootPositions \/ BootReconcile \/ NoCandle \/ SkipCandle \/ Hold \/ SaveGate
    <2>1. tick'.pc \notin {"call", "execute"} /\ posState' = posState
      BY <1>3, TickRoutes
      DEF BootPositions, BootReconcile, NoCandle, SkipCandle, Hold, SaveGate, loopDisk
    <2>2. tick'.snapshot = Flat
      <3>1. PICK amount : \/ tick' = Off \/ tick' = Sleeping
                          \/ tick' = [Off EXCEPT !.pc = "boot", !.seen = amount]
        BY <1>3
        DEF BootPositions, BootReconcile, NoCandle, SkipCandle, Hold, SaveGate, EndTick,
            KillAndRaise
      <3>2. /\ Off.snapshot = Flat /\ Sleeping.snapshot = Flat
            /\ [Off EXCEPT !.pc = "boot", !.seen = amount].snapshot = Flat
        BY DEF Sleeping, Off
      <3>. HIDE DEF Sleeping, Off
      <3>. QED
        BY <3>1, <3>2
    <2>. QED
      BY <1>1, <1>2, <2>1, <2>2
  <1>4. CASE TakeSnapshot
    <2>1. tick'.pc = "recheck" /\ tick'.snapshot = posState'
      BY <1>4, TickRoutes
    <2>2. PICK amount \in {0, pos} :
            posState' = IF amount = 0 THEN Flat
                        ELSE [posState EXCEPT !.side = SideOf(amount), !.qty = SizeOf(amount)]
      BY <1>4 DEF TakeSnapshot, Readings
    <2>3. QuantitiesOfPlan(posState')
      BY <1>t, <1>2, <2>2 DEF QuantitiesOfPlan, Snapshots
    <2>4. posState'.qty = Flat.qty \/ posState'.qty = SizeOf(pos)
      BY <1>t, <2>2 DEF Flat, Snapshots
    <2>. QED
      BY <1>1, <1>2, <2>1, <2>3, <2>4
  <1>5. CASE Recheck \/ ReconcileOrders \/ TakeCandle
    <2>1. posState' = posState
      BY <1>5 DEF Recheck, ReconcileOrders, TakeCandle, loopDisk
    <2>2. tick'.snapshot \in {Flat, tick.snapshot} /\ tick'.pc \notin {"call", "execute"}
      <3>1. CASE Recheck
        BY <3>1 DEF Recheck, Reconciled, Sleeping, Off, LoopInv, LoopTypes
      <3>2. CASE ReconcileOrders
        <4>1. PICK open : \/ tick' = Off \/ tick' = Sleeping
                          \/ tick' = [tick EXCEPT !.pc = "market", !.tpOpen = open]
          BY <3>2 DEF ReconcileOrders, KillAndRaise
        <4>2. /\ Off.snapshot = Flat /\ Sleeping.snapshot = Flat
              /\ Off.pc = "off" /\ Sleeping.pc = "sleep"
          BY TickMoves DEF Sleeping, Off
        <4>3. [tick EXCEPT !.pc = "market", !.tpOpen = open].snapshot = tick.snapshot
          BY DEF LoopInv, LoopTypes
        <4>. QED
          BY <3>2, <4>1, <4>2, <4>3, TickRoutes
      <3>3. CASE TakeCandle
        BY <3>3, TickRoutes
      <3>. QED
        BY <1>5, <3>1, <3>2, <3>3
    <2>. QED
      BY <1>1, <1>2, <2>1, <2>2
  <1>6. CASE DecideOpen
    <2>1. /\ tick'.pc = "call" /\ tick'.snapshot = tick.snapshot /\ UNCHANGED posState
          /\ tick'.plan.action = "OPEN" /\ tick'.plan.qty = Lot
      BY <1>6, TickRoutes DEF DecideOpen, OpenPlans, PlanTo
    <2>. QED
      BY <1>1, <1>2, <2>1
  <1>7. CASE DecideClose
    <2>1. /\ tick'.pc = "call" /\ tick'.snapshot = tick.snapshot /\ UNCHANGED posState
          /\ tick'.plan.action = "CLOSE" /\ tick'.plan.qty = tick.snapshot.qty
      BY <1>7, TickRoutes DEF DecideClose, PlanTo
    <2>. QED
      BY <1>1, <1>2, <2>1
  <1>8. CASE DecideUpdate
    <2>1. /\ tick'.pc = "call" /\ tick'.snapshot = tick.snapshot /\ UNCHANGED posState
          /\ tick'.plan.action = "UPDATE_SLTP"
      BY <1>8, TickRoutes DEF DecideUpdate, UpdatePlans, PlanTo
    <2>2. /\ tick.snapshot.qty > 0
          /\ tick.snapshot.originalQty = Lot /\ tick.snapshot.tp1Qty = Tp1Lot
          /\ SizeOf(tick.snapshot.qty - (Lot - Tp1Lot)) <= Tolerance
      BY <1>2, <1>8 DEF DecideUpdate, Tp1Filled, QuantitiesOfPlan
    <2>3. ~Whole(tick.snapshot.qty)
      <3>1. SizeOf(tick.snapshot.qty - (Lot - Tp1Lot)) \in Int /\ Tolerance \in Int
        BY <1>t, LotAssumption DEF SizeOf, Tolerance
      <3>. QED
        BY <1>t, <2>2, <3>1, WholesTellApart
    <2>. QED
      BY <1>1, <1>2, <2>1, <2>3
  <1>9. CASE NewCandle
    <2>1. UNCHANGED <<tick, posState>>
      BY <1>9 DEF NewCandle, loopDisk
    <2>. QED
      BY <1>0, <2>1
      DEF TargetInv, WholeQuantities, Whole, CloseKind, QuantitiesKept, QuantitiesOfPlan,
          StopMovesOnlyAfterTarget, In
  <1>10. CASE Executed
    <2>1. tick'.pc = "gate" /\ tick'.snapshot = tick.snapshot
      BY <1>10 DEF Executed, LoopInv, LoopTypes
    <2>2. tick.plan.action = "OPEN" => tick.plan.qty = Lot
      BY <1>10 DEF Executed, TargetInv, QuantitiesKept
    <2>. DEFINE share == IF tick.plan.split THEN Tp1Lot ELSE 0
    <2>3. \/ posState' = posState
          \/ /\ posState' = [tick.snapshot EXCEPT !.originalQty = tick.plan.qty, !.tp1Qty = share]
             /\ tick.plan.action = "OPEN"
      BY <1>10 DEF Executed, Opened
    <2>4. share \in {0, Tp1Lot}
      OBVIOUS
    <2>. HIDE DEF share
    <2>5. QuantitiesOfPlan(posState')
      BY <1>t, <1>2, <2>2, <2>3, <2>4 DEF QuantitiesOfPlan, Snapshots
    <2>. QED
      BY <1>1, <1>2, <2>1, <2>5
  <1>. QED
    BY <1>3, <1>4, <1>5, <1>6, <1>7, <1>8, <1>9, <1>10 DEF LoopAlone

\* A close begins with the quantity it was decided with.
LEMMA HandOverTargets == ASSUME PositionFacts, TargetInv, HandOver PROVE TargetInv'
  <1>1. /\ In("call") /\ UNCHANGED <<orders, pos, posState>> /\ tick'.pc = "execute"
        /\ tick'.snapshot = tick.snapshot /\ tick'.plan = tick.plan
        /\ proc'.pc = "close" => proc'.plan = tick.plan /\ tick.plan.action = "CLOSE"
    BY HandOverFacts DEF PositionFacts, LoopInv, LoopTypes, Idle, exchange
  <1>2. TargetTaken' <=> TargetTaken
    BY <1>1 DEF TargetTaken
  <1>3. ~TargetTaken => WholeQuantities'
    BY <1>1 DEF TargetInv, WholeQuantities, Whole, CloseKind, In
  <1>4. QuantitiesKept' /\ StopMovesOnlyAfterTarget'
    BY <1>1
    DEF TargetInv, QuantitiesKept, QuantitiesOfPlan, StopMovesOnlyAfterTarget, In
  <1>. QED
    BY <1>2, <1>3, <1>4 DEF TargetInv

\* A step of the service repeats a close with the same quantity, and sends it.
LEMMA ExecuteTargets == ASSUME PositionFacts, TargetInv, Execute PROVE TargetInv'
  <1>0. TypeInv /\ ServiceStep /\ In("execute") /\ UNCHANGED <<tick, posState>>
    BY DEF Execute, loopVars, PositionFacts, LoopInv
  <1>1. UNCHANGED pos /\ (TargetTaken => TargetTaken')
    <2>1. "CANCELED" \in Statuses \ {"NEW"}
      BY DEF Statuses
    <2>2. Sends => \E o \in Orders : Accepted(o)
      BY <1>0, SentOrders
    <2>. QED
      BY <1>0, <2>1, <2>2, ServiceOrders, OrdersStay DEF exchange
  <1>2. ASSUME ~TargetTaken', NEW i \in DOMAIN orders', CloseKind(orders'[i])
        PROVE  Whole(orders'[i].qty)
    <2>1. WholeQuantities
      BY <1>1, <1>2 DEF TargetInv
    <2>2. CASE UNCHANGED exchange
      BY <1>2, <2>1, <2>2 DEF WholeQuantities, exchange
    <2>3. CASE \E j : Becomes(j, "CANCELED")
      <3>1. DOMAIN orders' = DOMAIN orders /\ SameOrder(orders'[i], orders[i])
        BY <1>0, <1>2, <2>3, BecomesFacts DEF Statuses
      <3>. QED
        BY <1>2, <2>1, <3>1 DEF WholeQuantities, SameOrder, CloseKind
    <2>4. CASE Sends
      <3>1. PICK o \in Orders :
              /\ Accepted(o)
              /\ \/ EntryKind(o)
                 \/ CloseKind(o) /\ proc.pc = "close" /\ o.qty = proc.plan.qty
                 \/ ExitKind(o)
        BY <1>0, <2>4, SentOrders
      <3>2. CASE i \in DOMAIN orders
        BY <1>0, <1>2, <2>1, <3>1, <3>2, AcceptedType, StateFacts DEF WholeQuantities
      <3>3. CASE i \notin DOMAIN orders
        <4>1. orders'[i] = o
          BY <1>0, <1>2, <3>1, <3>3, AcceptedType, StateFacts
        <4>. QED
          BY <1>2, <2>1, <3>1, <4>1 DEF WholeQuantities, EntryKind, CloseKind, ExitKind
      <3>. QED
        BY <3>2, <3>3
    <2>. QED
      BY <1>0, <2>2, <2>3, <2>4, ServiceOrders
  <1>3. proc'.pc = "close" => proc.pc = "close" /\ proc'.plan = proc.plan
    BY <1>0, ServicePlan DEF CloseStep, At
  <1>4. ~TargetTaken' => WholeQuantities'
    BY <1>0, <1>1, <1>2, <1>3 DEF TargetInv, WholeQuantities, Whole, In
  <1>5. QuantitiesKept' /\ StopMovesOnlyAfterTarget'
    BY <1>0 DEF TargetInv, QuantitiesKept, QuantitiesOfPlan, StopMovesOnlyAfterTarget, In
  <1>. QED
    BY <1>4, <1>5 DEF TargetInv

\* What fills without being a target adds or takes a whole quantity, or all.
LEMMA ExchangeTargets == ASSUME PositionFacts, TargetInv, Exchange PROVE TargetInv'
  <1>0. /\ TypeInv /\ OrderKinds /\ pos \in Int
        /\ UNCHANGED <<tick, posState, proc>>
    BY EntryMoves, StateFacts DEF Exchange, PositionFacts, LoopInv, loopVars
  <1>1. PICK i \in DOMAIN orders : ExchangeFills(i) \/ ExchangeExpires(i)
    BY DEF Exchange, ExchangeStep
  <1>2. /\ orders[i] \in Orders
        /\ ExchangeFills(i) => Becomes(i, "FILLED")
        /\ ExchangeExpires(i) => Becomes(i, "EXPIRED") /\ UNCHANGED pos
    BY <1>0, <1>1, StateFacts DEF ExchangeFills, ExchangeExpires, Becomes
  <1>3. /\ TargetTaken => TargetTaken'
        /\ \A j \in DOMAIN orders : SameOrder(orders'[j], orders[j])
        /\ DOMAIN orders' = DOMAIN orders
    <2>1. \E s \in Statuses \ {"NEW"} : Becomes(i, s)
      BY <1>1, <1>2 DEF Statuses
    <2>2. DOMAIN orders' = DOMAIN orders
      BY <1>0, <2>1, BecomesFacts
    <2>. QED
      BY <1>0, <2>1, <2>2, OrdersStay
  <1>4. ASSUME ~TargetTaken' PROVE Whole(pos')
    <2>1. Whole(pos) /\ \A j \in DOMAIN orders : CloseKind(orders[j]) => Whole(orders[j].qty)
      BY <1>3, <1>4 DEF TargetInv, WholeQuantities
    <2>2. CASE ExchangeFills(i) /\ EntryKind(orders[i])
      <3>1. pos' = pos + Signed(orders[i].side, Lot)
        BY <1>2, <2>2 DEF ExchangeFills, EntryKind, Orders
      <3>2. Signed(orders[i].side, Lot) \in Int /\ Whole(Signed(orders[i].side, Lot))
        BY Wholes, LotAssumption DEF Signed
      <3>. QED
        BY <1>0, <2>1, <3>1, <3>2, Wholes
    <2>3. CASE ExchangeFills(i) /\ CloseKind(orders[i])
      <3>1. pos' = Reduced(orders[i].side, orders[i].qty) /\ orders[i].qty \in Nat
        BY <1>2, <2>3 DEF ExchangeFills, CloseKind, Orders
      <3>2. \/ pos' = 0
            \/ pos' = pos + orders[i].qty
            \/ pos' = pos - orders[i].qty
        BY <3>1 DEF Reduced
      <3>3. orders[i].qty \in Int /\ Whole(orders[i].qty) /\ Whole(0)
        BY <2>1, <2>3, <3>1, Wholes
      <3>4. Whole(pos + orders[i].qty) /\ Whole(pos - orders[i].qty)
        BY <1>0, <2>1, <3>3, Wholes
      <3>. QED
        BY <3>2, <3>3, <3>4
    <2>4. CASE ExchangeFills(i) /\ ExitKind(orders[i])
      <3>1. orders[i].id[2] \notin {"tp1", "tp2"}
        <4>1. orders'[i].id = orders[i].id /\ orders'[i].status = "FILLED"
          BY <1>0, <1>2, <2>4, BecomesFacts DEF Statuses, SameOrder
        <4>. QED
          BY <1>3, <1>4, <4>1 DEF TargetTaken
      <3>2. orders[i].closePosition /\ pos' = 0
        BY <2>4, <3>1 DEF ExchangeFills, ExitKind
      <3>. QED
        BY <3>2, Wholes
    <2>. QED
      BY <1>0, <1>1, <1>2, <2>1, <2>2, <2>3, <2>4 DEF OrderKinds
  <1>5. ~TargetTaken' => WholeQuantities'
    BY <1>0, <1>3, <1>4 DEF TargetInv, WholeQuantities, Whole, SameOrder, CloseKind, In
  <1>6. QuantitiesKept' /\ StopMovesOnlyAfterTarget'
    BY <1>0, <1>3
    DEF TargetInv, QuantitiesKept, QuantitiesOfPlan, StopMovesOnlyAfterTarget, In
  <1>. QED
    BY <1>5, <1>6 DEF TargetInv

LEMMA CrashTargets == ASSUME PositionFacts, TargetInv, Crashes PROVE TargetInv'
  <1>1. /\ UNCHANGED <<orders, pos>> /\ proc'.pc = "idle" /\ tick'.pc = "off"
        /\ tick'.snapshot = Flat /\ posState' \in {posState, NoState}
    BY CrashFacts, TickMoves DEF Idle, Off, exchange
  <1>2. TargetTaken' <=> TargetTaken
    BY <1>1 DEF TargetTaken
  <1>3. ~TargetTaken => WholeQuantities'
    BY <1>1, Wholes DEF TargetInv, WholeQuantities, Whole, CloseKind, Flat, In
  <1>4. QuantitiesKept' /\ StopMovesOnlyAfterTarget'
    BY <1>1
    DEF TargetInv, QuantitiesKept, QuantitiesOfPlan, Flat, NoState, StopMovesOnlyAfterTarget, In
  <1>. QED
    BY <1>2, <1>3, <1>4 DEF TargetInv

LEMMA TargetStep ==
  ASSUME Tp1Lot > Tolerance
  PROVE  PositionFacts /\ TargetInv /\ [LoopNext]_allVars => TargetInv'
  <1>. SUFFICES ASSUME PositionFacts, TargetInv, [LoopNext]_allVars PROVE TargetInv'
    OBVIOUS
  <1>1. CASE UNCHANGED allVars
    BY <1>1
    DEF allVars, vars, loopVars, exchange, TargetInv, TargetTaken, WholeQuantities, Whole,
        CloseKind, QuantitiesKept, QuantitiesOfPlan, StopMovesOnlyAfterTarget, In
  <1>. QED
    BY <1>1, LoopKinds, AloneTargets, HandOverTargets, ExecuteTargets, ExchangeTargets,
       CrashTargets

\* Where the first share is larger than the tolerance the stop is moved only after
\* a target has been taken, however old the quantities are that tell it: whatever
\* reads fail, requests are repeated, files are torn and orders fill in between.
THEOREM NoBreakEvenBeforeTargets ==
  ASSUME EveryPlan, Tp1Lot > Tolerance
  PROVE  LoopSpec => []StopMovesOnlyAfterTarget
  <1>1. TargetInv => StopMovesOnlyAfterTarget
    BY DEF TargetInv
  <1>2. PositionFacts /\ TargetInv /\ [LoopNext]_allVars => TargetInv'
    BY TargetStep
  <1>3. LoopSpec => []PositionFacts
    BY FactsOfPositions
  <1>. QED
    BY <1>1, <1>2, <1>3, TargetInit, PTL DEF LoopSpec
=============================================================================
