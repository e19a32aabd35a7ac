-------------------------- MODULE TradingLoopProofs --------------------------
(***************************************************************************)
(* Proofs about the trading loop.  The loop is shown to use the execution  *)
(* service only as the service is specified for, so that what              *)
(* ExecutionProofs proves of the service holds inside the loop as well.    *)
(*                                                                         *)
(* The loop trades both sides and closes whatever quantity it read, so the *)
(* service is taken with plans of both sides and of every quantity.        *)
(***************************************************************************)
EXTENDS TradingLoop, ExecutionProofs

AllPlans == OpenPlans \cup ClosePlans \cup UpdatePlans
EveryPlan == Sides = {"BUY", "SELL"} /\ CloseQtys = Nat

\* The loop's own part of the types.
LoopTypes ==
    /\ {gate, lastTry, candle} \subseteq Candles \cup {0}
    /\ posState \in Snapshots
    /\ tick \in [pc : TickPCs, ts : Candles \cup {0}, snapshot : Snapshots, seen : Int,
                 tpOpen : BOOLEAN, plan : Plans]
    /\ boots \in 0 .. MaxBoots

\* From the decision on a tick has a candle; what it hands over is a plan the
\* service is specified for.
TickFits ==
    /\ In("decide") \/ In("call") => tick.ts \in Candles
    /\ In("call") => tick.plan \in AllPlans

LoopInv == TypeInv /\ LoopTypes /\ TickFits

-----------------------------------------------------------------------------
(* Types of what the actions are made of *)

LEMMA SnapshotTypes ==
  /\ Flat \in Snapshots /\ NoState \in Snapshots
  /\ \A s \in Snapshots, amount \in Int :
         [s EXCEPT !.side = SideOf(amount), !.qty = SizeOf(amount)] \in Snapshots
  /\ \A s \in Snapshots : \A q, t \in Nat :
         [s EXCEPT !.originalQty = q, !.tp1Qty = t] \in Snapshots
  <1>1. Flat \in Snapshots /\ NoState \in Snapshots
    BY DEF Flat, NoState, Snapshots
  <1>2. \A amount \in Int : SideOf(amount) \in {"LONG", "SHORT", "NONE"} /\ SizeOf(amount) \in Nat
    BY DEF SideOf, SizeOf
  <1>3. ASSUME NEW s \in Snapshots, NEW side \in {"LONG", "SHORT", "NONE"}, NEW q \in Nat
        PROVE  [s EXCEPT !.side = side, !.qty = q] \in Snapshots
    BY DEF Snapshots
  <1>4. ASSUME NEW s \in Snapshots, NEW q \in Nat, NEW t \in Nat
        PROVE  [s EXCEPT !.originalQty = q, !.tp1Qty = t] \in Snapshots
    BY DEF Snapshots
  <1>. QED
    BY <1>1, <1>2, <1>3, <1>4

LEMMA TickTypes ==
  ASSUME LoopTypes
  PROVE  /\ tick.snapshot \in Snapshots /\ tick.plan \in Plans /\ tick.ts \in Candles \cup {0}
         /\ tick.snapshot.qty \in Nat /\ tick.snapshot.originalQty \in Nat
         /\ tick.pc \in TickPCs
  BY DEF LoopTypes, Snapshots

LEMMA AllPlansTyped == AllPlans \subseteq Plans
  BY PlanTypes DEF AllPlans

\* Candle times are positive: a candle newer than the gate is a candle.
LEMMA NewerCandle ==
  ASSUME LoopTypes, candle > gate
  PROVE  candle \in Candles
  <1>1. gate \in Candles \cup {0} /\ candle \in Candles \cup {0}
    BY DEF LoopTypes
  <1>2. gate \in Nat /\ candle \in Nat
    BY <1>1, CandlesAssumption
  <1>3. gate >= 0
    BY <1>2
  <1>4. candle # 0
    BY <1>2, <1>3
  <1>. QED
    BY <1>1, <1>4

LEMMA BootsBound == MaxBoots \in Nat
  BY LoopAssumption

LEMMA ReadingTypes == ASSUME TypeInv, NEW amount \in Readings PROVE amount \in Int
  BY DEF Readings, TypeInv, TypeOK

\* A tick that goes to another point, or ends, stays well typed.
LEMMA TickMoves ==
  /\ Off \in [pc : TickPCs, ts : Candles \cup {0}, snapshot : Snapshots, seen : Int,
              tpOpen : BOOLEAN, plan : Plans]
  /\ Sleeping \in [pc : TickPCs, ts : Candles \cup {0}, snapshot : Snapshots,
                   seen : Int, tpOpen : BOOLEAN, plan : Plans]
  /\ Off.pc = "off" /\ Sleeping.pc = "sleep"
  <1>1. Flat \in Snapshots /\ NoPlan \in Plans
    BY SnapshotTypes, IdleType
  <1>2. /\ Off \in [pc : TickPCs, ts : Candles \cup {0}, snapshot : Snapshots, seen : Int,
                   tpOpen : BOOLEAN, plan : Plans]
        /\ Off.pc = "off"
    BY <1>1 DEF Off, TickPCs
  <1>3. /\ Sleeping \in [pc : TickPCs, ts : Candles \cup {0}, snapshot : Snapshots,
                        seen : Int, tpOpen : BOOLEAN, plan : Plans]
        /\ Sleeping.pc = "sleep"
    BY <1>2 DEF Sleeping, TickPCs
  <1>. QED
    BY <1>2, <1>3

-----------------------------------------------------------------------------
(* The initial states *)

LEMMA LoopInvInit == LoopInit => LoopInv
  <1>. SUFFICES ASSUME LoopInit PROVE LoopInv
    OBVIOUS
  <1>1. TypeInv
    BY TypeInit DEF LoopInit
  <1>2. tick \in [pc : TickPCs, ts : Candles \cup {0}, snapshot : Snapshots, seen : Int,
                  tpOpen : BOOLEAN, plan : Plans] /\ tick.pc = "off"
    BY TickMoves DEF LoopInit
  <1>3. LoopTypes
    <2>1. boots \in 0 .. MaxBoots
      BY BootsBound DEF LoopInit
    <2>. QED
      BY <1>2, <2>1, SnapshotTypes DEF LoopInit, LoopTypes
  <1>. QED
    BY <1>1, <1>2, <1>3 DEF LoopInv, TickFits, In

-----------------------------------------------------------------------------
(* What a step of the loop is to the service *)

LEMMA AppUsesService ==
  ASSUME LoopInv, AppStep
  PROVE  [Next]_vars
  <1>1. CASE HandOver
    <2>1. tick.plan \in AllPlans /\ Call(tick.plan)
      BY <1>1 DEF HandOver, LoopInv, TickFits
    <2>. QED
      BY <2>1 DEF AllPlans, CallAny, Next
  <1>2. CASE Execute
    BY <1>2 DEF Execute, Next
  <1>3. CASE BootReconcile \/ ReconcileOrders
    BY <1>3 DEF BootReconcile, ReconcileOrders, KillAndRaise, ServiceIdles, Next
  <1>4. CASE BootPositions \/ TakeSnapshot \/ Recheck
    BY <1>4 DEF BootPositions, TakeSnapshot, Recheck, ServiceIdles
  <1>5. CASE NoCandle \/ SkipCandle \/ TakeCandle \/ Hold
    BY <1>5 DEF NoCandle, SkipCandle, TakeCandle, Hold, ServiceIdles
  <1>6. CASE DecideOpen \/ DecideClose \/ DecideUpdate
    BY <1>6 DEF DecideOpen, DecideClose, DecideUpdate, PlanTo, ServiceIdles
  <1>7. CASE Executed \/ SaveGate
    BY <1>7 DEF Executed, SaveGate, ServiceIdles
  <1>. QED
    BY <1>1, <1>2, <1>3, <1>4, <1>5, <1>6, <1>7 DEF AppStep

LEMMA LoopStepUsesService ==
  ASSUME LoopInv, [LoopNext]_allVars
  PROVE  [Next]_vars
  <1>1. CASE AppStep
    BY <1>1, AppUsesService
  <1>2. CASE NewCandle \/ Exchange
    BY <1>2 DEF NewCandle, Exchange, ServiceIdles, Next
  <1>3. CASE Crash \/ CrashTornPosition \/ CrashTornCooldown \/ CrashTornGate
    BY <1>3 DEF Crash, CrashTornPosition, CrashTornCooldown, CrashTornGate, Next
  <1>4. CASE CrashTornIds
    BY <1>4 DEF CrashTornIds, Next
  <1>5. CASE UNCHANGED allVars
    BY <1>5 DEF allVars
  <1>. QED
    BY <1>1, <1>2, <1>3, <1>4, <1>5 DEF LoopNext

-----------------------------------------------------------------------------
(* What it is to the loop's own state *)

\* The types and the fit of the tick, for the loop's variables alone.
LoopFits == LoopTypes /\ TickFits

LEMMA AccountSteps ==
  ASSUME LoopInv,
         BootPositions \/ BootReconcile \/ TakeSnapshot \/ Recheck \/ ReconcileOrders
  PROVE  LoopFits'
  <1>. USE DEF LoopInv
  <1>1. CASE BootPositions
    <2>1. PICK amount \in Readings : tick' = [Off EXCEPT !.pc = "boot", !.seen = amount]
      BY <1>1 DEF BootPositions
    <2>2. amount \in Int
      BY ReadingTypes
    <2>3. boots' \in 0 .. MaxBoots
      <3>1. boots \in 0 .. MaxBoots /\ boots < MaxBoots /\ boots' = boots + 1
        BY <1>1 DEF BootPositions, LoopTypes
      <3>. QED
        BY <3>1, BootsBound
    <2>. QED
      BY <1>1, <2>1, <2>2, <2>3, TickMoves
      DEF BootPositions, loopDisk, LoopFits, LoopTypes, TickFits, TickPCs, In, Off
  <1>2. CASE BootReconcile
    <2>1. tick' = Sleeping \/ tick' = Off
      BY <1>2 DEF BootReconcile, EndTick, KillAndRaise
    <2>. QED
      BY <1>2, <2>1, TickMoves DEF BootReconcile, loopDisk, LoopFits, LoopTypes, TickFits, In
  <1>3. CASE TakeSnapshot
    <2>1. PICK amount \in Readings :
            LET snapshot == IF amount = 0 THEN Flat
                            ELSE [posState EXCEPT !.side = SideOf(amount),
                                                  !.qty = SizeOf(amount)]
            IN  posState' = snapshot
                /\ tick' = [Off EXCEPT !.pc = "recheck", !.snapshot = snapshot]
      BY <1>3 DEF TakeSnapshot
    <2>2. posState' \in Snapshots
      BY <2>1, ReadingTypes, SnapshotTypes DEF LoopTypes
    <2>3. tick' = [Off EXCEPT !.pc = "recheck", !.snapshot = posState']
      BY <2>1
    <2>. QED
      BY <1>3, <2>2, <2>3, TickMoves
      DEF TakeSnapshot, LoopFits, LoopTypes, TickFits, TickPCs, In, Off
  <1>4. CASE Recheck
    <2>1. PICK amount \in Readings :
            \/ tick' = Sleeping
            \/ tick' = [tick EXCEPT !.pc = "market"]
            \/ tick' = [tick EXCEPT !.pc = "orders", !.seen = amount]
      BY <1>4 DEF Recheck, Reconciled
    <2>2. amount \in Int
      BY ReadingTypes
    <2>. QED
      BY <1>4, <2>1, <2>2, TickMoves
      DEF Recheck, loopDisk, LoopFits, LoopTypes, TickFits, TickPCs, In
  <1>5. CASE ReconcileOrders
    <2>1. PICK open \in BOOLEAN :
            \/ tick' = Sleeping
            \/ tick' = Off
            \/ tick' = [tick EXCEPT !.pc = "market", !.tpOpen = open]
      BY <1>5 DEF ReconcileOrders, KillAndRaise
    <2>. QED
      BY <1>5, <2>1, TickMoves
      DEF ReconcileOrders, loopDisk, LoopFits, LoopTypes, TickFits, TickPCs, In
  <1>. QED
    BY <1>1, <1>2, <1>3, <1>4, <1>5

LEMMA CandleSteps ==
  ASSUME LoopInv, NoCandle \/ SkipCandle \/ TakeCandle \/ Hold \/ SaveGate
  PROVE  LoopFits'
  <1>. USE DEF LoopInv
  <1>1. CASE TakeCandle
    <2>1. candle \in Candles
      BY <1>1, NewerCandle DEF TakeCandle
    <2>. QED
      BY <1>1, <2>1 DEF TakeCandle, loopDisk, LoopFits, LoopTypes, TickFits, TickPCs, In
  <1>2. CASE NoCandle \/ SkipCandle \/ Hold \/ SaveGate
    <2>1. tick' = Sleeping /\ gate' \in Candles \cup {0}
      BY <1>2, TickTypes DEF NoCandle, SkipCandle, Hold, SaveGate, EndTick, loopDisk, LoopTypes
    <2>2. UNCHANGED <<posState, lastTry, candle, boots>>
      BY <1>2 DEF NoCandle, SkipCandle, Hold, SaveGate, loopDisk
    <2>. QED
      BY <2>1, <2>2, TickMoves DEF LoopFits, LoopTypes, TickFits, In
  <1>. QED
    BY <1>1, <1>2

\* A plan for the candle of the tick is handed over.
LEMMA PlanFitsTick ==
  ASSUME LoopInv, In("decide"), NEW plan \in AllPlans, PlanTo(plan),
         lastTry' \in Candles \cup {0}
  PROVE  LoopFits'
  <1>1. plan \in Plans
    BY AllPlansTyped
  <1>. QED
    BY <1>1 DEF PlanTo, LoopInv, LoopFits, LoopTypes, TickFits, TickPCs, In

LEMMA DecisionSteps ==
  ASSUME EveryPlan, LoopInv, DecideOpen \/ DecideClose \/ DecideUpdate
  PROVE  LoopFits'
  <1>0. In("decide") /\ tick.ts \in Candles /\ lastTry' \in Candles \cup {0}
    BY DEF DecideOpen, DecideClose, DecideUpdate, LoopInv, LoopTypes, TickFits
  <1>1. PICK plan \in AllPlans : PlanTo(plan)
    <2>1. CASE DecideOpen \/ DecideUpdate
      BY <2>1 DEF DecideOpen, DecideUpdate, AllPlans
    <2>2. CASE DecideClose
      <3>. DEFINE p == [action |-> "CLOSE", ts |-> tick.ts, side |-> ExitSide(tick.snapshot.side),
                        qty |-> tick.snapshot.qty, split |-> FALSE, price |-> NoPrice]
      <3>1. PlanTo(p)
        BY <2>2 DEF DecideClose
      <3>2. ExitSide(tick.snapshot.side) \in {Opposite(s) : s \in Sides}
        BY DEF ExitSide, Opposite, EveryPlan
      <3>3. tick.snapshot.qty \in CloseQtys
        BY TickTypes DEF EveryPlan, LoopInv
      <3>4. p \in ClosePlans
        BY <1>0, <3>2, <3>3 DEF ClosePlans
      <3>. QED
        BY <3>1, <3>4 DEF AllPlans
    <2>. QED
      BY <2>1, <2>2
  <1>. QED
    BY <1>0, <1>1, PlanFitsTick

LEMMA ExecutionSteps ==
  ASSUME LoopInv, HandOver \/ Execute \/ Executed
  PROVE  LoopFits'
  <1>. USE DEF LoopInv
  <1>1. CASE HandOver
    BY <1>1 DEF HandOver, loopDisk, LoopFits, LoopTypes, TickFits, TickPCs, In
  <1>2. CASE Execute
    BY <1>2 DEF Execute, loopVars, LoopFits, LoopTypes, TickFits, In
  <1>3. CASE Executed
    <2>1. tick.plan.qty \in Nat /\ Tp1Lot \in Nat
      BY TickTypes, LotAssumption DEF Plans
    <2>2. posState' \in Snapshots
      <3>. DEFINE share == IF tick.plan.split THEN Tp1Lot ELSE 0
      <3>1. share \in Nat
        BY <2>1
      <3>2. \/ posState' = posState
            \/ posState' = [tick.snapshot EXCEPT !.originalQty = tick.plan.qty,
                                                 !.tp1Qty = share]
        BY <1>3 DEF Executed
      <3>. HIDE DEF share
      <3>3. tick.snapshot \in Snapshots /\ posState \in Snapshots
        BY TickTypes DEF LoopTypes
      <3>4. [tick.snapshot EXCEPT !.originalQty = tick.plan.qty, !.tp1Qty = share] \in Snapshots
        BY <2>1, <3>1, <3>3, SnapshotTypes
      <3>. QED
        BY <3>2, <3>3, <3>4
    <2>. QED
      BY <1>3, <2>2 DEF Executed, LoopFits, LoopTypes, TickFits, TickPCs, In
  <1>. QED
    BY <1>1, <1>2, <1>3

LEMMA WorldSteps ==
  ASSUME LoopInv,
         \/ NewCandle \/ Exchange \/ Crash
         \/ CrashTornIds \/ CrashTornPosition \/ CrashTornCooldown \/ CrashTornGate
  PROVE  LoopFits'
  <1>. USE DEF LoopInv
  <1>1. CASE NewCandle
    BY <1>1 DEF NewCandle, loopDisk, LoopFits, LoopTypes, TickFits, In
  <1>2. CASE Exchange
    BY <1>2 DEF Exchange, loopVars, LoopFits, LoopTypes, TickFits, In
  <1>3. CASE Crash \/ CrashTornIds \/ CrashTornPosition \/ CrashTornCooldown \/ CrashTornGate
    <2>1. tick' = Off /\ UNCHANGED <<candle, boots>>
      BY <1>3 DEF Crash, CrashInWrite, CrashTornIds, CrashTornPosition, CrashTornCooldown,
                  CrashTornGate
    <2>2. gate' \in {gate, 0} /\ lastTry' \in {lastTry, 0} /\ posState' \in {posState, NoState}
      BY <1>3 DEF Crash, CrashTornIds, CrashTornPosition, CrashTornCooldown, CrashTornGate,
                  loopDisk
    <2>. QED
      BY <2>1, <2>2, TickMoves, SnapshotTypes DEF LoopFits, LoopTypes, TickFits, In
  <1>. QED
    BY <1>1, <1>2, <1>3

-----------------------------------------------------------------------------
(* The theorems *)

LEMMA LoopInvStep ==
  ASSUME EveryPlan
  PROVE  LoopInv /\ [LoopNext]_allVars => LoopInv'
  <1>. SUFFICES ASSUME LoopInv, [LoopNext]_allVars PROVE LoopInv'
    OBVIOUS
  <1>1. TypeInv'
    BY LoopStepUsesService, TypeStep DEF LoopInv
  <1>2. LoopFits'
    <2>1. CASE UNCHANGED allVars
      BY <2>1 DEF allVars, loopVars, LoopInv, LoopFits, LoopTypes, TickFits, In
    <2>. QED
      BY <2>1, AccountSteps, CandleSteps, DecisionSteps, ExecutionSteps, WorldSteps
      DEF LoopNext, AppStep
  <1>. QED
    BY <1>1, <1>2 DEF LoopInv, LoopFits

\* Every reachable state of the loop, its files, the service and the exchange is
\* well typed, and every snapshot the files and the tick hold is one of a position.
THEOREM LoopTypeCorrect ==
  ASSUME EveryPlan
  PROVE  LoopSpec => []LoopTypeOK
  <1>1. LoopInv => LoopTypeOK
    BY DEF LoopInv, TypeInv, LoopTypes, LoopTypeOK
  <1>2. LoopInv /\ [LoopNext]_allVars => LoopInv'
    BY LoopInvStep
  <1>. QED
    BY <1>1, <1>2, LoopInvInit, PTL DEF LoopSpec

\* app/run.py calls the execution service only as the service is specified for:
\* every step of the loop is a step of the service's specification or leaves the
\* service, its files and the exchange alone.
THEOREM LoopUsesService ==
  ASSUME EveryPlan
  PROVE  LoopSpec => UsesService
  <1>1. LoopInit => Init
    BY DEF LoopInit
  <1>2. LoopInv /\ [LoopNext]_allVars => LoopInv'
    BY LoopInvStep
  <1>3. LoopInv /\ [LoopNext]_allVars => [Next]_vars
    BY LoopStepUsesService
  <1>. QED
    BY <1>1, <1>2, <1>3, LoopInvInit, PTL DEF LoopSpec, UsesService, Spec

\* In the whole bot no candle's entry is requested by two calls, wherever the
\* process dies, as long as no write of trade_ids.json is torn.
THEOREM LoopRequestsEntryOnce ==
  ASSUME EveryPlan, ~TornWrites
  PROVE  LoopSpec => []EntryRequestedByOneCall
  <1>1. LoopSpec => Spec
    BY LoopUsesService DEF UsesService
  <1>2. Spec => []EntryRequestedByOneCall
    BY EntryRequestedOnce
  <1>. QED
    BY <1>1, <1>2
=============================================================================
