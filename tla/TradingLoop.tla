----------------------------- MODULE TradingLoop -----------------------------
(***************************************************************************)
(* TraderApp (app/run.py): startup reconciliation, then one tick after     *)
(* another.  A tick reads the account, reconciles it with the local state, *)
(* passes the candle gate, decides, and hands at most one trade plan to    *)
(* the execution service (module Execution, which this module extends).    *)
(*                                                                         *)
(* Every read of the exchange and every write of a state file is a step,   *)
(* so that fills and crashes fall between them.  The decision engine is    *)
(* its range of decisions: any it may take on the position it was given.   *)
(***************************************************************************)
EXTENDS Execution, Reconciliation

CONSTANTS
    RequireTp,    \* EXIT_REQUIRE_TP
    Cooldown,     \* TRADE_COOLDOWN_MINUTES, in candles
    FailedReads,  \* can a read of the account fail?
    MaxBoots      \* bound: how often the process is started

ASSUME LoopAssumption ==
    /\ RequireTp \in BOOLEAN /\ FailedReads \in BOOLEAN
    /\ Cooldown \in Nat /\ MaxBoots \in Nat

VARIABLES
    gate,      \* run/state/candle_gate.json: last candle done with, 0 if none
    posState,  \* run/state/position_state.json
    lastTry,   \* run/state/trade_cooldown.json: candle of the last attempt
    candle,    \* market: the latest closed candle, 0 before the first
    tick,      \* the running tick, or the startup
    boots      \* how often the process was started

loopDisk == <<gate, posState, lastTry>>
loopVars == <<gate, posState, lastTry, candle, tick, boots>>
allVars == <<vars, loopVars>>

-----------------------------------------------------------------------------
(* State *)

\* What a position snapshot keeps; original_qty and tp1_qty are 0 if absent.
Snapshots == [side : {"LONG", "SHORT", "NONE", "UNKNOWN"}, qty : Nat,
              originalQty : Nat, tp1Qty : Nat]
Flat == [side |-> "NONE", qty |-> 0, originalQty |-> 0, tp1Qty |-> 0]
NoState == [Flat EXCEPT !.side = "UNKNOWN"]   \* no file, or not readable

TickPCs == {"off", "boot", "sleep", "recheck", "orders", "market", "decide",
            "call", "execute", "gate"}

Off == [pc |-> "off", ts |-> 0, snapshot |-> Flat, seen |-> 0, tpOpen |-> FALSE,
        plan |-> NoPlan]
Sleeping == [Off EXCEPT !.pc = "sleep"]

LoopTypeOK ==
    /\ TypeOK
    /\ {gate, lastTry, candle} \subseteq Candles \cup {0}
    /\ posState \in Snapshots
    /\ tick \in [pc : TickPCs, ts : Candles \cup {0}, snapshot : Snapshots, seen : Int,
                 tpOpen : BOOLEAN, plan : Plans]
    /\ boots \in 0 .. MaxBoots

In(pc) == tick.pc = pc

\* fetch_futures_private never raises: a failed read looks like no position.
Readings == {pos} \cup (IF FailedReads THEN {0} ELSE {})
Positions(amount) == IF amount = 0 THEN << >> ELSE <<amount>>

OpenOrders == {orders[i] : i \in {j \in DOMAIN orders : orders[j].status = "NEW"}}

ServiceIdles == UNCHANGED vars

\* kill, then an exception that ends the process.
KillAndRaise == KilledElsewhere /\ tick' = Off

EndTick == tick' = Sleeping

\* A market order has been filled or has expired before the account is read
\* again, in the next tick or after a restart.
Settled == \A i \in DOMAIN orders : orders[i].type = "MARKET" => orders[i].status # "NEW"

-----------------------------------------------------------------------------
(* start: _startup_reconcile *)

BootPositions ==
    /\ In("off")
    /\ boots < MaxBoots
    /\ Settled
    /\ boots' = boots + 1
    /\ \E amount \in Readings : tick' = [Off EXCEPT !.pc = "boot", !.seen = amount]
    /\ ServiceIdles
    /\ UNCHANGED <<loopDisk, candle>>

BootErrors ==
    ReconcileErrors(Positions(tick.seen), OpenOrders, posState # NoState, posState, RequireTp)

BootReconcile ==
    /\ In("boot")
    /\ \/ BootErrors = {} /\ EndTick /\ ServiceIdles
       \/ BootErrors # {} /\ KillAndRaise
       \/ FailedReads /\ tick' = Off /\ ServiceIdles
    /\ UNCHANGED <<loopDisk, candle, boots>>

-----------------------------------------------------------------------------
(* _run_once_contracts: the account *)

\* The first read becomes the local state; the quantities of the plan that
\* opened the position are kept while there is one.
TakeSnapshot ==
    /\ In("sleep")
    /\ Settled
    /\ \E amount \in Readings :
           LET snapshot ==
                 IF amount = 0 THEN Flat
                 ELSE [posState EXCEPT !.side = SideOf(amount), !.qty = SizeOf(amount)]
           IN  /\ posState' = snapshot
               /\ tick' = [Off EXCEPT !.pc = "recheck", !.snapshot = snapshot]
    /\ ServiceIdles
    /\ UNCHANGED <<gate, lastTry, candle, boots>>

\* Reconciled: a tick of a killed bot ends here.
Reconciled == tick' = IF killed THEN Sleeping ELSE [tick EXCEPT !.pc = "market"]

\* The second read decides whether the open orders are looked at.
Recheck ==
    /\ In("recheck")
    /\ \E amount \in Readings :
           IF amount = 0 THEN Reconciled
           ELSE tick' = [tick EXCEPT !.pc = "orders", !.seen = amount]
    /\ ServiceIdles
    /\ UNCHANGED <<loopDisk, candle, boots>>

TickErrors ==
    ReconcileErrors(Positions(tick.seen), OpenOrders, TRUE, tick.snapshot, RequireTp)

ReconcileOrders ==
    /\ In("orders")
    /\ \/ /\ TickErrors = {}
          /\ tick' = IF killed THEN Sleeping
                     ELSE [tick EXCEPT !.pc = "market",
                             !.tpOpen = \E o \in OpenOrders : o.type = "TAKE_PROFIT_MARKET"]
          /\ ServiceIdles
       \/ TickErrors # {} /\ KillAndRaise
       \/ FailedReads /\ KillAndRaise
    /\ UNCHANGED <<loopDisk, candle, boots>>

-----------------------------------------------------------------------------
(* _run_once_contracts: the candle and the decision *)

\* No candles could be read, or none is newer than the gate: the tick ends.
NoCandle ==
    /\ In("market")
    /\ EndTick
    /\ ServiceIdles
    /\ UNCHANGED <<loopDisk, candle, boots>>

\* Preflight, market data or payload refused: the candle is done with.
SkipCandle ==
    /\ In("market")
    /\ candle > gate
    /\ gate' = candle
    /\ EndTick
    /\ ServiceIdles
    /\ UNCHANGED <<posState, lastTry, candle, boots>>

TakeCandle ==
    /\ In("market")
    /\ candle > gate
    /\ tick' = [tick EXCEPT !.pc = "decide", !.ts = candle]
    /\ ServiceIdles
    /\ UNCHANGED <<loopDisk, candle, boots>>

\* HOLD, or a plan the risk checks reject.
Hold ==
    /\ In("decide")
    /\ gate' = tick.ts
    /\ EndTick
    /\ ServiceIdles
    /\ UNCHANGED <<posState, lastTry, candle, boots>>

PlanTo(plan) ==
    /\ ~killed
    /\ tick' = [tick EXCEPT !.pc = "call", !.plan = plan]
    /\ ServiceIdles
    /\ UNCHANGED <<gate, posState, candle, boots>>

\* Mutant: an open position is no obstacle.
DecideOpenPyramiding ==
    /\ In("decide")
    /\ lastTry = 0 \/ tick.ts - lastTry >= Cooldown
    /\ \E plan \in OpenPlans : plan.ts = tick.ts /\ PlanTo(plan)
    /\ lastTry' = tick.ts

\* Mutant: no cooldown.
DecideOpenAtOnce ==
    /\ In("decide")
    /\ tick.snapshot.qty = 0
    /\ \E plan \in OpenPlans : plan.ts = tick.ts /\ PlanTo(plan)
    /\ lastTry' = tick.ts

\* An entry is decided only on a flat snapshot, and not during the cooldown.
DecideOpen ==
    /\ In("decide")
    /\ tick.snapshot.qty = 0
    /\ lastTry = 0 \/ tick.ts - lastTry >= Cooldown
    /\ \E plan \in OpenPlans : plan.ts = tick.ts /\ PlanTo(plan)
    /\ lastTry' = tick.ts

\* Mutant: the quantity the position was opened with is closed.
DecideCloseOriginal ==
    /\ In("decide")
    /\ tick.snapshot.qty > 0
    /\ PlanTo([action |-> "CLOSE", ts |-> tick.ts, side |-> ExitSide(tick.snapshot.side),
               qty |-> tick.snapshot.originalQty, split |-> FALSE, price |-> NoPrice])
    /\ UNCHANGED lastTry

\* The time exit.
DecideClose ==
    /\ In("decide")
    /\ tick.snapshot.qty > 0
    /\ PlanTo([action |-> "CLOSE", ts |-> tick.ts, side |-> ExitSide(tick.snapshot.side),
               qty |-> tick.snapshot.qty, split |-> FALSE, price |-> NoPrice])
    /\ UNCHANGED lastTry

\* Mutant: the quantities are known, but not compared with the position.
Tp1FilledAssumed == tick.snapshot.originalQty > 0 /\ tick.snapshot.tp1Qty > 0

\* Quantities are counted in steps of the exchange's grid.
Tolerance == 2

\* TP1 counts as filled when the position is near enough to what it would leave.
Tp1Filled ==
    LET left == tick.snapshot.originalQty - tick.snapshot.tp1Qty
    IN  /\ tick.snapshot.originalQty > 0 /\ tick.snapshot.tp1Qty > 0
        /\ SizeOf(tick.snapshot.qty - left) <= Tolerance

DecideUpdate ==
    /\ In("decide")
    /\ tick.snapshot.qty > 0 /\ tick.seen # 0
    /\ Tp1Filled /\ tick.tpOpen
    /\ \E plan \in UpdatePlans : plan.ts = tick.ts /\ PlanTo(plan)
    /\ UNCHANGED lastTry

-----------------------------------------------------------------------------
(* _run_once_contracts: execution and bookkeeping *)

HandOver ==
    /\ In("call")
    /\ Call(tick.plan)
    /\ tick' = [tick EXCEPT !.pc = "execute"]
    /\ UNCHANGED <<loopDisk, candle, boots>>

Execute ==
    /\ In("execute")
    /\ ServiceStep
    /\ UNCHANGED loopVars

Opened == At("idle") /\ report.executed /\ tick.plan.action = "OPEN"

\* The quantities of an executed entry go into the local state, on top of the
\* snapshot taken before it.
Executed ==
    /\ In("execute")
    /\ At("idle")
    /\ posState' = IF Opened
                     THEN [tick.snapshot EXCEPT
                             !.originalQty = tick.plan.qty,
                             !.tp1Qty = IF tick.plan.split THEN Tp1Lot ELSE 0]
                     ELSE posState
    /\ tick' = [tick EXCEPT !.pc = "gate"]
    /\ ServiceIdles
    /\ UNCHANGED <<gate, lastTry, candle, boots>>

SaveGate ==
    /\ In("gate")
    /\ gate' = tick.ts
    /\ EndTick
    /\ ServiceIdles
    /\ UNCHANGED <<posState, lastTry, candle, boots>>

-----------------------------------------------------------------------------
(* The market, the exchange and the machine *)

NewCandle ==
    /\ candle + 1 \in Candles
    /\ candle' = candle + 1
    /\ ServiceIdles
    /\ UNCHANGED <<loopDisk, tick, boots>>

Exchange == ExchangeStep /\ UNCHANGED loopVars

Crash ==
    /\ ~In("off")
    /\ boots < MaxBoots
    /\ Restart
    /\ tick' = Off
    /\ UNCHANGED <<loopDisk, candle, boots>>

\* The process dies inside a write, which leaves that file unreadable.
CrashInWrite(writing) ==
    /\ TornWrites
    /\ boots < MaxBoots
    /\ writing
    /\ tick' = Off
    /\ UNCHANGED <<candle, boots>>

CrashTornIds ==
    /\ CrashInWrite(In("call") \/ (In("execute") /\ ~At("idle")))
    /\ RestartTorn
    /\ UNCHANGED loopDisk

CrashTornPosition ==
    /\ CrashInWrite(In("sleep") \/ (In("execute") /\ Opened))
    /\ Restart
    /\ posState' = NoState
    /\ UNCHANGED <<gate, lastTry>>

CrashTornCooldown ==
    /\ CrashInWrite(In("call") /\ tick.plan.action = "OPEN")
    /\ Restart
    /\ lastTry' = 0
    /\ UNCHANGED <<gate, posState>>

CrashTornGate ==
    /\ CrashInWrite(tick.pc \in {"market", "decide", "gate"} /\ candle > gate)
    /\ Restart
    /\ gate' = 0
    /\ UNCHANGED <<posState, lastTry>>

-----------------------------------------------------------------------------
(* The specification *)

LoopInit ==
    /\ Init
    /\ gate = 0
    /\ posState = NoState
    /\ lastTry = 0
    /\ candle = 0
    /\ tick = Off
    /\ boots = 0

AppStep ==
    \/ BootPositions \/ BootReconcile
    \/ TakeSnapshot \/ Recheck \/ ReconcileOrders
    \/ NoCandle \/ SkipCandle \/ TakeCandle
    \/ Hold \/ DecideOpen \/ DecideClose \/ DecideUpdate
    \/ HandOver \/ Execute \/ Executed \/ SaveGate

LoopNext ==
    \/ AppStep \/ NewCandle \/ Exchange \/ Crash
    \/ CrashTornIds \/ CrashTornPosition \/ CrashTornCooldown \/ CrashTornGate

LoopSpec == LoopInit /\ [][LoopNext]_allVars

MarketOrderSettles ==
    /\ \E i \in DOMAIN orders :
           orders[i].type = "MARKET" /\ (ExchangeFills(i) \/ ExchangeExpires(i))
    /\ UNCHANGED loopVars

\* The process, while it lives, goes on, and is started again after a crash; the
\* exchange fills or drops every market order.  No exit order need ever fill.
FairLoopSpec == LoopSpec /\ WF_allVars(AppStep) /\ WF_allVars(MarketOrderSettles)

-----------------------------------------------------------------------------
(* Properties *)

\* The loop uses the execution service only in the ways the service is specified
\* for: one call at a time, with a plan one of its plan sets holds, and a restart
\* that leaves it nothing but its files.
UsesService == Spec

\* No pyramiding: the position is never larger than the attempts of one call can
\* have made it (with a single attempt: one plan's quantity), whatever answers are
\* lost and wherever the process dies, because a new entry needs a flat account,
\* read and reconciled in the same tick.
SinglePosition == SizeOf(pos) <= Attempts * Lot

\* The candle gate, the trade ids and the cooldown back each other up: one torn
\* file does not let a second call request the entry of a candle.
NoSecondRequest == reposted = {}

\* The stop is moved to break-even only when a first target has really been
\* taken, however old the quantities it is derived from are.  For positions whose
\* first share is no more than the tolerance this is what a comment in run.py says,
\* not what the code does.
StopMovesOnlyAfterTp1 ==
    In("call") /\ tick.plan.action = "UPDATE_SLTP" =>
        \E i \in DOMAIN orders : orders[i].id[2] = "tp1" /\ orders[i].status = "FILLED"

Protected == HasProtectiveSl(SideOf(pos), OpenOrders)

\* A position without a stop does not stay unnoticed: a stop comes to rest on
\* the exchange, the position goes, or trading is stopped.
NakedIsNoticed == (pos # 0 /\ ~Protected) ~> (pos = 0 \/ Protected \/ killed)

-----------------------------------------------------------------------------
(* What the documentation says and the code does not do *)

\* docs/ARCHITECTURE.md: several targets are placed separately.  A position as
\* the executed plan left it, all its exits resting, does not stop trading.
TargetsCountAsProtection ==
    In("orders") /\ tick.seen = pos /\ tick.snapshot.qty = SizeOf(pos)
        /\ report.executed /\ report.plan.action = "OPEN"
        /\ pos = Signed(report.plan.side, report.plan.qty)
        /\ (\A i \in DOMAIN orders : orders[i].id[1] = report.plan.ts =>
               orders[i].status = IF orders[i].type = "MARKET" THEN "FILLED" ELSE "NEW")
        => TickErrors = {}
=============================================================================
