# A TLA+ model of the futures trading bot

The repository is a single-process, single-symbol trading bot for Binance USD-M
futures. Every few seconds a *tick* reads the account, compares it with the files in
`run/state`, looks for a newly closed candle, asks the decision engine for an intent,
turns the intent into a trade plan and hands the plan to an execution service. What
makes it hard is not concurrency inside the process, of which there is hardly any,
but everything around it: orders fill between two reads, a request may be carried out
although its answer is lost, the process may die between any two statements (in the
middle of a file write too), and a failed read of the account looks like an empty
account. The modules in this directory model that, TLC checks them on small instances,
and TLAPS proves the central facts for every value of the constants.

## Inventory

| Part (source) | State it keeps | Operations | What makes it correct |
|---|---|---|---|
| Execution service (`app/services/execution_service.py`) | `trade_ids.json` (through the state manager); nothing in memory between calls | `execute_trade_plan` with three paths: open, close, update stop | one entry per candle; a plan reported as executed is protected; one stop after an update; exits never enlarge a position; mode flags mutate nothing; every call returns |
| Trading loop (`app/run.py`) | `candle_gate.json`, `position_state.json` | startup reconciliation, account snapshot, preflight, `_run_once_contracts` | one position; a candle's entry is requested once; the stop moves only after TP1; naked positions are noticed |
| Reconciliation (`app/state/state_manager.py:238-353`) | none (pure) | `reconcile_positions` | every inconsistency stops trading, nothing sound does |
| State files (`app/state/state_manager.py`) | eight JSON files, rewritten in place | save/load pairs | a torn or missing file must not repeat an order |
| Risk manager (`app/risk/risk_manager.py`) | `trade_cooldown.json` (read), daily state (read) | `create_trade_plan`, `check_kill_switches` | no entry during cooldown, after a kill, beyond the daily limits; quantities split exactly |
| Kill switch (`core/risk_guard.py`) | `TRADE_KILLED.flag` | `kill`, `is_killed`, `clear_kill` | once set, no tick opens a position |
| REST client (`core/execution/binance_futures.py`, `app/services/notifications.py`) | clock offset, execution context | signed requests, order mutation block | nothing is sent under a mode flag; one retry on a refused timestamp |
| Account reader (`core/exchange_private.py`) | none | `fetch_futures_private` | a failure must be told from a flat account |
| Decision engine, predictive engine, analytics (`app/strategy`) | `decision_state_SYMBOL.json` | `make_decision` | nothing opens beside a position or on a chaotic event, on none of its three paths; pending entries are confirmed in their window and once; the event cooldown counts candles, not decisions; queues stay bounded |
| Position sizing (`app/risk/position_sizing.py`) | none | `calculate_position_size`, `round_to_step` | never above the risk or margin cap, always on the grid, shares that add up |
| Payload, market data, validator (`app/data`, `app/services/market_data.py`) | filters cache | `build_payload`, `get_klines`, `validate_market_data` | closed, ordered candles only |
| Runtime mode, bootstrap, configuration (`core/runtime_mode.py`, `app/bootstrap.py`, `core/config`) | cached settings, fingerprint | mode resolution, fingerprint check | every layer agrees on whether orders may be sent |
| Replay (`app/replay.py`) | the daily state, its running equity | the same engine and risk manager over recorded candles | its day keeps the limits of the risk manager |
| Health counters, ledger, logging, log tools | counters, append-only files | | nothing reads them back into trading |

The parts interact by calls within one process and through files: the loop calls the
risk manager, then the execution service; the service reads and writes
`trade_ids.json`; both set the kill flag; the exchange is the only other actor.

## Modules

`Execution.tla` models the execution service. Its variables are the id store
(`tradeIds`), the kill flag (`killed`), the exchange (`pos`, a signed quantity, and
`orders`, every order ever accepted), the call in progress (`proc`, whose `pc` names
the statement about to run), what the last call returned (`report`), the mode flags the
process was started with (`flags`), and two history variables (`posted`, `reposted`)
that only record which candles had their entry requested, and by how many calls.

| Code | Actions |
|---|---|
| `execute_trade_plan` up to the first request (59-160) | `Call`: `CallReadonly`, `CallSafeRun`, `CallUpdate`, `CallDuplicate`, `CallDryRun`, `CallClose`, `CallOpen` |
| leverage, entry, fill (162-219) | `LeverageStep`, `EntryStep`, `FillStep` |
| stop and targets (221-319), result (321-340) | `SlStep`, `SlSaveStep`, `TpStep`, `TpSaveStep`, `OpenDone` |
| `_execute_close_plan` | `CloseStep`, `CloseFillStep` |
| `_execute_update_sltp` | `UpdPositionStep`, `UpdOrdersStep`, `UpdCancelStep`, `UpdCancelDone`, `UpdSaveStep`, `UpdPlaceStep` |
| `_retry_call`, `_request`, `_block_order_mutation` | `PostAnswered`, `PostUnanswered`, `Retry`, `LastAttempt`, `Blocked` |
| the exchange (external) | `ExchangeFills`, `ExchangeExpires`, `Accepted`, `Cancelled` |
| process death | `Restart`, `RestartTorn` |

A request is one step: the exchange carries it out or not, and the answer arrives or
not, independently. A call and the file write at its start are one step; the torn
write is a step of its own that leaves the file unreadable, which the readers in
`state_manager.py` take for "no ids".

`EntryOnce.tla` is what the service promises about entries: claim, then at most one
requesting call, then perhaps an order. `ExecutionRefinement.tla` gives the mapping
under which `Execution` implements it.

`Reconciliation.tla` is `reconcile_positions` as an operator from positions, open
orders and local state to the set of errors, with the code's early ends.

`TradingLoop.tla` extends both and adds the three state files of the loop (`gate`,
`posState`, `lastTry`), the market (`candle`), the running tick (`tick`, with a `pc`)
and the startups. Its actions follow `_run_once_contracts` from the first account read
to the gate: `TakeSnapshot`, `Recheck`, `ReconcileOrders`, `NoCandle`/`SkipCandle`/
`TakeCandle`, `Hold`/`DecideOpen`/`DecideClose`/`DecideUpdate`, `HandOver`, `Execute`,
`Executed`, `SaveGate`. `BootPositions` and `BootReconcile` are the startup
reconciliation. The three reads of the account in a tick are separate steps, so fills
fall between them. Whatever raises sets `tick` to off; the next boot starts a process.

Those modules take decisions and plans as given. Two further groups model where they
come from.

**Decisions.** `Strategies.tla` is the strategy layer of `decision_engine.py` as pure
operators: the regime, the gates of the seven strategies, the order in which they are
tried, the first that passes (`Selected`), and the structural refusals
(`StructuralReject`). `Predictive.tla` adds the predictive layer: failure and event
metrics, the bias, and the market-state machine (`NextMarketState`). `DecisionEngine.tla`
adds the state that survives a candle (pending entry, event cooldown, market state,
memory, label queue) and `make_decision` as `Outcome`, from the saved state, a reading
and a candle to a decision and the next saved state. `DecisionTick.tla` is the only one
of the four with variables: it runs `Outcome` through the steps of a tick.

| Code | Definitions |
|---|---|
| `_compute_regime_state_5m` (405-555) | `RegimeRules`, `Regime` |
| gates of the strategies (1536-2005) | `Breakout`, `SqueezeBreak`, `TrendAccel`, `Continuation`, `Pullback`, `RangeReversion`, `RangeInTrendLong` |
| routing (2259-2422) | `Priority`, `Candidates`, `MarketGate`, `Selected` |
| `_update_event_cooldown`, `_update_pending_state` (355-402) | `Cooldown`, `Aged`, `PendingBefore` |
| pending entries and confirmation (2529-2594) | `Stage`, `PendingAfter` |
| `stage2_legacy_validation`, `stage3_execution_decision` (585-905) | `Opposing`, `HardHold`, `EarlyAllowed`, `Execution` |
| `predictive_engine.py` | `TrendFailure`, `EventClass`, `NextMarketState`, `Bias`, `Prediction` |
| `update_analytics_labels` and the cut of the file | `LabelsAfter` |
| `run.py:534-541`, `577-581`, `893-949`, `971-986` | `MakeDecision`, `SaveDecisionState`, `HandOver`, `SaveGate` |
| process death, also inside the write | `Crash`, `CrashInSave` |

`DecisionTick` keeps three history variables: the candles whose decision is in the file
(`decided`, `eventful`) and the candles whose pending entry was opened (`taken`).

**Plans.** `Payload.tla` is what a tick hands over: the account snapshot with its
fallbacks and its preflight (`AccountSnapshot`, `PreflightRejects`), the funds
(`FundsBase`) and the levels of the payload (`Channel`, `Swing`, `Features`).
`TradePlan.tla` follows the decision's prices (`ApplyRisk`, `EarlyPlan`) through the kill
switches, the sizing and the split (`KillSwitches`, `PositionSize`, `Shares`) to
`CreateTradePlan`. `TradingDay.tla` runs them over the candles of a day, live and in
replay:

| Code | Actions |
|---|---|
| account, preflight, payload, daily state (`run.py:461-536`) | `LivePayload` |
| the same in `replay.py:123-164` | `ReplayPayload` |
| decision and plan (`run.py:537-600`, `replay.py:166-195`) | `PlanTrade` |
| execution and gate (`run.py:893-986`) | `ExecutePlan` |
| outcome, booking, daily state (`replay.py:197-245`) | `ReplayOutcome` |
| an operator, a supervisor, the market | `Kill`, `Restart`, `NextCandle`, `PositionCloses` |

Its history variable `day` is what the trades of the day really brought, to be compared
with what the file says they did.

`MCExecution.tla`, `MCTradingLoop.tla`, `MCDecision.tla` and `MCTradingDay.tla` only bind
constants for TLC. `ExecutionProofs.tla`, `OrderProofs.tla`, `ProtectionProofs.tla`,
`TradingLoopProofs.tla`, `PositionProofs.tla`, `DecisionProofs.tla`, `DayProofs.tla` and
`EntryOnceProofs.tla` hold the theorems.

### Abstractions

- In `TradingLoop` the decision engine is its range: a nondeterministic choice of an entry (only on a
  flat snapshot, `decision_engine.py:1051-1074`), a time exit on an open one, a stop
  update when the loop infers that TP1 filled, or nothing.
- A plan is told apart from another plan for the same candle by its stop price and by
  whether it has one target or two. Hashes are the values they hash.
- Quantities are counted in steps of the exchange's grid. `Lot = 2, Tp1Lot = 1` is a
  split in halves (`TP1_FRACTION=0.5`); the configuration that depends on the
  tolerance of two steps (`loop_targets`) uses the default fraction of 0.4 (15 = 6 + 9).
- The exchange accepts an order id again once the earlier order with it is no longer
  open. Exit orders whose position is gone may expire but need not.
- `Settled`: between the end of a tick (or a death) and the next account read, a market
  order has been matched or has expired. The loop sleeps seconds and the exchange
  matches market orders in milliseconds; without it a restart could overtake an entry.
- The loop is checked with one attempt per request where duplicates by retry are not
  the question; what a retry can do to an entry is `execution_lost_answer`.
- A market (`Strategies!Markets`) is what the engine's comparisons make of a candle: on
  which side of EMA50 it closed, in which class its volume is, which edge it broke. The
  fields are independent, which admits every market a real candle can show and some it
  cannot. The stability and confirmation scores are their grade, the confidence of a
  prediction is its tier.
- The distance from EMA50 is such a class too. The engine calls it widening when it has
  grown by 0.20 ATR since the last candle (`predictive_engine.py:80`);
  `Predictive!DistanceWidening` compares the classes of the two candles, so that growth
  inside a class is not seen and a smaller step into the next class is. It is one of two
  alternatives of one clause of a failed reclaim, and no property depends on it.
- `MCDecision` hands the engine breakouts of the channel, which is the engine's own
  contract; that the live payload never reports one is `day_breakout`.
- Prices are whole ticks and quantities whole steps. The code computes both with floats;
  a quotient that should be whole may come out just below and is then floored to one
  less. `RoundToStep` therefore returns both results, and a sum that is off by exactly
  one step is judged either way (`Shares`).
- In `TradingDay` a decision is any the engine's price rules can form; which candle
  leads to which decision is `DecisionEngine`'s part. A plan is executed at once, since
  what can happen in between is `Execution`'s.
- A replayed trade ends at its stop, at its target, or brings nothing; the walk over the
  following candles is left out.
- `PAPER_TRADING` is represented by `DRY_RUN_ONLY`, which bootstrap derives from it.

## Runs

All runs finish in about two minutes or less with two workers. Deadlock checking is off:
a killed or crashed bot with no starts left has really stopped, and `MaxOrders` ends
what the exchange accepts.

| Run | Shows |
|---|---|
| `execution_crash` | one candle, two stop prices, two attempts, a restart anywhere: `EntryRequestedByOneCall`, `ExecutedMeansProtected`, `UpdateLeavesOneStop`, `ExitsOnlyShrink`, and the refinement `EntriesOnce` |
| `execution_modes` | restarts into every mode with torn id files: `ModesMutateNothing`, and `ExecutedMeansProtected` without relying on the ids |
| `loop_torn` | two candles, both sides, any state file torn: `SinglePosition`, `NoSecondRequest`, and `UsesService` (every loop behaviour is a behaviour of `Execution`) |
| `loop_targets` | `EXIT_REQUIRE_TP=0`, shares of 6 and 9 of 15 steps, reads that fail: `StopMovesOnlyAfterTp1` |
| `loop_liveness` | `EveryCallReturns`, `NakedIsNoticed` under fairness |
| `decision_crash` | three candles, each with any of the markets of `MCDecision`, decided again after crashes before, inside and after the write of the decision state: `OpensOnlyWhenFree`, `CooldownHolds`, `NoPendingInCooldown`, `ConfirmsInWindow`, `TakenOnce`, `LabelsBounded` |
| `day_plans` | four candles on two days, live and in replay, every kind of account answer: `WithinBudget`, `SharesAddUp`, `StopsProtect`, `ReplayHonoursLosses` |

The following runs end in a counterexample: in each, a sentence of the repository says
one thing and the code does another (`findings` in `PROJECT.json` quotes it).

| Run | Disagreement |
|---|---|
| `execution_lost_answer` | a retried entry whose first answer was lost is executed twice: the client order id is free again once the first market order filled |
| `loop_failed_reads` | failed account reads look like a flat account, and a second entry is placed on an open position |
| `loop_two_targets` | with `EXIT_REQUIRE_TP=1` (the default) a two-target position stops trading in the next tick, since its targets carry no `closePosition` |
| `day_losses` | the live loop never writes a result to the daily state: after the documented number of losses the next plan is made |
| `day_breakout` | the channel contains the candle compared with it, so no close is ever beyond it: `BREAKOUT_EXPANSION`, `SQUEEZE_BREAK` and whatever else waits for a channel break cannot occur live |

What else was met while modelling, and has no run because the outcome is safe or because
it takes more steps than a run covers:

- A start right after an entry compares the open position with the snapshot saved from
  before it (`run.py:958`) and stops trading, although the position is protected.
- A crash before the gate is written makes the candle be decided again; ids and cooldown
  keep its entry from being requested again (`NoSecondRequest`).
- A flat tick does not read open orders (`run.py:309`), so exit orders that outlive their
  position rest unseen. With three candles, a target left by a position that its stop
  closed fills against the next position, shrinks it by just the first share, and its
  stop is moved to break-even. `loop_targets` therefore claims only that *a* first target
  was taken, over two candles.
- A first share of two quantity steps or less is inside the tolerance of the TP1
  comparison (`run.py:659`): the untouched position counts as reduced.
- A split whose shares are one step short is refused (`qty_split_mismatch`) instead of
  given the missing step. With floored shares this is the fate of many quantities.
- In a replay whose equity has fallen to zero or below, `load_or_initialize_daily_state`
  starts the day anew with every candle (`state_manager.py:373`) and forgets its losses;
  `ReplayHonoursLosses` holds in the run because the losses of four candles do not get
  there, and is proved for every replay that stays above zero.
- The quantity that tells "TP1 has filled" (`run.py:659`) is that of the second share.
  With a split in halves a second target alone (the first was refused, or its request
  failed) leaves what a first would, and the stop is moved. With other splits it takes
  several targets: with the default of three attempts and `TP1_FRACTION=0.4`, three
  entries (two lost answers) less four second targets (three of them of earlier
  positions, or repeated) measure one second share. What holds for every split is that
  one of the two targets was taken (`NoBreakEvenBeforeTargets` below).
- The queue of analytics labels is aged by every decision. A candle that is decided
  again after a restart ages the older labels a second time, and they are finalised
  before `PREDICTIVE_LABEL_HORIZON_CANDLES` candles have passed, although
  `ARCHITECTURE.md:138` calls the queue restart-safe. Labels only feed the log.

### Bounds

`Candles` has one element for the service, whose ids never mix candles, and two for the
loop: an entry and whatever follows it in the next tick, or the same candle replayed
after a restart. `MaxOrders` 4 admits a full two-target plan (entry, stop, two targets);
6 admits a stop update after it. `Attempts = 2` is the smallest number with a retry.
`MaxBoots` counts process starts: 2 is one crash, which tears any one file. With three
(two crashes) and one side, `NoSecondRequest` holds as well; with `Cooldown = 0` it
does not, so it is the cooldown that covers the loss of gate or ids.
`LiveOnly` (no mode flag) is used where the question is what live trading does.

`decision_crash` has three candles: with `CooldownCandles = 2` and `ExpireCandles = 1`
an event, its cooldown and the candle after it fit, as do a pending entry, its
confirmation and the candle that comes too late. With `Horizon = 2` labels of two
candles wait side by side, some of them queued again and aged again by a repeated
decision. `QueueSlack = 1` and `QueueFloor = 2` make the engine's limit 3 and leave it
below `FileLimit = 4`, as in the program (12 and 16): the engine's cut is the one that
acts, and it does when candles are decided again. The cut of the file acts only where
its limit is the smaller one; the theorem `LabelsStayBounded` covers both. The
markets of `MCDecision` are candles on which a strategy or an early entry passes, and each of them with one field
changed, so that its refusals are met one at a time.

`day_plans` has a channel of `Period = 3` candles, two kinds of candles, days of
`DayLength = 3` candles and `MaxLosses = 2`, so that a day ends with its losses reached
and another begins. `FewReplies` has a free account, one whose margin is nearly used
up, one that has none left, balances only, and both errors. `Lags` are the ages of
a recording: fresh, or older than the data-age check admits.

### Fairness

`FairLoopSpec` asks for weak fairness of the application (`AppStep`) and of
`MarketOrderSettles`. The first is that a sequential process executes its next
statement, and that a supervisor restarts it until the starts are used up; the
second that the exchange matches or drops a market order. No exit order need ever fill,
no candle need ever close, and nothing forces a decision.

## Proofs

All theorems hold for every set of candles and prices, all bounds and all combinations
of mode flags. `ExecutionProofs.tla`:

- `TypeCorrect`: `Spec => []TypeOK`. The inductive invariant `TypeInv` strengthens
  `TypeOK` by what the plan in progress must look like at each `pc` (on the way of an
  entry it is an opening plan for a candle, with a stop price and the lot's quantity),
  which the types of the orders sent and of the ids written depend on.
- `EntryRequestedOnce`: `Spec => []EntryRequestedByOneCall`, assuming no torn write.
  The inductive invariant `EntryInv` says that a requested entry is recorded in the
  store, that a call on its way to the first request has recorded its id and its candle
  is not among the requested ones, and that ids are never removed. Every step
  is either *quiet* (keeps claims, requests and entry orders) or one of two: the call
  that claims and the step that requests.
- `ImplementsEntryOnce`: `Spec => EntriesOnce` under the same assumption, by showing
  that a quiet step stutters and the two others are steps of `EntryOnce`.

The assumption `~TornWrites` is needed: a torn `trade_ids.json` forgets the claim. What
then still holds, because of the cooldown, is `NoSecondRequest` (`TornFilesRequestOnce`
below). `EntryOnceProofs.tla` proves of the abstract specification that the
exchange holds an entry only for a claimed candle requested by exactly one call
(`OnceHolds`).

`ProtectionProofs.tla` proves `ExecutedIsProtected`: `Spec => []ExecutedMeansProtected`,
torn writes included. The property says nothing of a call under way, so the invariant
`ProtectInv` says at each `pc` which orders are already in place: the polled order is
the plan's entry, past the poll the entry is filled, and a call without errors has its
stop accepted and every target either accepted or still in `proc.legs`. `KnownTargets`
(a recorded target id belongs to an accepted order) is what makes it right to skip a
target whose id is known. `Grown` (orders only come, fills are final) carries all of
this over steps that happen elsewhere.

`OrderProofs.tla` proves what the service's orders may do, for everything the exchange
answers or loses:

- `ModesBlockOrders`: `Spec => ModesMutateNothing`, from types alone: each step that posts
  or cancels looks at the flags in `Blocked`.
- `OnlyEntriesEnlargePositions`: `Spec => ExitsOnlyShrink`. The invariant `OrderKinds` says
  that every order the exchange ever accepted is an entry, a reduce-only close or an
  exit; a fill of the last two is cut to what is open.
- `UpdatesLeaveOneStop`: `Spec => []UpdateLeavesOneStop`. `StopInv` follows the update: the
  stops it has still to look at are in the list it read (`StopsListed`), and past the
  cancels no other stop is open (`StopsGone`). Nothing but the service places stops,
  so none can come in between.

`TradingLoopProofs.tla` composes: `LoopUsesService` shows that every step of the loop is a
step of the service's specification or none of its business, from the loop's types
(`LoopTypeCorrect`) and the fact that a tick at `call` holds a plan the service is
specified for. `LoopRequestsEntryOnce` then carries `EntryRequestedOnce` over to the
whole bot. They assume `EveryPlan`: the service is specified for both sides and every
quantity, since the loop closes whatever it read.

`PositionProofs.tla` proves the loop's own three invariants, under the same `EveryPlan`:

- `TornFilesRequestOnce`: `LoopSpec => []NoSecondRequest`, with every state file torn as
  often as one likes, for `Cooldown >= 1` (`TRADE_COOLDOWN_MINUTES` is 15 by default; with
  0 TLC finds a counterexample). `RequestInv` carries the newest candle tried in the
  cooldown file through the tick: requests are never newer than the current candle,
  and for the current one the file says so; hence a plan at `call`, and a call before its
  first request, are for a candle newer than every request (`Unrequested`). Neither the
  gate nor the ids appear in the argument, which is what makes them dispensable.
- `NoPyramiding`: `LoopSpec => []SinglePosition` for `~FailedReads`; `loop_failed_reads`
  shows that the hypothesis is needed. The bound is `Attempts * Lot`, since a repeated
  request can be executed twice (`execution_lost_answer`). `PositionInv` says that from
  the snapshot to the request no market order rests, so that a position can only have
  shrunk since it was read; that a call before its k-th request has bought at most
  k - 1 times; and that a single entry is ever pending.
- `NoBreakEvenBeforeTargets`: `LoopSpec => []StopMovesOnlyAfterTarget`, that the stop is
  moved only after one of the two targets has been taken. Reads may fail, requests be
  repeated, files be torn; the one hypothesis is a first share above the tolerance of two
  steps (see "What else was met" for smaller ones). `TargetInv` says that without such a
  target everything is a multiple of a plan's quantity: the position, the stale position
  of a snapshot, what a close was decided, begun and sent with. An entry adds such a
  multiple, a close takes one, a stop or a single target takes all. A quantity that is one
  differs from what TP1 leaves by at least the first share. `StopMovesOnlyAfterTp1`, that it
  was a *first* target, is not true of all sizes and stays with `loop_targets`.

`DecisionProofs.tla` proves seven properties of `DecisionTick`, for every set of
markets, every length of cooldown and window, and every setting:

- `OpensOnlyWhenFreeAlways`: a decision exists only while its reading does, and every way
  to an opening (`LegacyOpens`, `EarlyAllowed` behind `HardHold`) refuses an incomplete
  history, a held position and, through `HardBlock` or the bias, a chaotic event.
- `NoPendingInCooldownAlways`, `TakenOnceAlways`: `TickInv` ties the saved pending entry
  to the candles already decided. An entry's origin is a decided candle, it is never one
  that was taken, and a decision that confirms it has removed it from the file before it
  is handed over, so that no restart finds it again.
- `CooldownHoldsAlways`, `ConfirmsInWindowAlways`: the counters in the file say too little
  by themselves, so `CountInv` relates them to history: what remains of the cooldown plus
  the decided candles since an event is at least `CooldownCandles`, and what remains of a
  pending entry plus the decided candles since it was set is at most `ExpireCandles + 1`.
  The candles since an event include the one that is being decided.
  Both are sums with the cardinality of a set that grows by one candle at a time, which a
  repeated decision of the same candle leaves alone.
- `TickTypeCorrect`, `LabelsStayBounded`: `TypeInv` gives the saved state its types, and
  `QueueOK` orders the waiting labels by their candles so that an older one has never
  waited less than a younger. Only labels at the front can therefore have waited out
  their horizon, and what is left stays ordered when it is aged and cut. `AgeInv` counts:
  a label has aged at least as often as candles were decided after its own (more often
  when one of them was decided again), so that none outlives its horizon.

`DayProofs.tla` proves five properties of `TradingDay`, for every account, every candle,
every setting of risk, leverage, shares and least quantity. `DayInv` says what a payload
carries (`BuiltOK`: levels are numbers or missing, and the funds of a live payload are the
lesser of what this tick's answer reports as available and as margin) and that a plan
that opens is `Sound` for the funds of its payload. The work is in the lemmas on the pure
operators:

- `EarlyStopBounds`, `RiskIsPriced` and `EarlyIsPriced` follow a stop from the levels of
  the window to the order of prices (`StopsProtectAlways`). A level at the price can put
  an early stop on the price itself; `PositionSizeFacts` is what refuses such a
  decision.
- `PositionSizeFacts`, `ReducedFacts` and `SmallerIsAffordable` show that dividing,
  reducing and raising to the least quantity never leave the budget
  (`WithinBudgetAlways`).
- `SharesFacts`: both shares are rounded down, so that a second share taken again from
  the first can only grow, and never falls below the least quantity
  (`SharesAddUpAlways`).

- `DayTypeCorrect`: `FilesInv` adds what the files and the memory of a tick hold: no day
  of the future, a gate and an attempt not past the candle, no plan without a
  payload.
- `SolventReplaysHonourLosses`: `DaySpec /\ []Solvent => []ReplayHonoursLosses`. `DayBooked`
  says that what the file tells of the current day is what its trades brought
  (`day`), and that a plan was made under these numbers. `Solvent` (a replay's equity is
  positive) is what a day that is begun once needs: without money
  `load_or_initialize_daily_state` begins it anew on every candle.
  A replay sizes every trade by the recorded account and not by what it has left, so that
  a long run of losses can use it up: the hypothesis is a real one.

They assume `TradingDayAssumption`: amounts and prices are whole numbers of their units,
and shares are between 1 and 99 percent.

Only model-checked: liveness (`EveryCallReturns`, `NakedIsNoticed`: fairness and
`ENABLED` are outside the prover's reach), and `StopMovesOnlyAfterTp1`, of which the
weaker `StopMovesOnlyAfterTarget` is proved. Every other property of a passing run is
stated by a theorem, under the hypotheses named with it; `ReplayHonoursLosses` is
checked without `Solvent`, since four candles cannot use up the equity. The properties
of the runs that expect a violation are false of the code.

Some definitions are written the way they are so that they can be reasoned about: the
filters of `Strategies` and of the label queue take indices (`ItemsAt`) instead of
`SelectSeq`, and `CreateTradePlan` is a chain of conditions, the order of which matters.

## Not modelled

- Indicator arithmetic (averages, oscillators, scores) beyond the levels that stops are
  placed on: the model takes the outcome of each comparison instead.
- Paging of klines (`services/market_data.py`) and the frame validator
  (`data/market_data_validator.py`): pure functions of an answer, whose result is the
  latest closed candle or a skipped one.
- The request layer below one request: clock offset, the single retry on a refused
  timestamp, the execution-context guard. A request is carried out or not, and answered
  or not.
- Runtime mode, bootstrap and configuration: they run once and fix the flags and
  settings that the modules take as constants. The fingerprint kill in the loop is left
  out with them.
- The 1000-entry cap of `trade_ids.json`: an id names its candle, and candles that old are
  refused by the gate.
- Schema validation and the checks of `core/invariants.py`, which can only turn a
  decision or plan away.
- Health counters, telemetry, ledger, logging and the offline log analysis: nothing
  reads them back.
- `app/decision.py` and `core/logic/ema_rsi_atr.py`: indicator helpers that the loop does
  not call.
