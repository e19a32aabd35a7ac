------------------------------ MODULE Execution ------------------------------
(***************************************************************************)
(* The execution service (app/services/execution_service.py): it takes one *)
(* validated trade plan at a time and turns it into orders.  The module    *)
(* keeps every step at which the process can die or a request can go       *)
(* astray: each order request, each write of run/state/trade_ids.json and  *)
(* each poll is an action.  The futures exchange is an environment,        *)
(* modelled from how the service uses it.                                  *)
(*                                                                         *)
(* Prices, timestamps and quantities are abstract: a plan for a candle is  *)
(* told apart from another plan for that candle by its stop price.         *)
(***************************************************************************)
EXTENDS Integers, Sequences, FiniteSets

CONSTANTS
    Candles,      \* close times of the candles plans are made for
    Sides,        \* sides an opening plan may have
    Prices,       \* stop-loss prices a plan may carry
    NoPrice,      \* "this plan has no stop-loss price"
    Lot, Tp1Lot,  \* quantity of an opening plan, and its TP1 share
    CloseQtys,    \* quantities a closing plan may carry
    Attempts,     \* EXECUTION_RETRY_ATTEMPTS
    Polls,        \* EXECUTION_POLL_MAX_ATTEMPTS
    MaxOrders,    \* bound: orders the exchange ever accepts
    FlagSets,     \* combinations of the mode flags the process may run with
    TornWrites    \* can the process die halfway through writing trade_ids?

\* PAPER_TRADING is not among them: bootstrap turns it into DRY_RUN_ONLY.
ModeFlags == {"LIVE_READONLY", "SAFE_RUN", "DRY_RUN_ONLY"}

ASSUME CandlesAssumption == Candles \subseteq Nat \ {0}
ASSUME SidesAssumption == Sides \subseteq {"BUY", "SELL"}
ASSUME PricesAssumption == NoPrice \notin Prices
ASSUME LotAssumption ==
    Lot \in Nat /\ Tp1Lot \in Nat /\ 0 < Tp1Lot /\ Tp1Lot < Lot /\ CloseQtys \subseteq Nat
ASSUME RetryAssumption == Attempts \in Nat \ {0} /\ Polls \in Nat \ {0}
ASSUME BoundAssumption == MaxOrders \in Nat
ASSUME FlagAssumption == FlagSets \subseteq SUBSET ModeFlags
ASSUME TornAssumption == TornWrites \in BOOLEAN

VARIABLES
    tradeIds,  \* run/state/trade_ids.json: client order id -> hash
    killed,    \* run/TRADE_KILLED.flag exists
    pos,       \* exchange: signed position of the symbol, in lots
    orders,    \* exchange: every order it accepted; the index is the orderId
    proc,      \* the call of execute_trade_plan in progress
    report,    \* what the last finished call returned
    flags,     \* mode flags the process was started with
    posted,    \* history: candles whose entry order was requested
    reposted   \* history: candles whose entry was requested by a second call

disk == <<tradeIds, killed>>
exchange == <<pos, orders>>
history == <<posted, reposted>>
vars == <<tradeIds, killed, pos, orders, proc, report, flags, posted, reposted>>

-----------------------------------------------------------------------------
(* Plans, client order ids, orders *)

Legs == {"entry", "sl", "tp", "tp1", "tp2", "close", "sltp", "update_sl"}
Ids == Candles \X Legs

NoPlan == [action |-> "NONE", ts |-> 0, side |-> "BUY", qty |-> 0,
           split |-> FALSE, price |-> NoPrice]

Plans == [action : {"NONE", "OPEN", "CLOSE", "UPDATE_SLTP"}, ts : Candles \cup {0},
          side : {"BUY", "SELL"}, qty : Nat, split : BOOLEAN,
          price : Prices \cup {NoPrice}]

\* The hash stored under an id: of the whole plan for entry and close ids,
\* of the order's price for exit ids.
Hashes == Plans \cup Prices

\* Deterministic client order ids of a plan, from its candle's close time.
IdOf(ts, leg) == <<ts, leg>>
PlanId(p) == IdOf(p.ts, CASE p.action = "CLOSE" -> "close"
                          [] p.action = "UPDATE_SLTP" -> "sltp"
                          [] OTHER -> "entry")
TpLegs(p) == IF p.split THEN <<"tp1", "tp2">> ELSE <<"tp">>

Opposite(side) == IF side = "BUY" THEN "SELL" ELSE "BUY"

Statuses == {"NEW", "FILLED", "EXPIRED", "CANCELED"}
Orders == [id : Ids, type : {"MARKET", "STOP_MARKET", "TAKE_PROFIT_MARKET"},
           side : {"BUY", "SELL"}, qty : Nat, closePosition : BOOLEAN,
           reduceOnly : BOOLEAN, status : Statuses]

EntryOrder(p) ==
    [id |-> PlanId(p), type |-> "MARKET", side |-> p.side, qty |-> p.qty,
     closePosition |-> FALSE, reduceOnly |-> FALSE, status |-> "NEW"]

\* Mutant: a close order that may open the opposite position.
CloseOrderFull(p) ==
    [id |-> PlanId(p), type |-> "MARKET", side |-> p.side, qty |-> p.qty,
     closePosition |-> FALSE, reduceOnly |-> FALSE, status |-> "NEW"]

CloseOrder(p) ==
    [id |-> PlanId(p), type |-> "MARKET", side |-> p.side, qty |-> p.qty,
     closePosition |-> FALSE, reduceOnly |-> TRUE, status |-> "NEW"]

StopOrder(id, side) ==
    [id |-> id, type |-> "STOP_MARKET", side |-> side, qty |-> 0,
     closePosition |-> TRUE, reduceOnly |-> TRUE, status |-> "NEW"]

\* Mutant: the second share is subtracted the wrong way round.
TpOrderNegative(p, leg) ==
    [id |-> IdOf(p.ts, leg), type |-> "TAKE_PROFIT_MARKET", side |-> Opposite(p.side),
     qty |-> IF leg = "tp" THEN 0 ELSE IF leg = "tp1" THEN Tp1Lot ELSE Tp1Lot - p.qty,
     closePosition |-> leg = "tp", reduceOnly |-> TRUE, status |-> "NEW"]

\* One take-profit closes the position; of two, each closes its share and
\* carries no closePosition flag.
TpOrder(p, leg) ==
    [id |-> IdOf(p.ts, leg), type |-> "TAKE_PROFIT_MARKET", side |-> Opposite(p.side),
     qty |-> IF leg = "tp" THEN 0 ELSE IF leg = "tp1" THEN Tp1Lot ELSE p.qty - Tp1Lot,
     closePosition |-> leg = "tp", reduceOnly |-> TRUE, status |-> "NEW"]

-----------------------------------------------------------------------------
(* The service's own state *)

PCs == {"idle", "leverage", "entry", "fill", "sl", "sl_save", "tp", "tp_save",
        "close", "close_fill",
        "upd_position", "upd_orders", "upd_cancel", "upd_save", "upd_place"}

Errors == {"set_leverage_failed", "sl_order_failed", "tp_order_failed",
           "cancel_sl_failed"}

Idle == [pc |-> "idle", plan |-> NoPlan, attempt |-> 0, polls |-> 0, order |-> 0,
         legs |-> << >>, errs |-> {}, cancels |-> {}, side |-> "BUY"]

NoReport == [plan |-> NoPlan, executed |-> FALSE, reason |-> "none", errs |-> {}]

Reasons == {"none", "blocked_readonly", "safe_run", "dry_run", "trade_plan_mismatch",
            "already_executed", "entry_order_failed", "entry_not_filled", "executed",
            "partial_failure", "close_order_failed", "close_not_filled",
            "no_position", "update_sl_failed"}

\* Take-profit orders still to be placed.
LegLists == {<< >>, <<"tp">>, <<"tp2">>, <<"tp1", "tp2">>}

Procs == [pc : PCs, plan : Plans, attempt : Nat, polls : Nat, order : Nat,
          legs : LegLists, errs : SUBSET Errors, cancels : SUBSET Nat,
          side : {"BUY", "SELL"}]

Reports == [plan : Plans, executed : BOOLEAN, reason : Reasons, errs : SUBSET Errors]

TypeOK ==
    /\ DOMAIN tradeIds \subseteq Ids
    /\ tradeIds \in [DOMAIN tradeIds -> Hashes]
    /\ killed \in BOOLEAN
    /\ pos \in Int
    /\ orders \in Seq(Orders)
    /\ proc \in Procs
    /\ report \in Reports
    /\ flags \in FlagSets
    /\ posted \in SUBSET Candles
    /\ reposted \in SUBSET Candles

EmptyStore == [id \in {} |-> NoPrice]

Known(id) == id \in DOMAIN tradeIds

\* save_trade_identifier: read, add or overwrite one entry, write back.
Saved(id, hash) ==
    [k \in DOMAIN tradeIds \cup {id} |-> IF k = id THEN hash ELSE tradeIds[k]]

\* execute_trade_plan returns.
Return(executed, reason, errs) ==
    /\ proc' = Idle
    /\ report' = [plan |-> proc.plan, executed |-> executed, reason |-> reason,
                  errs |-> errs]

\* It returns before the plan is taken up: no network call was made.
ReturnAtOnce(p, reason) ==
    /\ report' = [plan |-> p, executed |-> FALSE, reason |-> reason, errs |-> {}]
    /\ UNCHANGED <<proc, exchange, flags, history>>

\* The service goes to work on p at the given point.
Begin(p, pc) ==
    /\ proc' = [Idle EXCEPT !.pc = pc, !.plan = p, !.attempt = 1]
    /\ report' = NoReport
    /\ UNCHANGED <<exchange, flags, history>>

-----------------------------------------------------------------------------
(* execute_trade_plan up to the first network call *)

CallReadonly(p) ==
    /\ "LIVE_READONLY" \in flags
    /\ ReturnAtOnce(p, "blocked_readonly")
    /\ UNCHANGED disk

CallSafeRun(p) ==
    /\ "LIVE_READONLY" \notin flags
    /\ "SAFE_RUN" \in flags
    /\ tradeIds' = Saved(PlanId(p), p)
    /\ ReturnAtOnce(p, "safe_run")
    /\ UNCHANGED killed

\* Past both early returns.
Executable == flags \cap {"LIVE_READONLY", "SAFE_RUN"} = {}

\* A known id is never executed again; with another hash it stops trading.
CallKnown(p, id, hash) ==
    /\ Known(id)
    /\ killed' = (killed \/ tradeIds[id] # hash)
    /\ ReturnAtOnce(p, IF tradeIds[id] # hash THEN "trade_plan_mismatch"
                                              ELSE "already_executed")
    /\ UNCHANGED tradeIds

\* Plans that move the stop take their own path, before the id of the plan
\* and the dry-run flag are looked at.
CallUpdate(p) ==
    /\ Executable
    /\ p.action = "UPDATE_SLTP"
    /\ \/ CallKnown(p, IdOf(p.ts, "update_sl"), p.price)
       \/ /\ ~Known(IdOf(p.ts, "update_sl"))
          /\ Begin(p, "upd_position")
          /\ UNCHANGED disk

CallDuplicate(p) ==
    /\ Executable
    /\ p.action \in {"OPEN", "CLOSE"}
    /\ CallKnown(p, PlanId(p), p)

\* The plan is new and may be executed.
Fresh(p) == Executable /\ p.action \in {"OPEN", "CLOSE"} /\ ~Known(PlanId(p))

CallDryRun(p) ==
    /\ Fresh(p)
    /\ "DRY_RUN_ONLY" \in flags
    /\ tradeIds' = Saved(PlanId(p), p)
    /\ ReturnAtOnce(p, "dry_run")
    /\ UNCHANGED killed

CallClose(p) ==
    /\ Fresh(p)
    /\ "DRY_RUN_ONLY" \notin flags
    /\ p.action = "CLOSE"
    /\ Begin(p, "close")
    /\ UNCHANGED disk

\* Mutant: the id is left to be saved later.
CallOpenUnsaved(p) ==
    /\ Fresh(p)
    /\ "DRY_RUN_ONLY" \notin flags
    /\ p.action = "OPEN"
    /\ Begin(p, "leverage")
    /\ UNCHANGED disk

\* The id is on disk before anything is sent.
CallOpen(p) ==
    /\ Fresh(p)
    /\ "DRY_RUN_ONLY" \notin flags
    /\ p.action = "OPEN"
    /\ tradeIds' = Saved(PlanId(p), p)
    /\ Begin(p, "leverage")
    /\ UNCHANGED killed

Call(p) ==
    /\ proc.pc = "idle"
    /\ \/ CallReadonly(p) \/ CallSafeRun(p) \/ CallUpdate(p) \/ CallDuplicate(p)
       \/ CallDryRun(p) \/ CallClose(p) \/ CallOpen(p)

-----------------------------------------------------------------------------
(* Requests that change orders.  Each is tried up to Attempts times: what   *)
(* looks like a failure may be a lost answer to a request that succeeded.   *)

At(pc) == proc.pc = pc

\* Mutant: the dry-run flag is left to the service.
BlockedUnlessDryRun == flags \cap {"LIVE_READONLY", "SAFE_RUN"} # {}

\* _block_order_mutation refuses every POST and DELETE under a mode flag.
Blocked == flags # {}

Opposes(side) == (side = "SELL" /\ pos > 0) \/ (side = "BUY" /\ pos < 0)

\* The exchange takes an order unless one with its id is still open, or it is
\* a reduce-only market order with nothing to reduce.
Accepted(o) ==
    /\ ~Blocked
    /\ Len(orders) < MaxOrders
    /\ \A i \in DOMAIN orders : ~(orders[i].id = o.id /\ orders[i].status = "NEW")
    /\ (o.type = "MARKET" /\ o.reduceOnly) => Opposes(o.side)
    /\ orders' = Append(orders, o)

\* The request succeeds and the service goes on at pc, with the orderId.
PostAnswered(o, pc) ==
    /\ Accepted(o)
    /\ proc' = [proc EXCEPT !.pc = pc, !.attempt = 1, !.order = Len(orders) + 1]
    /\ UNCHANGED <<pos, report>>

\* Mutant: the attempts are not counted.
RetryUncounted ==
    /\ proc.attempt < Attempts
    /\ UNCHANGED <<proc, report>>

\* _retry_call catches an exception and tries again.
Retry ==
    /\ proc.attempt < Attempts
    /\ proc' = [proc EXCEPT !.attempt = @ + 1]
    /\ UNCHANGED report

LastAttempt == proc.attempt >= Attempts

\* The request fails, or is carried out and its answer lost.
PostUnanswered(o) ==
    /\ UNCHANGED pos
    /\ \/ UNCHANGED orders
       \/ Accepted(o)

LeverageStep ==
    /\ At("leverage")
    /\ \E errs \in {{}, {"set_leverage_failed"}} :
           proc' = [proc EXCEPT !.pc = "entry", !.errs = errs]
    /\ UNCHANGED <<disk, exchange, report, flags, history>>

\* History only: the first request of a call for the entry of its candle.
NoteEntryRequest ==
    IF proc.attempt = 1
      THEN /\ posted' = posted \cup {proc.plan.ts}
           /\ reposted' = IF proc.plan.ts \in posted
                            THEN reposted \cup {proc.plan.ts} ELSE reposted
      ELSE UNCHANGED history

EntryStep ==
    /\ At("entry")
    /\ \/ PostAnswered(EntryOrder(proc.plan), "fill")
       \/ /\ PostUnanswered(EntryOrder(proc.plan))
          /\ \/ Retry
             \/ /\ LastAttempt
                /\ Return(FALSE, "entry_order_failed", proc.errs)
    /\ NoteEntryRequest
    /\ UNCHANGED <<disk, flags>>

\* _wait_for_fill: one poll that proves nothing (still open, or an error).
PollInconclusive ==
    /\ proc.polls < Polls
    /\ proc' = [proc EXCEPT !.polls = @ + 1]
    /\ UNCHANGED <<disk, report>>

\* One poll that reads a final status.
PollReads(statuses) ==
    proc.polls < Polls /\ orders[proc.order].status \in statuses

\* The order is dead, or the polls or the time allowed for them ran out.
NotFilled(reason) ==
    /\ PollReads({"CANCELED", "EXPIRED"}) \/ proc.polls > 0
    /\ killed' = TRUE
    /\ Return(FALSE, reason, proc.errs)
    /\ UNCHANGED tradeIds

Filled == PollReads({"FILLED"})

FillStep ==
    /\ At("fill")
    /\ \/ /\ Filled
          /\ proc' = [proc EXCEPT !.pc = "sl", !.attempt = 1]
          /\ UNCHANGED <<disk, report>>
       \/ PollInconclusive
       \/ NotFilled("entry_not_filled")
    /\ UNCHANGED <<exchange, flags, history>>

\* A failed exit order is noted and the next one is attempted.
Skip(error, pc, legs) ==
    /\ LastAttempt
    /\ proc' = [proc EXCEPT !.pc = pc, !.attempt = 1, !.legs = legs,
                            !.errs = @ \cup {error}]
    /\ UNCHANGED report

SlStep ==
    /\ At("sl")
    /\ LET o == StopOrder(IdOf(proc.plan.ts, "sl"), Opposite(proc.plan.side))
       IN  \/ PostAnswered(o, "sl_save")
           \/ /\ PostUnanswered(o)
              /\ Retry \/ Skip("sl_order_failed", "tp", TpLegs(proc.plan))
    /\ UNCHANGED <<disk, flags, history>>

\* Record the id of the exit order just placed, or die in the attempt.
SaveStep(id, pc, legs) ==
    /\ tradeIds' = Saved(id, proc.plan.price)
    /\ proc' = [proc EXCEPT !.pc = pc, !.legs = legs]
    /\ UNCHANGED <<killed, exchange, report, flags, history>>

SlSaveStep ==
    /\ At("sl_save")
    /\ SaveStep(IdOf(proc.plan.ts, "sl"), "tp", TpLegs(proc.plan))

Leg == IdOf(proc.plan.ts, Head(proc.legs))

TpStep ==
    /\ At("tp")
    /\ proc.legs # << >>
    /\ LET o == TpOrder(proc.plan, Head(proc.legs))
       IN  \/ /\ Known(Leg)
              /\ proc' = [proc EXCEPT !.legs = Tail(@)]
              /\ UNCHANGED <<exchange, report>>
           \/ ~Known(Leg) /\ PostAnswered(o, "tp_save")
           \/ /\ ~Known(Leg)
              /\ PostUnanswered(o)
              /\ Retry \/ Skip("tp_order_failed", "tp", Tail(proc.legs))
    /\ UNCHANGED <<disk, flags, history>>

TpSaveStep ==
    /\ At("tp_save")
    /\ SaveStep(Leg, "tp", Tail(proc.legs))

\* Mutant: what went wrong with an exit order does not matter.
OpenDoneRegardless ==
    /\ At("tp")
    /\ proc.legs = << >>
    /\ Return(TRUE, "executed", proc.errs)
    /\ UNCHANGED <<disk, exchange, flags, history>>

OpenDone ==
    /\ At("tp")
    /\ proc.legs = << >>
    /\ Return(proc.errs = {}, IF proc.errs = {} THEN "executed" ELSE "partial_failure",
              proc.errs)
    /\ UNCHANGED <<disk, exchange, flags, history>>

-----------------------------------------------------------------------------
(* CLOSE: a reduce-only market order; the exit orders stay as they are *)

CloseStep ==
    /\ At("close")
    /\ \/ PostAnswered(CloseOrder(proc.plan), "close_fill")
       \/ /\ PostUnanswered(CloseOrder(proc.plan))
          /\ \/ Retry
             \/ LastAttempt /\ Return(FALSE, "close_order_failed", {})
    /\ UNCHANGED <<disk, flags, history>>

CloseFillStep ==
    /\ At("close_fill")
    /\ \/ Filled /\ Return(TRUE, "executed", {}) /\ UNCHANGED disk
       \/ PollInconclusive
       \/ NotFilled("close_not_filled")
    /\ UNCHANGED <<exchange, flags, history>>

-----------------------------------------------------------------------------
(* UPDATE_SLTP: cancel the stops, then place one at break-even *)

\* A failed position request reads as "no position".
UpdPositionStep ==
    /\ At("upd_position")
    /\ \/ /\ pos # 0
          /\ proc' = [proc EXCEPT !.pc = "upd_orders",
                                  !.side = IF pos > 0 THEN "SELL" ELSE "BUY"]
          /\ UNCHANGED report
       \/ Return(FALSE, "no_position", {})
    /\ UNCHANGED <<disk, exchange, flags, history>>

OpenStops == {i \in DOMAIN orders : orders[i].type = "STOP_MARKET" /\ orders[i].status = "NEW"}

\* Mutant: the exception is swallowed.
CancelFailedSilently ==
    proc' = [proc EXCEPT !.pc = "upd_save", !.attempt = 1, !.cancels = {}]

\* An exception anywhere while cancelling leaves the remaining stops alone and
\* goes on to place the new one.
CancelFailed ==
    proc' = [proc EXCEPT !.pc = "upd_save", !.attempt = 1, !.cancels = {},
                         !.errs = {"cancel_sl_failed"}]

UpdOrdersStep ==
    /\ At("upd_orders")
    /\ \/ proc' = [proc EXCEPT !.pc = "upd_cancel", !.cancels = OpenStops]
       \/ CancelFailed
    /\ UNCHANGED <<disk, exchange, report, flags, history>>

Cancelled(i) ==
    /\ ~Blocked
    /\ orders[i].status = "NEW"
    /\ orders' = [orders EXCEPT ![i].status = "CANCELED"]

UpdCancelStep ==
    /\ At("upd_cancel")
    /\ proc.cancels # {}
    /\ \E i \in proc.cancels :
           /\ \A j \in proc.cancels : i <= j
           /\ \/ /\ Cancelled(i)
                 /\ proc' = [proc EXCEPT !.attempt = 1, !.cancels = @ \ {i}]
                 /\ UNCHANGED report
              \/ /\ Cancelled(i) \/ UNCHANGED orders
                 /\ Retry \/ (LastAttempt /\ CancelFailed /\ UNCHANGED report)
    /\ UNCHANGED <<disk, pos, flags, history>>

UpdCancelDone ==
    /\ At("upd_cancel")
    /\ proc.cancels = {}
    /\ proc' = [proc EXCEPT !.pc = "upd_save"]
    /\ UNCHANGED <<disk, exchange, report, flags, history>>

\* Here the id is saved before the order is placed.
UpdSaveStep ==
    /\ At("upd_save")
    /\ SaveStep(IdOf(proc.plan.ts, "update_sl"), "upd_place", proc.legs)

UpdPlaceStep ==
    /\ At("upd_place")
    /\ LET o == StopOrder(IdOf(proc.plan.ts, "update_sl"), proc.side)
       IN  \/ Accepted(o) /\ Return(TRUE, "executed", proc.errs) /\ UNCHANGED pos
           \/ /\ PostUnanswered(o)
              /\ \/ Retry
                 \/ LastAttempt /\ Return(FALSE, "update_sl_failed", proc.errs)
    /\ UNCHANGED <<disk, flags, history>>

-----------------------------------------------------------------------------
(* The exchange and the machine *)

Signed(side, qty) == IF side = "BUY" THEN qty ELSE -qty

\* What is left of the position when a reduce-only order of qty fills.
Reduced(side, qty) ==
    IF side = "SELL" THEN IF pos > qty THEN pos - qty ELSE 0
                     ELSE IF pos < -qty THEN pos + qty ELSE 0

\* An order fills: a market order as soon as the exchange matches it, an exit
\* order when the price reaches it.
ExchangeFills(i) ==
    LET o == orders[i]
    IN  /\ o.status = "NEW"
        /\ o.reduceOnly => Opposes(o.side)
        /\ orders' = [orders EXCEPT ![i].status = "FILLED"]
        /\ pos' = CASE o.closePosition -> 0
                    [] o.reduceOnly /\ ~o.closePosition -> Reduced(o.side, o.qty)
                    [] OTHER -> pos + Signed(o.side, o.qty)
        /\ UNCHANGED <<disk, proc, report, flags, history>>

\* A market order finds no liquidity; an exit order has nothing left to close.
ExchangeExpires(i) ==
    LET o == orders[i]
    IN  /\ o.status = "NEW"
        /\ o.type = "MARKET" \/ ~Opposes(o.side)
        /\ orders' = [orders EXCEPT ![i].status = "EXPIRED"]
        /\ UNCHANGED <<disk, pos, proc, report, flags, history>>

\* The trading loop or its operator sets the kill flag.  No call looks at it.
KilledElsewhere ==
    /\ At("idle")
    /\ killed' = TRUE
    /\ UNCHANGED <<tradeIds, exchange, proc, report, flags, history>>

\* The process dies or is stopped, and is started again, perhaps in another
\* mode: what is on disk is what it knows.
ProcessRestarts ==
    /\ proc' = Idle
    /\ report' = NoReport
    /\ flags' \in FlagSets
    /\ UNCHANGED <<killed, exchange, history>>

Restart == ProcessRestarts /\ UNCHANGED tradeIds

\* It dies inside the write of an exit order's id, or inside the first write
\* of a call.  The truncated file cannot be parsed, and every reader takes
\* that for "no ids".
Writing ==
    \/ proc.pc \in {"sl_save", "tp_save", "upd_save"}
    \/ At("idle") /\ "LIVE_READONLY" \notin flags

RestartTorn ==
    /\ TornWrites
    /\ Writing
    /\ tradeIds' = EmptyStore
    /\ ProcessRestarts

-----------------------------------------------------------------------------
(* The specification *)

\* Plans the rest of the program can hand over.  A tick decides on a position it
\* read earlier, and a failed read looks like a flat account: any plan may meet
\* any position.
OpenPlans ==
    [action : {"OPEN"}, ts : Candles, side : Sides, qty : {Lot}, split : BOOLEAN,
     price : Prices]

ClosePlans ==
    [action : {"CLOSE"}, ts : Candles, side : {Opposite(s) : s \in Sides},
     qty : CloseQtys, split : {FALSE}, price : {NoPrice}]

\* The service takes the side of a stop update from the position.
UpdatePlans ==
    [action : {"UPDATE_SLTP"}, ts : Candles, side : {"BUY"}, qty : {0}, split : {FALSE},
     price : Prices]

CallAny == \E p \in OpenPlans \cup ClosePlans \cup UpdatePlans : Call(p)

Init ==
    /\ tradeIds = EmptyStore
    /\ killed = FALSE
    /\ pos = 0
    /\ orders = << >>
    /\ proc = Idle
    /\ report = NoReport
    /\ flags \in FlagSets
    /\ posted = {}
    /\ reposted = {}

ServiceStep ==
    \/ LeverageStep \/ EntryStep \/ FillStep
    \/ SlStep \/ SlSaveStep \/ TpStep \/ TpSaveStep \/ OpenDone
    \/ CloseStep \/ CloseFillStep
    \/ UpdPositionStep \/ UpdOrdersStep \/ UpdCancelStep \/ UpdCancelDone
    \/ UpdSaveStep \/ UpdPlaceStep

ExchangeStep == \E i \in DOMAIN orders : ExchangeFills(i) \/ ExchangeExpires(i)

Next ==
    \/ CallAny \/ ServiceStep \/ ExchangeStep
    \/ KilledElsewhere \/ Restart \/ RestartTorn

Spec == Init /\ [][Next]_vars

-----------------------------------------------------------------------------
(* Properties *)

\* The entry order of a candle is requested by at most one call of
\* execute_trade_plan, whatever crashes and restarts fall between the write of
\* its id, the request and the writes that follow.
EntryRequestedByOneCall == ~TornWrites => reposted = {}

HasAccepted(id) == \E i \in DOMAIN orders : orders[i].id = id

\* A plan reported as executed has its entry filled and its stop and every
\* take-profit accepted by the exchange, even where an exit order is skipped
\* because its id is known.
ExecutedMeansProtected ==
    LET p == report.plan
    IN  p.action = "OPEN" /\ report.executed =>
            /\ \E i \in DOMAIN orders :
                   orders[i].id = IdOf(p.ts, "entry") /\ orders[i].status = "FILLED"
            /\ HasAccepted(IdOf(p.ts, "sl"))
            /\ \A n \in DOMAIN TpLegs(p) : HasAccepted(IdOf(p.ts, TpLegs(p)[n]))

\* A stop update that reports no error leaves exactly the stop it placed:
\* never the old one beside it.
UpdateLeavesOneStop ==
    report.plan.action = "UPDATE_SLTP" /\ report.executed /\ report.errs = {} =>
        \A i \in OpenStops : orders[i].id = IdOf(report.plan.ts, "update_sl")

\* Under a mode flag no order is created or cancelled, on any path: also on
\* the stop-update path, which does not look at the dry-run flag.
ModesMutateNothing ==
    [][flags # {} =>
        /\ Len(orders') = Len(orders)
        /\ \A i \in DOMAIN orders :
               orders'[i].status = "CANCELED" => orders[i].status = "CANCELED"]_vars

\* Only an entry order enlarges or turns a position; exit and close orders
\* shrink it towards zero, even when another exit filled first.
ExitsOnlyShrink ==
    [][\/ pos >= 0 /\ 0 <= pos' /\ pos' <= pos
       \/ pos <= 0 /\ 0 >= pos' /\ pos' >= pos
       \/ \E i \in DOMAIN orders :
              /\ orders[i].id[2] = "entry"
              /\ orders[i].status # orders'[i].status]_vars

\* Every call of execute_trade_plan returns (or dies with its process): retries and
\* polls are bounded.
EveryCallReturns == proc.pc # "idle" ~> proc.pc = "idle"

\* What README.md and the tests of the repository say of client order ids: a
\* plan opens at most one entry order.
AtMostOneEntryOrder ==
    \A i, j \in DOMAIN orders :
        orders[i].id = orders[j].id /\ orders[i].id[2] = "entry" => i = j
=============================================================================
