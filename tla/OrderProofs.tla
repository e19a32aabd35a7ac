----------------------------- MODULE OrderProofs -----------------------------
(***************************************************************************)
(* Proofs about the orders the execution service leaves on the exchange:   *)
(* a mode flag lets none be created or cancelled, only an entry order      *)
(* enlarges a position, and a stop update that reports no error leaves its *)
(* own stop alone.  They rest on one classification: what a step of the    *)
(* service or of the exchange does to the list of orders.                  *)
(***************************************************************************)
EXTENDS ExecutionProofs

-----------------------------------------------------------------------------
(* What a step does to the orders *)

\* Everything the exchange keeps of an order except its status.
SameOrder(new, old) ==
    /\ new.id = old.id /\ new.type = old.type /\ new.side = old.side /\ new.qty = old.qty
    /\ new.closePosition = old.closePosition /\ new.reduceOnly = old.reduceOnly

\* One order changes its status to s.
Becomes(i, s) ==
    /\ i \in DOMAIN orders
    /\ orders[i].status = "NEW"
    /\ orders' = [orders EXCEPT ![i].status = s]

LEMMA BecomesFacts ==
  ASSUME TypeInv, NEW i, NEW s \in Statuses, Becomes(i, s)
  PROVE  /\ i \in DOMAIN orders /\ orders[i].status = "NEW"
         /\ DOMAIN orders' = DOMAIN orders /\ Len(orders') = Len(orders)
         /\ \A j \in DOMAIN orders :
                /\ SameOrder(orders'[j], orders[j])
                /\ orders'[j].status = IF j = i THEN s ELSE orders[j].status
  <1>1. orders \in Seq(Orders) /\ i \in DOMAIN orders /\ orders[i] \in Orders
    BY StateFacts DEF Becomes
  <1>2. /\ DOMAIN orders' = DOMAIN orders
        /\ \A j \in DOMAIN orders :
               orders'[j] = IF j = i THEN [orders[i] EXCEPT !.status = s] ELSE orders[j]
    BY <1>1 DEF Becomes
  <1>3. Len(orders') = Len(orders)
    BY <1>1, <1>2, StatusType, LenProperties DEF Becomes
  <1>4. \A j \in DOMAIN orders :
            /\ SameOrder(orders'[j], orders[j])
            /\ orders'[j].status = IF j = i THEN s ELSE orders[j].status
    BY <1>1, <1>2 DEF SameOrder, Orders
  <1>. QED
    BY <1>1, <1>2, <1>3, <1>4 DEF Becomes

\* The three kinds of orders the service sends: an entry of one plan's quantity,
\* a close, and an exit that rests until a price is reached and then takes all
\* of the position, or is one of its two targets.
EntryKind(o) ==
    o.type = "MARKET" /\ ~o.reduceOnly /\ ~o.closePosition /\ o.qty = Lot /\ o.id[2] = "entry"
CloseKind(o) == o.type = "MARKET" /\ o.reduceOnly /\ ~o.closePosition
ExitKind(o) ==
    /\ o.type # "MARKET" /\ o.reduceOnly
    /\ o.closePosition \/ o.id[2] \in {"tp1", "tp2"}

ExitOrder(o) == o \in Orders /\ ExitKind(o) /\ o.status = "NEW"

\* The service sends an order.
Sends ==
    \/ EntryStep /\ Accepted(EntryOrder(proc.plan))
    \/ CloseStep /\ Accepted(CloseOrder(proc.plan))
    \/ (SlStep \/ TpStep) /\ \E o : ExitOrder(o) /\ Accepted(o)
    \/ /\ UpdPlaceStep
       /\ \E o : /\ ExitOrder(o) /\ Accepted(o)
                 /\ o.id = IdOf(proc.plan.ts, "update_sl")

\* Every step of the service leaves the exchange alone, sends one order or
\* cancels one.
LEMMA ServiceOrders ==
  ASSUME TypeInv, ServiceStep
  PROVE  \/ UNCHANGED exchange
         \/ Sends /\ UNCHANGED pos
         \/ UpdCancelStep /\ ~Blocked /\ UNCHANGED pos /\ \E i : Becomes(i, "CANCELED")
  <1>1. CASE EntryStep
    BY <1>1 DEF EntryStep, PostAnswered, PostUnanswered, Sends, exchange
  <1>2. CASE CloseStep
    BY <1>2 DEF CloseStep, PostAnswered, PostUnanswered, Sends, exchange
  <1>3. CASE SlStep
    <2>. DEFINE o == StopOrder(IdOf(proc.plan.ts, "sl"), Opposite(proc.plan.side))
    <2>1. ExitOrder(o)
      BY <1>3, OpenIds DEF SlStep, At, OpenPCs, ExitOrder, ExitKind, StopOrder
    <2>. QED
      BY <1>3, <2>1 DEF SlStep, PostAnswered, PostUnanswered, Sends, exchange
  <1>4. CASE TpStep
    <2>. DEFINE o == TpOrder(proc.plan, Head(proc.legs))
    <2>1. o \in Orders /\ Head(proc.legs) \in {"tp", "tp1", "tp2"}
      BY <1>4, OpenIds, StateFacts, LegFacts DEF TpStep, At, PlanFits, OpenPCs
    <2>2. ExitOrder(o)
      BY <2>1 DEF ExitOrder, ExitKind, TpOrder, IdOf
    <2>. QED
      BY <1>4, <2>2 DEF TpStep, PostAnswered, PostUnanswered, Sends, exchange
  <1>5. CASE UpdPlaceStep
    <2>. DEFINE o == StopOrder(IdOf(proc.plan.ts, "update_sl"), proc.side)
    <2>1. ExitOrder(o) /\ o.id = IdOf(proc.plan.ts, "update_sl")
      BY <1>5, OrderTypes, StateFacts
      DEF UpdPlaceStep, At, PlanFits, UpdatePCs, Procs, Legs, ExitOrder, ExitKind, StopOrder
    <2>. QED
      BY <1>5, <2>1 DEF UpdPlaceStep, PostUnanswered, Sends, exchange
  <1>6. CASE UpdCancelStep
    <2>1. \A i : Cancelled(i) => ~Blocked /\ (Becomes(i, "CANCELED") \/ UNCHANGED orders)
      BY StateFacts DEF Cancelled, Becomes
    <2>. QED
      BY <1>6, <2>1 DEF UpdCancelStep, exchange
  <1>7. CASE LeverageStep \/ FillStep \/ SlSaveStep \/ TpSaveStep \/ OpenDone \/ CloseFillStep
             \/ UpdPositionStep \/ UpdOrdersStep \/ UpdCancelDone \/ UpdSaveStep
    BY <1>7
    DEF LeverageStep, FillStep, SlSaveStep, TpSaveStep, OpenDone, CloseFillStep, SaveStep,
        UpdPositionStep, UpdOrdersStep, UpdCancelDone, UpdSaveStep, exchange
  <1>. QED
    BY <1>1, <1>2, <1>3, <1>4, <1>5, <1>6, <1>7 DEF ServiceStep

\* Every other step leaves it alone, or is a fill or an expiry.
LEMMA OrderSteps ==
  ASSUME TypeInv, [Next]_vars
  PROVE  \/ UNCHANGED exchange
         \/ Sends /\ UNCHANGED pos
         \/ UpdCancelStep /\ ~Blocked /\ UNCHANGED pos /\ \E i : Becomes(i, "CANCELED")
         \/ \E i \in DOMAIN orders : ExchangeFills(i) /\ Becomes(i, "FILLED")
         \/ \E i \in DOMAIN orders : ExchangeExpires(i) /\ Becomes(i, "EXPIRED") /\ UNCHANGED pos
  <1>1. CASE CallAny
    BY <1>1
    DEF CallAny, Call, CallReadonly, CallSafeRun, CallUpdate, CallDuplicate, CallDryRun,
        CallClose, CallOpen, CallKnown, ReturnAtOnce, Begin
  <1>2. CASE ExchangeStep
    BY <1>2 DEF ExchangeStep, ExchangeFills, ExchangeExpires, Becomes
  <1>3. CASE KilledElsewhere \/ Restart \/ RestartTorn \/ UNCHANGED vars
    BY <1>3 DEF KilledElsewhere, Restart, RestartTorn, ProcessRestarts, vars, exchange
  <1>. QED
    BY <1>1, <1>2, <1>3, ServiceOrders DEF Next

\* What an order that is sent looks like.
LEMMA SentOrders ==
  ASSUME TypeInv, Sends
  PROVE  /\ ~Blocked
         /\ \E o \in Orders :
                /\ Accepted(o) /\ o.status = "NEW"
                /\ \/ EntryKind(o) /\ proc.pc = "entry"
                   \/ CloseKind(o) /\ proc.pc = "close" /\ o.qty = proc.plan.qty
                   \/ ExitKind(o) /\ proc.pc \in {"sl", "tp", "upd_place"}
  <1>1. CASE EntryStep /\ Accepted(EntryOrder(proc.plan))
    <2>. DEFINE o == EntryOrder(proc.plan)
    <2>1. /\ proc.pc = "entry" /\ proc.plan.action = "OPEN" /\ proc.plan.ts \in Candles
          /\ proc.plan.qty = Lot
      BY <1>1, StateFacts DEF EntryStep, At, PlanFits, OpenPCs
    <2>2. o \in Orders /\ o.status = "NEW" /\ EntryKind(o)
      BY <2>1, OrderTypes, StateFacts DEF EntryOrder, EntryKind, PlanId, IdOf
    <2>. QED
      BY <1>1, <2>1, <2>2 DEF Accepted
  <1>2. CASE CloseStep /\ Accepted(CloseOrder(proc.plan))
    <2>. DEFINE o == CloseOrder(proc.plan)
    <2>1. proc.pc = "close" /\ proc.plan.action = "CLOSE" /\ proc.plan.ts \in Candles
      BY <1>2, StateFacts DEF CloseStep, At, PlanFits, ClosePCs
    <2>2. o \in Orders /\ o.status = "NEW" /\ CloseKind(o) /\ o.qty = proc.plan.qty
      BY <2>1, OrderTypes, StateFacts DEF CloseOrder, CloseKind
    <2>. QED
      BY <1>2, <2>1, <2>2 DEF Accepted
  <1>3. CASE (SlStep \/ TpStep) /\ \E o : ExitOrder(o) /\ Accepted(o)
    BY <1>3 DEF SlStep, TpStep, At, ExitOrder, Accepted
  <1>4. CASE /\ UpdPlaceStep
             /\ \E o : /\ ExitOrder(o) /\ Accepted(o)
                       /\ o.id = IdOf(proc.plan.ts, "update_sl")
    BY <1>4 DEF UpdPlaceStep, At, ExitOrder, Accepted
  <1>. QED
    BY <1>1, <1>2, <1>3, <1>4 DEF Sends

-----------------------------------------------------------------------------
(* Mode flags *)

ModesStep ==
    flags # {} =>
        /\ Len(orders') = Len(orders)
        /\ \A i \in DOMAIN orders :
               orders'[i].status = "CANCELED" => orders[i].status = "CANCELED"

LEMMA ModesHold == TypeInv /\ [Next]_vars => ModesStep
  <1>. SUFFICES ASSUME TypeInv, [Next]_vars, flags # {} PROVE ModesStep
    BY DEF ModesStep
  <1>1. Blocked
    BY DEF Blocked
  <1>2. CASE UNCHANGED exchange
    BY <1>2 DEF ModesStep, exchange
  <1>3. ASSUME NEW i, NEW s \in {"FILLED", "EXPIRED"}, Becomes(i, s)
        PROVE  ModesStep
    BY <1>3, BecomesFacts DEF ModesStep, Statuses
  <1>. QED
    BY <1>1, <1>2, <1>3, OrderSteps, SentOrders

\* While a mode flag is set no step creates or cancels an order, on any path of
\* the service, restarts in between included.
THEOREM ModesBlockOrders == Spec => ModesMutateNothing
  <1>1. TypeInv /\ [Next]_vars => [ModesStep]_vars
    BY ModesHold
  <1>. QED
    BY <1>1, TypeInvariant, PTL DEF Spec, ModesMutateNothing, ModesStep

-----------------------------------------------------------------------------
(* What can enlarge a position *)

OrderKinds ==
    \A i \in DOMAIN orders : EntryKind(orders[i]) \/ CloseKind(orders[i]) \/ ExitKind(orders[i])

LEMMA OrderKindsInit == Init => OrderKinds
  BY DEF Init, OrderKinds

LEMMA SameKind ==
  ASSUME NEW new, NEW old, SameOrder(new, old)
  PROVE  /\ EntryKind(old) => EntryKind(new)
         /\ CloseKind(old) => CloseKind(new)
         /\ ExitKind(old) => ExitKind(new)
  BY DEF SameOrder, EntryKind, CloseKind, ExitKind

LEMMA OrderKindsStep == TypeInv /\ OrderKinds /\ [Next]_vars => OrderKinds'
  <1>. SUFFICES ASSUME TypeInv, OrderKinds, [Next]_vars PROVE OrderKinds'
    OBVIOUS
  <1>1. CASE UNCHANGED exchange
    BY <1>1 DEF OrderKinds, exchange
  <1>2. CASE Sends
    BY <1>2, SentOrders, AcceptedType, StateFacts DEF OrderKinds
  <1>3. ASSUME NEW i, NEW s \in Statuses, Becomes(i, s)
        PROVE  OrderKinds'
    BY <1>3, BecomesFacts, SameKind DEF OrderKinds
  <1>. QED
    BY <1>1, <1>2, <1>3, OrderSteps DEF Statuses

LEMMA KindsOfOrders == Spec => []OrderKinds
  BY OrderKindsInit, OrderKindsStep, TypeInvariant, PTL DEF Spec

ShrinkStep ==
    \/ pos >= 0 /\ 0 <= pos' /\ pos' <= pos
    \/ pos <= 0 /\ 0 >= pos' /\ pos' >= pos
    \/ \E i \in DOMAIN orders :
           /\ orders[i].id[2] = "entry"
           /\ orders[i].status # orders'[i].status

LEMMA ShrinkHolds == TypeInv /\ OrderKinds /\ [Next]_vars => ShrinkStep
  <1>. SUFFICES ASSUME TypeInv, OrderKinds, [Next]_vars PROVE ShrinkStep
    OBVIOUS
  <1>1. pos \in Int /\ orders \in Seq(Orders)
    BY StateFacts
  <1>2. CASE UNCHANGED pos
    BY <1>1, <1>2 DEF ShrinkStep
  <1>3. ASSUME NEW i \in DOMAIN orders, ExchangeFills(i), Becomes(i, "FILLED")
        PROVE  ShrinkStep
    <2>1. orders[i] \in Orders
      BY <1>1
    <2>2. CASE orders[i].reduceOnly
      <3>1. Opposes(orders[i].side) /\ orders[i].qty \in Nat
        BY <1>3, <2>1, <2>2 DEF ExchangeFills, Orders
      <3>2. pos' = 0 \/ pos' = Reduced(orders[i].side, orders[i].qty)
        BY <1>3, <2>1, <2>2 DEF ExchangeFills, Orders
      <3>. QED
        BY <1>1, <3>1, <3>2 DEF ShrinkStep, Opposes, Reduced
    <2>3. CASE ~orders[i].reduceOnly
      BY <1>3, <2>3, BecomesFacts DEF OrderKinds, EntryKind, CloseKind, ExitKind, ShrinkStep, Statuses
    <2>. QED
      BY <2>2, <2>3
  <1>. QED
    BY <1>2, <1>3, OrderSteps DEF exchange

\* Whatever fills in whatever order, only the fill of an entry order enlarges
\* the position or turns it: exits and closes shrink it towards zero.
THEOREM OnlyEntriesEnlargePositions == Spec => ExitsOnlyShrink
  <1>1. TypeInv /\ OrderKinds /\ [Next]_vars => [ShrinkStep]_vars
    BY ShrinkHolds
  <1>. QED
    BY <1>1, OrderKindsInit, OrderKindsStep, TypeInvariant, PTL
    DEF Spec, ExitsOnlyShrink, ShrinkStep

-----------------------------------------------------------------------------
(* What a stop update leaves *)

\* The open stops are among those still to be cancelled.
StopsListed == At("upd_cancel") /\ proc.errs = {} => OpenStops \subseteq proc.cancels

\* From then on only the new stop can be open, even where the answer to its
\* request was lost and it is requested again.
StopsGone ==
    proc.pc \in {"upd_save", "upd_place"} /\ proc.errs = {} =>
        \A i \in OpenStops : orders[i].id = IdOf(proc.plan.ts, "update_sl")

\* A report stands only until the next call begins.
NoReportInCall == proc.pc # "idle" => ~report.executed

StopInv == StopsListed /\ StopsGone /\ NoReportInCall /\ UpdateLeavesOneStop

\* The stops that are open after a change of status were open before.
LEMMA StopsShrink ==
  ASSUME TypeInv, NEW i, NEW s \in Statuses \ {"NEW"}, Becomes(i, s)
  PROVE  /\ OpenStops' = OpenStops \ {i}
         /\ \A j \in OpenStops : orders'[j].id = orders[j].id
  BY BecomesFacts DEF OpenStops, SameOrder

LEMMA StopInit == Init => StopInv
  BY DEF Init, StopInv, StopsListed, StopsGone, NoReportInCall, UpdateLeavesOneStop, At, Idle,
         NoReport, NoPlan

\* The exchange moves while the call of the service stays where it is.
LEMMA StopsKept ==
  ASSUME StopInv, UNCHANGED <<proc, report>>,
         OpenStops' \subseteq OpenStops, \A j \in OpenStops : orders'[j].id = orders[j].id
  PROVE  StopInv'
  BY DEF StopInv, StopsListed, StopsGone, NoReportInCall, UpdateLeavesOneStop, At

\* A step that is not about stops, and reports nothing about them.
LEMMA StopsElsewhere ==
  ASSUME proc'.pc \notin {"upd_cancel", "upd_save", "upd_place"},
         ~report'.executed \/ (proc'.pc = "idle" /\ report'.plan.action # "UPDATE_SLTP")
  PROVE  StopInv'
  BY DEF StopInv, StopsListed, StopsGone, NoReportInCall, UpdateLeavesOneStop, At

\* The steps of a call that does not move stops.
LEMMA OtherCalls ==
  ASSUME TypeInv, StopInv,
         \/ LeverageStep \/ EntryStep \/ FillStep \/ SlStep \/ SlSaveStep \/ TpStep
         \/ TpSaveStep \/ OpenDone \/ CloseStep \/ CloseFillStep
  PROVE  StopInv'
  <1>1. /\ proc.pc \in OpenPCs \cup ClosePCs /\ proc.plan.action \in {"OPEN", "CLOSE"}
        /\ ~report.executed /\ proc \in Procs
    BY StateFacts
    DEF LeverageStep, EntryStep, FillStep, SlStep, SlSaveStep, TpStep, TpSaveStep, OpenDone,
        CloseStep, CloseFillStep, At, PlanFits, OpenPCs, ClosePCs, StopInv, NoReportInCall
  <1>2. \A executed, reason, errs :
            Return(executed, reason, errs) =>
                /\ proc'.pc = "idle" /\ report'.executed = executed
                /\ report'.plan.action # "UPDATE_SLTP"
    BY <1>1 DEF Return, Idle
  <1>3. \/ UNCHANGED report /\ proc'.pc \in OpenPCs \cup ClosePCs
        \/ \E executed, reason, errs : Return(executed, reason, errs)
    BY <1>1
    DEF LeverageStep, EntryStep, FillStep, SlStep, SlSaveStep, TpStep, TpSaveStep, OpenDone,
        CloseStep, CloseFillStep, At, PostAnswered, Retry, Skip, PollInconclusive, NotFilled,
        SaveStep, OpenPCs, ClosePCs, Procs
  <1>. QED
    BY <1>1, <1>2, <1>3, StopsElsewhere DEF OpenPCs, ClosePCs

\* A call begins, or returns at once and has executed nothing.
LEMMA CallBegins ==
  ASSUME TypeInv, StopInv, CallAny
  PROVE  StopInv'
  <1>1. PICK p : Call(p)
    BY DEF CallAny
  <1>2. \/ \E reason : ReturnAtOnce(p, reason)
        \/ \E pc \in {"leverage", "close", "upd_position"} : Begin(p, pc)
    BY <1>1
    DEF Call, CallReadonly, CallSafeRun, CallUpdate, CallDuplicate, CallDryRun, CallClose,
        CallOpen, CallKnown
  <1>3. proc.pc = "idle"
    BY <1>1 DEF Call
  <1>4. \A reason : ReturnAtOnce(p, reason) => ~report'.executed /\ proc' = proc
    BY DEF ReturnAtOnce
  <1>5. \A pc : Begin(p, pc) => ~report'.executed /\ proc'.pc = pc
    BY DEF Begin, Idle, NoReport
  <1>6. ~report'.executed /\ proc'.pc \in {"idle", "leverage", "close", "upd_position"}
    BY <1>2, <1>3, <1>4, <1>5
  <1>. QED
    BY <1>6, StopsElsewhere

LEMMA UpdOrdersKeeps == ASSUME TypeInv, StopInv, UpdOrdersStep PROVE StopInv'
  <1>1. ~report'.executed /\ OpenStops' = OpenStops /\ proc \in Procs
    BY StateFacts
    DEF UpdOrdersStep, At, StopInv, NoReportInCall, OpenStops, exchange
  <1>2. \/ proc'.pc = "upd_cancel" /\ proc'.cancels = OpenStops
        \/ proc'.pc = "upd_save" /\ proc'.errs # {}
    <2>1. CASE CancelFailed
      BY <1>1, <2>1 DEF CancelFailed, Procs
    <2>2. CASE proc' = [proc EXCEPT !.pc = "upd_cancel", !.cancels = OpenStops]
      BY <1>1, <2>2 DEF Procs
    <2>. QED
      BY <2>1, <2>2 DEF UpdOrdersStep
  <1>. QED
    BY <1>1, <1>2 DEF StopInv, StopsListed, StopsGone, NoReportInCall, UpdateLeavesOneStop, At

\* The stop whose request was carried out is no longer open, whether or not
\* the answer came.
LEMMA UpdCancelKeeps == ASSUME TypeInv, StopInv, UpdCancelStep PROVE StopInv'
  <1>1. /\ proc.pc = "upd_cancel" /\ proc \in Procs /\ ~report'.executed
    BY StateFacts
    DEF UpdCancelStep, At, StopInv, NoReportInCall, Retry
  <1>2. \A i : Cancelled(i) => OpenStops' \subseteq OpenStops \ {i}
    <2>1. ASSUME NEW i, Cancelled(i) PROVE OpenStops' \subseteq OpenStops \ {i}
      <3>1. CASE i \in DOMAIN orders
        <4>1. Becomes(i, "CANCELED")
          BY <2>1, <3>1 DEF Cancelled, Becomes
        <4>. QED
          BY <4>1, StopsShrink DEF Statuses
      <3>2. CASE i \notin DOMAIN orders
        <4>1. orders' = orders
          BY <2>1, <3>2, StateFacts DEF Cancelled
        <4>. QED
          BY <3>2, <4>1 DEF OpenStops
      <3>. QED
        BY <3>1, <3>2
    <2>. QED
      BY <2>1
  <1>3. PICK i \in proc.cancels :
          /\ Cancelled(i) \/ UNCHANGED orders
          /\ \/ /\ Cancelled(i)
                /\ proc' = [proc EXCEPT !.attempt = 1, !.cancels = @ \ {i}]
             \/ Retry
             \/ CancelFailed
    BY DEF UpdCancelStep
  <1>4. OpenStops' \subseteq OpenStops
    BY <1>2, <1>3 DEF OpenStops
  <1>5. \/ /\ proc'.pc = "upd_cancel" /\ proc'.errs = proc.errs
           /\ proc.errs = {} => OpenStops' \subseteq proc'.cancels
        \/ proc'.pc = "upd_save" /\ proc'.errs # {}
    BY <1>1, <1>2, <1>3, <1>4
    DEF Retry, CancelFailed, Procs, StopInv, StopsListed, At
  <1>. QED
    BY <1>1, <1>5 DEF StopInv, StopsListed, StopsGone, NoReportInCall, UpdateLeavesOneStop, At

\* No stop is left to cancel.
LEMMA UpdCancelDoneKeeps == ASSUME TypeInv, StopInv, UpdCancelDone PROVE StopInv'
  <1>1. /\ proc.pc = "upd_cancel" /\ proc.cancels = {} /\ proc \in Procs
        /\ ~report'.executed /\ OpenStops' = OpenStops
        /\ proc'.pc = "upd_save" /\ proc'.errs = proc.errs
    BY StateFacts
    DEF UpdCancelDone, At, StopInv, NoReportInCall, OpenStops, exchange, Procs
  <1>2. proc.errs = {} => OpenStops = {}
    BY <1>1 DEF StopInv, StopsListed, At
  <1>. QED
    BY <1>1, <1>2 DEF StopInv, StopsListed, StopsGone, NoReportInCall, UpdateLeavesOneStop, At

LEMMA UpdSaveKeeps == ASSUME TypeInv, StopInv, UpdSaveStep PROVE StopInv'
  <1>1. /\ proc.pc = "upd_save" /\ proc \in Procs
        /\ ~report'.executed /\ UNCHANGED orders /\ OpenStops' = OpenStops
        /\ proc'.pc = "upd_place" /\ proc'.errs = proc.errs /\ proc'.plan = proc.plan
    BY StateFacts
    DEF UpdSaveStep, SaveStep, At, StopInv, NoReportInCall, OpenStops, exchange, Procs
  <1>. QED
    BY <1>1 DEF StopInv, StopsListed, StopsGone, NoReportInCall, UpdateLeavesOneStop, At

\* The stop that is placed carries the id the report is about.
LEMMA UpdPlaceKeeps == ASSUME TypeInv, StopInv, UpdPlaceStep PROVE StopInv'
  <1>. DEFINE id == IdOf(proc.plan.ts, "update_sl")
  <1>1. /\ proc.pc = "upd_place" /\ proc \in Procs /\ ~report.executed
        /\ proc.plan.ts \in Candles
    BY StateFacts DEF UpdPlaceStep, At, StopInv, NoReportInCall, PlanFits, UpdatePCs
  <1>2. proc.errs = {} => \A i \in OpenStops' : orders'[i].id = id
    <2>1. proc.errs = {} => \A i \in OpenStops : orders[i].id = id
      BY <1>1 DEF StopInv, StopsGone
    <2>2. UNCHANGED orders \/ \E o \in Orders : Accepted(o) /\ o.id = id
      <3>1. StopOrder(id, proc.side) \in Orders
        BY <1>1, OrderTypes, StateFacts DEF Legs, Procs
      <3>. QED
        BY <3>1 DEF UpdPlaceStep, PostUnanswered, StopOrder
    <2>. HIDE DEF id
    <2>. QED
      BY <2>1, <2>2, AcceptedType, StateFacts DEF OpenStops
  <1>3. \/ Retry
        \/ \E executed, reason : Return(executed, reason, proc.errs)
    BY DEF UpdPlaceStep
  <1>4. \/ /\ proc'.pc = "upd_place" /\ proc'.plan = proc.plan /\ proc'.errs = proc.errs
           /\ ~report'.executed
        \/ /\ proc'.pc = "idle" /\ report'.plan = proc.plan /\ report'.errs = proc.errs
    BY <1>1, <1>3 DEF Retry, Return, Idle, Procs
  <1>. QED
    BY <1>2, <1>4 DEF StopInv, StopsListed, StopsGone, NoReportInCall, UpdateLeavesOneStop, At

LEMMA StopStep == TypeInv /\ StopInv /\ [Next]_vars => StopInv'
  <1>. SUFFICES ASSUME TypeInv, StopInv, [Next]_vars PROVE StopInv'
    OBVIOUS
  <1>1. CASE UpdPositionStep
    <2>1. ~report.executed /\ proc \in Procs
      BY <1>1, StateFacts DEF UpdPositionStep, At, StopInv, NoReportInCall
    <2>2. CASE Return(FALSE, "no_position", {})
      BY <2>2, StopsElsewhere DEF Return, Idle
    <2>3. CASE /\ proc' = [proc EXCEPT !.pc = "upd_orders",
                                       !.side = IF pos > 0 THEN "SELL" ELSE "BUY"]
               /\ UNCHANGED report
      <3>1. proc'.pc = "upd_orders" /\ ~report'.executed
        BY <2>1, <2>3 DEF Procs
      <3>. QED
        BY <3>1, StopsElsewhere
    <2>. QED
      BY <1>1, <2>2, <2>3 DEF UpdPositionStep
  <1>2. CASE ExchangeStep
    <2>1. PICK i \in DOMAIN orders : ExchangeFills(i) \/ ExchangeExpires(i)
      BY <1>2 DEF ExchangeStep
    <2>2. /\ Becomes(i, "FILLED") \/ Becomes(i, "EXPIRED")
          /\ UNCHANGED <<proc, report>>
      BY <2>1 DEF ExchangeFills, ExchangeExpires, Becomes
    <2>. QED
      BY <2>2, StopsShrink, StopsKept DEF Statuses
  <1>3. CASE KilledElsewhere \/ UNCHANGED vars
    <2>1. UNCHANGED <<orders, proc, report>> /\ OpenStops' = OpenStops
      BY <1>3 DEF KilledElsewhere, exchange, vars, OpenStops
    <2>. QED
      BY <2>1, StopsKept
  <1>4. CASE Restart \/ RestartTorn
    BY <1>4, StopsElsewhere DEF Restart, RestartTorn, ProcessRestarts, Idle, NoReport
  <1>. QED
    BY <1>1, <1>2, <1>3, <1>4, CallBegins, OtherCalls, UpdOrdersKeeps, UpdCancelKeeps,
       UpdCancelDoneKeeps, UpdSaveKeeps, UpdPlaceKeeps
    DEF Next, ServiceStep

\* A stop update that is reported as executed without an error leaves no open
\* stop but its own, whatever answers were lost and whatever filled meanwhile.
THEOREM UpdatesLeaveOneStop == Spec => []UpdateLeavesOneStop
  <1>1. StopInv => UpdateLeavesOneStop
    BY DEF StopInv
  <1>. QED
    BY <1>1, StopInit, StopStep, TypeInvariant, PTL DEF Spec
=============================================================================
