--------------------------- MODULE ProtectionProofs ---------------------------
(***************************************************************************)
(* Proof that a plan reported as executed has its entry filled and its     *)
(* exits accepted.  Orders are never taken back from the exchange's list   *)
(* and a filled order stays filled, so each fact about an order holds on   *)
(* once it is established; the invariant says at which point of the call   *)
(* each of them is.                                                        *)
(***************************************************************************)
EXTENDS ExecutionProofs

Targets == {"tp", "tp1", "tp2"}
LegSet(legs) == {legs[n] : n \in DOMAIN legs}

FilledEntry(c) ==
    \E i \in DOMAIN orders : orders[i].id = IdOf(c, "entry") /\ orders[i].status = "FILLED"

\* The order that is polled is the entry order of the plan.
Polled ==
    proc.pc = "fill" =>
        /\ proc.order \in DOMAIN orders
        /\ orders[proc.order].id = IdOf(proc.plan.ts, "entry")

EntryDone == proc.pc \in {"sl", "sl_save", "tp", "tp_save"} => FilledEntry(proc.plan.ts)

\* No error so far means that the stop was accepted...
StopDone ==
    proc.pc = "sl_save" \/ (proc.pc \in {"tp", "tp_save"} /\ proc.errs = {}) =>
        HasAccepted(IdOf(proc.plan.ts, "sl"))

\* ...and every target that is not still to be placed.
TargetsDone ==
    proc.pc \in {"tp", "tp_save"} /\ proc.errs = {} =>
        \A leg \in LegSet(TpLegs(proc.plan)) :
            leg \in LegSet(proc.legs) \/ HasAccepted(IdOf(proc.plan.ts, leg))

TargetPlaced == proc.pc = "tp_save" => HasAccepted(IdOf(proc.plan.ts, Head(proc.legs)))

\* What makes it right to skip a target whose id is known.
KnownTargets ==
    \A c \in Candles : \A leg \in Targets :
        Known(IdOf(c, leg)) => HasAccepted(IdOf(c, leg))

ProtectInv ==
    /\ Polled /\ EntryDone /\ StopDone /\ TargetsDone /\ TargetPlaced
    /\ KnownTargets
    /\ ExecutedMeansProtected

-----------------------------------------------------------------------------
(* Orders only come, and fills are final *)

Grown ==
    /\ DOMAIN orders \subseteq DOMAIN orders'
    /\ \A i \in DOMAIN orders :
           /\ orders'[i].id = orders[i].id
           /\ orders[i].status = "FILLED" => orders'[i].status = "FILLED"

LEMMA GrownKeeps ==
  ASSUME Grown
  PROVE  /\ \A id : HasAccepted(id) => HasAccepted(id)'
         /\ \A c : FilledEntry(c) => FilledEntry(c)'
  BY DEF Grown, HasAccepted, FilledEntry

LEMMA SameGrown == UNCHANGED orders => Grown
  BY DEF Grown

LEMMA AcceptedGrown ==
  ASSUME TypeInv, NEW o \in Orders, Accepted(o)
  PROVE  /\ Grown /\ HasAccepted(o.id)'
         /\ Len(orders) + 1 \in DOMAIN orders' /\ orders'[Len(orders) + 1].id = o.id
  BY AcceptedType, StateFacts DEF Grown, HasAccepted

\* A status is only ever given to an order that is open.
LEMMA StatusGrown ==
  ASSUME TypeInv, NEW i \in DOMAIN orders, NEW s \in Statuses, orders[i].status = "NEW",
         orders' = [orders EXCEPT ![i].status = s]
  PROVE  Grown
  <1>1. DOMAIN orders' = DOMAIN orders /\ \A j \in DOMAIN orders : orders'[j].id = orders[j].id
    BY StatusType, StateFacts
  <1>2. \A j \in DOMAIN orders : j # i => orders'[j] = orders[j]
    BY StateFacts
  <1>. QED
    BY <1>1, <1>2 DEF Grown

-----------------------------------------------------------------------------
(* Steps away from the placing of an entry and its exits *)

\* What a step reports keeps the promise.
LEMMA ReportKeeps ==
  ASSUME ExecutedMeansProtected, Grown,
         \/ report' = report \/ ~report'.executed \/ report'.plan.action # "OPEN"
  PROVE  ExecutedMeansProtected'
  <1>1. CASE report' = report
    <2>. SUFFICES ASSUME report.plan.action = "OPEN", report.executed
                  PROVE  ExecutedMeansProtected'
      BY <1>1 DEF ExecutedMeansProtected
    <2>1. /\ FilledEntry(report.plan.ts)
          /\ HasAccepted(IdOf(report.plan.ts, "sl"))
          /\ \A n \in DOMAIN TpLegs(report.plan) :
                 HasAccepted(IdOf(report.plan.ts, TpLegs(report.plan)[n]))
      BY DEF ExecutedMeansProtected, FilledEntry
    <2>2. /\ FilledEntry(report.plan.ts)'
          /\ HasAccepted(IdOf(report.plan.ts, "sl"))'
          /\ \A n \in DOMAIN TpLegs(report.plan) :
                 HasAccepted(IdOf(report.plan.ts, TpLegs(report.plan)[n]))'
      BY <1>1, <2>1 DEF Grown, FilledEntry, HasAccepted
    <2>. QED
      BY <1>1, <2>2 DEF ExecutedMeansProtected, FilledEntry
  <1>2. CASE ~report'.executed \/ report'.plan.action # "OPEN"
    BY <1>2 DEF ExecutedMeansProtected
  <1>. QED
    BY <1>1, <1>2

Watched == {"fill", "sl", "sl_save", "tp", "tp_save"}

\* No target's id becomes known.
NoNewTarget ==
    \A c \in Candles : \A leg \in Targets : Known(IdOf(c, leg))' => Known(IdOf(c, leg))

LEMMA ElsewhereKeeps ==
  ASSUME ProtectInv, Grown, NoNewTarget,
         proc'.pc \notin Watched,
         \/ report' = report \/ ~report'.executed \/ report'.plan.action # "OPEN"
  PROVE  ProtectInv'
  <1>1. ExecutedMeansProtected'
    BY ReportKeeps DEF ProtectInv
  <1>2. KnownTargets'
    BY GrownKeeps DEF ProtectInv, KnownTargets, NoNewTarget
  <1>3. (Polled /\ EntryDone /\ StopDone /\ TargetsDone /\ TargetPlaced)'
    BY DEF Watched, Polled, EntryDone, StopDone, TargetsDone, TargetPlaced
  <1>. QED
    BY <1>1, <1>2, <1>3 DEF ProtectInv

LEMMA SameCallKeeps ==
  ASSUME ProtectInv, Grown, NoNewTarget, UNCHANGED <<proc, report>>
  PROVE  ProtectInv'
  <1>1. ExecutedMeansProtected'
    BY ReportKeeps DEF ProtectInv
  <1>2. KnownTargets'
    BY GrownKeeps DEF ProtectInv, KnownTargets, NoNewTarget
  <1>3. Polled'
    BY DEF ProtectInv, Polled, Grown
  <1>4. (EntryDone /\ StopDone /\ TargetsDone /\ TargetPlaced)'
    BY GrownKeeps DEF ProtectInv, EntryDone, StopDone, TargetsDone, TargetPlaced
  <1>. QED
    BY <1>1, <1>2, <1>3, <1>4 DEF ProtectInv

\* The ids a call claims are not those of targets.
LEMMA ClaimKeeps ==
  ASSUME ProtectInv, CallAny
  PROVE  ProtectInv'
  <1>1. PICK p \in Plans : Call(p)
    BY PlanTypes DEF CallAny
  <1>2. NoNewTarget
    <2>1. tradeIds' \in {tradeIds, Saved(PlanId(p), p)}
      BY <1>1 DEF Call, CallReadonly, CallSafeRun, CallUpdate, CallDuplicate, CallDryRun,
                  CallClose, CallOpen, CallKnown, disk
    <2>2. \A c : \A leg \in Targets : IdOf(c, leg) # PlanId(p)
      BY PlanTypes DEF IdOf, Targets
    <2>3. DOMAIN Saved(PlanId(p), p) = DOMAIN tradeIds \cup {PlanId(p)}
      BY DEF Saved
    <2>. QED
      BY <2>1, <2>2, <2>3 DEF NoNewTarget, Known
  <1>3. UNCHANGED orders
    BY <1>1 DEF Call, CallReadonly, CallSafeRun, CallUpdate, CallDuplicate, CallDryRun,
                CallClose, CallOpen, CallKnown, ReturnAtOnce, Begin, exchange
  <1>4. \A pc : Begin(p, pc) => proc'.pc = pc /\ ~report'.executed
    BY DEF Begin, Idle, NoReport
  <1>5. \A reason : ReturnAtOnce(p, reason) => proc' = proc /\ ~report'.executed
    BY DEF ReturnAtOnce
  <1>6. proc'.pc \notin Watched /\ ~report'.executed
    BY <1>1, <1>4, <1>5
    DEF Call, CallReadonly, CallSafeRun, CallUpdate, CallDuplicate, CallDryRun,
        CallClose, CallOpen, CallKnown, Watched
  <1>. QED
    BY <1>2, <1>3, <1>6, SameGrown, ElsewhereKeeps

LEMMA StoreKept == UNCHANGED tradeIds => NoNewTarget
  BY DEF NoNewTarget, Known

\* Closing and moving the stop, and whatever happens to the process.
LEMMA OtherStepsKeep ==
  ASSUME TypeInv, ProtectInv,
         \/ LeverageStep \/ CloseStep \/ CloseFillStep
         \/ UpdPositionStep \/ UpdOrdersStep \/ UpdCancelDone \/ UpdPlaceStep
         \/ KilledElsewhere \/ Restart \/ RestartTorn
  PROVE  ProtectInv'
  <1>. USE StateFacts
  <1>1. CASE LeverageStep \/ UpdOrdersStep \/ UpdCancelDone \/ KilledElsewhere
    <2>1. UNCHANGED <<orders, report, tradeIds>>
      BY <1>1 DEF LeverageStep, UpdOrdersStep, UpdCancelDone, KilledElsewhere, exchange, disk
    <2>2. proc'.pc \notin Watched
      BY <1>1 DEF LeverageStep, UpdOrdersStep, UpdCancelDone, KilledElsewhere, CancelFailed,
                  At, Procs, Watched
    <2>. QED
      BY <2>1, <2>2, SameGrown, StoreKept, ElsewhereKeeps
  <1>2. CASE CloseStep
    <2>1. /\ proc.pc = "close" /\ proc.plan.action = "CLOSE" /\ proc.plan.ts \in Candles
          /\ UNCHANGED tradeIds
      BY <1>2 DEF CloseStep, At, PlanFits, ClosePCs, disk
    <2>2. CloseOrder(proc.plan) \in Orders
      BY <2>1, OrderTypes
    <2>3. Grown
      BY <1>2, <2>2, AcceptedGrown, SameGrown DEF CloseStep, PostAnswered, PostUnanswered
    <2>4. proc'.pc \notin Watched
      BY <1>2, <2>1, ReturnIsIdle DEF CloseStep, PostAnswered, Retry, Procs, Watched
    <2>5. report' = report \/ ~report'.executed
      BY <1>2 DEF CloseStep, PostAnswered, Retry, Return
    <2>. QED
      BY <2>1, <2>3, <2>4, <2>5, StoreKept, ElsewhereKeeps
  <1>3. CASE CloseFillStep
    <2>1. /\ proc.pc = "close_fill" /\ proc.plan.action = "CLOSE"
          /\ UNCHANGED <<orders, tradeIds>>
      BY <1>3 DEF CloseFillStep, PollInconclusive, NotFilled, At, PlanFits, ClosePCs,
                  exchange, disk
    <2>2. proc'.pc \notin Watched
      BY <1>3, <2>1, ReturnIsIdle DEF CloseFillStep, PollInconclusive, NotFilled, Procs, Watched
    <2>3. report' = report \/ report'.plan.action # "OPEN"
      BY <1>3, <2>1 DEF CloseFillStep, PollInconclusive, NotFilled, Return
    <2>. QED
      BY <2>1, <2>2, <2>3, SameGrown, StoreKept, ElsewhereKeeps
  <1>4. CASE UpdPositionStep
    <2>1. UNCHANGED <<orders, tradeIds>> /\ (report' = report \/ ~report'.executed)
      BY <1>4 DEF UpdPositionStep, Return, exchange, disk
    <2>2. proc'.pc \notin Watched
      BY <1>4, ReturnIsIdle DEF UpdPositionStep, Procs, Watched
    <2>. QED
      BY <2>1, <2>2, SameGrown, StoreKept, ElsewhereKeeps
  <1>5. CASE UpdPlaceStep
    <2>. DEFINE o == StopOrder(IdOf(proc.plan.ts, "update_sl"), proc.side)
    <2>1. /\ proc.pc = "upd_place" /\ proc.plan.action = "UPDATE_SLTP"
          /\ proc.plan.ts \in Candles /\ UNCHANGED tradeIds
      BY <1>5 DEF UpdPlaceStep, At, PlanFits, UpdatePCs, disk
    <2>2. o \in Orders
      BY <2>1, OrderTypes DEF Legs, Procs
    <2>3. Grown
      BY <1>5, <2>2, AcceptedGrown, SameGrown DEF UpdPlaceStep, PostUnanswered
    <2>4. proc'.pc \notin Watched
      BY <1>5, <2>1, ReturnIsIdle DEF UpdPlaceStep, Retry, Procs, Watched
    <2>5. report' = report \/ report'.plan.action # "OPEN"
      BY <1>5, <2>1 DEF UpdPlaceStep, Retry, Return
    <2>. QED
      BY <2>1, <2>3, <2>4, <2>5, StoreKept, ElsewhereKeeps
  <1>6. CASE Restart \/ RestartTorn
    <2>1. UNCHANGED orders /\ proc'.pc \notin Watched /\ ~report'.executed
      BY <1>6 DEF Restart, RestartTorn, ProcessRestarts, exchange, Idle, NoReport, Watched
    <2>2. NoNewTarget
      BY <1>6 DEF Restart, RestartTorn, NoNewTarget, Known, EmptyStore
    <2>. QED
      BY <2>1, <2>2, SameGrown, ElsewhereKeeps
  <1>. QED
    BY <1>1, <1>2, <1>3, <1>4, <1>5, <1>6

\* The write of the new stop's id.
LEMMA UpdSaveKeeps == ASSUME TypeInv, ProtectInv, UpdSaveStep PROVE ProtectInv'
  <1>1. /\ UNCHANGED <<orders, report>> /\ proc'.pc = "upd_place"
        /\ tradeIds' = Saved(IdOf(proc.plan.ts, "update_sl"), proc.plan.price)
    BY StateFacts DEF UpdSaveStep, SaveStep, exchange, Procs
  <1>2. NoNewTarget
    BY <1>1 DEF NoNewTarget, Known, Saved, IdOf, Targets
  <1>. QED
    BY <1>1, <1>2, SameGrown, ElsewhereKeeps DEF Watched

LEMMA CancelKeeps == ASSUME TypeInv, ProtectInv, UpdCancelStep PROVE ProtectInv'
  <1>. USE StateFacts
  <1>1. PICK i \in proc.cancels :
          \/ Cancelled(i) \/ UNCHANGED orders
    BY DEF UpdCancelStep
  <1>2. Grown
    <2>1. CASE Cancelled(i) /\ i \in DOMAIN orders
      BY <2>1, StatusGrown DEF Cancelled, Statuses
    <2>2. CASE Cancelled(i) /\ i \notin DOMAIN orders
      BY <2>2, SameGrown DEF Cancelled
    <2>. QED
      BY <1>1, <2>1, <2>2, SameGrown
  <1>3. UNCHANGED <<report, tradeIds>> /\ proc'.pc \notin Watched
    BY DEF UpdCancelStep, Retry, CancelFailed, At, disk, Procs, Watched
  <1>. QED
    BY <1>2, <1>3, StoreKept, ElsewhereKeeps

LEMMA ExchangeKeeps == ASSUME TypeInv, ProtectInv, ExchangeStep PROVE ProtectInv'
  <1>1. PICK i \in DOMAIN orders : ExchangeFills(i) \/ ExchangeExpires(i)
    BY DEF ExchangeStep
  <1>2. /\ orders[i].status = "NEW"
        /\ \E s \in Statuses : orders' = [orders EXCEPT ![i].status = s]
        /\ UNCHANGED <<proc, report, tradeIds>>
    BY <1>1 DEF ExchangeFills, ExchangeExpires, Statuses, disk
  <1>. QED
    BY <1>2, StatusGrown, StoreKept, SameCallKeeps

-----------------------------------------------------------------------------
(* The way of an opening plan *)

\* A list of targets is its head and its tail.
LEMMA LegSets ==
  /\ LegSet(<< >>) = {}
  /\ \A p : LegSet(TpLegs(p)) \subseteq Targets
            /\ \A n \in DOMAIN TpLegs(p) : TpLegs(p)[n] \in LegSet(TpLegs(p))
  /\ \A l \in LegLists : l # << >> =>
        Head(l) \in Targets /\ LegSet(l) = {Head(l)} \cup LegSet(Tail(l))
  <1>1. LegSet(<< >>) = {}
    BY DEF LegSet
  <1>2. LegSet(<<"tp">>) = {"tp"} /\ LegSet(<<"tp2">>) = {"tp2"}
    BY DEF LegSet
  <1>3. LegSet(<<"tp1", "tp2">>) = {"tp1", "tp2"}
    BY DEF LegSet
  <1>4. /\ Tail(<<"tp">>) = << >> /\ Tail(<<"tp2">>) = << >> /\ Tail(<<"tp1", "tp2">>) = <<"tp2">>
        /\ Head(<<"tp">>) = "tp" /\ Head(<<"tp2">>) = "tp2" /\ Head(<<"tp1", "tp2">>) = "tp1"
    OBVIOUS
  <1>5. \A p : \A n \in DOMAIN TpLegs(p) : TpLegs(p)[n] \in LegSet(TpLegs(p))
    BY DEF LegSet
  <1>6. \A p : LegSet(TpLegs(p)) \subseteq Targets
    BY <1>2, <1>3 DEF TpLegs, Targets
  <1>7. ASSUME NEW l \in LegLists, l # << >>
        PROVE  Head(l) \in Targets /\ LegSet(l) = {Head(l)} \cup LegSet(Tail(l))
    BY <1>1, <1>2, <1>3, <1>4, <1>7 DEF LegLists, Targets
  <1>. QED
    BY <1>1, <1>5, <1>6, <1>7

\* Where an opening plan is on its way, and what the step relies on.
LEMMA OnTheWay ==
  ASSUME TypeInv, proc.pc \in OpenPCs
  PROVE  /\ proc.plan.action = "OPEN" /\ proc.plan.ts \in Candles
         /\ proc.pc = "tp_save" => proc.legs # << >>
         /\ proc \in Procs /\ proc.legs \in LegLists
  BY StateFacts DEF PlanFits

\* Targets stay known to be placed or still to be placed.
LEMMA TargetsKept ==
  ASSUME ProtectInv, Grown, proc'.plan = proc.plan, NEW c, c = proc.plan.ts,
         proc.pc \in {"tp", "tp_save"} /\ proc.errs = {},
         \A leg : leg \in LegSet(proc.legs) =>
             leg \in LegSet(proc'.legs) \/ HasAccepted(IdOf(c, leg))'
  PROVE  TargetsDone'
  <1>1. \A leg \in LegSet(TpLegs(proc.plan)) :
            leg \in LegSet(proc.legs) \/ HasAccepted(IdOf(c, leg))
    BY DEF ProtectInv, TargetsDone
  <1>2. \A leg \in LegSet(TpLegs(proc'.plan)) :
            leg \in LegSet(proc'.legs) \/ HasAccepted(IdOf(c, leg))'
    BY <1>1, GrownKeeps
  <1>. QED
    BY <1>2 DEF TargetsDone, HasAccepted

LEMMA EntryKeeps == ASSUME TypeInv, ProtectInv, EntryStep PROVE ProtectInv'
  <1>1. proc.pc = "entry" /\ UNCHANGED tradeIds
    BY DEF EntryStep, At, disk
  <1>2. proc.plan.action = "OPEN" /\ EntryOrder(proc.plan) \in Orders /\ proc \in Procs
    BY <1>1, OnTheWay, OrderTypes, StateFacts DEF OpenPCs
  <1>3. report' = report \/ ~report'.executed
    BY DEF EntryStep, PostAnswered, Retry, Return
  <1>4. CASE PostAnswered(EntryOrder(proc.plan), "fill")
    <2>1. /\ proc'.pc = "fill" /\ proc'.plan = proc.plan /\ proc'.order = Len(orders) + 1
      BY <1>2, <1>4 DEF PostAnswered, Procs
    <2>2. EntryOrder(proc.plan).id = IdOf(proc.plan.ts, "entry")
      BY <1>2 DEF EntryOrder, PlanId
    <2>3. Grown /\ Polled'
      BY <1>2, <1>4, <2>1, <2>2, AcceptedGrown DEF PostAnswered, Polled
    <2>4. (EntryDone /\ StopDone /\ TargetsDone /\ TargetPlaced)'
      BY <2>1 DEF EntryDone, StopDone, TargetsDone, TargetPlaced
    <2>5. KnownTargets' /\ ExecutedMeansProtected'
      BY <1>1, <1>3, <2>3, StoreKept, GrownKeeps, ReportKeeps
      DEF ProtectInv, KnownTargets, NoNewTarget
    <2>. QED
      BY <2>3, <2>4, <2>5 DEF ProtectInv
  <1>5. CASE /\ PostUnanswered(EntryOrder(proc.plan))
             /\ Retry \/ Return(FALSE, "entry_order_failed", proc.errs)
    <2>1. Grown
      BY <1>2, <1>5, AcceptedGrown, SameGrown DEF PostUnanswered
    <2>2. proc'.pc \notin Watched
      BY <1>1, <1>2, <1>5, ReturnIsIdle DEF Retry, Procs, Watched
    <2>. QED
      BY <1>1, <1>3, <2>1, <2>2, StoreKept, ElsewhereKeeps
  <1>. QED
    BY <1>4, <1>5 DEF EntryStep

LEMMA FillKeeps == ASSUME TypeInv, ProtectInv, FillStep PROVE ProtectInv'
  <1>1. proc.pc = "fill" /\ UNCHANGED <<orders, tradeIds>> /\ proc \in Procs
    BY StateFacts DEF FillStep, PollInconclusive, NotFilled, At, exchange, disk
  <1>2. report' = report \/ ~report'.executed
    BY DEF FillStep, PollInconclusive, NotFilled, Return
  <1>3. KnownTargets' /\ ExecutedMeansProtected' /\ Grown
    BY <1>1, <1>2, SameGrown, StoreKept, GrownKeeps, ReportKeeps
    DEF ProtectInv, KnownTargets, NoNewTarget
  <1>4. CASE Filled /\ proc' = [proc EXCEPT !.pc = "sl", !.attempt = 1]
    <2>1. proc'.pc = "sl" /\ proc'.plan = proc.plan
      BY <1>1, <1>4 DEF Procs
    <2>2. FilledEntry(proc.plan.ts)
      BY <1>1, <1>4 DEF Filled, PollReads, ProtectInv, Polled, FilledEntry
    <2>3. EntryDone'
      BY <1>1, <2>1, <2>2 DEF EntryDone, FilledEntry
    <2>. QED
      BY <1>3, <2>1, <2>3 DEF ProtectInv, Polled, StopDone, TargetsDone, TargetPlaced
  <1>5. CASE PollInconclusive
    <2>1. proc'.pc = "fill" /\ proc'.plan = proc.plan /\ proc'.order = proc.order
      BY <1>1, <1>5 DEF PollInconclusive, Procs
    <2>2. Polled'
      BY <1>1, <2>1 DEF ProtectInv, Polled
    <2>. QED
      BY <1>3, <2>1, <2>2 DEF ProtectInv, EntryDone, StopDone, TargetsDone, TargetPlaced
  <1>6. CASE NotFilled("entry_not_filled")
    BY <1>1, <1>2, <1>3, <1>6, ReturnIsIdle, StoreKept, ElsewhereKeeps DEF NotFilled, Watched
  <1>. QED
    BY <1>4, <1>5, <1>6 DEF FillStep

LEMMA SlKeeps == ASSUME TypeInv, ProtectInv, SlStep PROVE ProtectInv'
  <1>. DEFINE o == StopOrder(IdOf(proc.plan.ts, "sl"), Opposite(proc.plan.side))
  <1>1. proc.pc = "sl" /\ UNCHANGED <<tradeIds, report>>
    BY DEF SlStep, PostAnswered, Retry, Skip, At, disk
  <1>2. o \in Orders /\ o.id = IdOf(proc.plan.ts, "sl") /\ proc \in Procs
    BY <1>1, OpenIds, StateFacts DEF OpenPCs, StopOrder
  <1>3. FilledEntry(proc.plan.ts)
    BY <1>1 DEF ProtectInv, EntryDone
  <1>4. Grown /\ proc'.plan = proc.plan
    BY <1>2, AcceptedGrown, SameGrown DEF SlStep, PostAnswered, PostUnanswered, Retry, Skip, Procs
  <1>5. KnownTargets' /\ ExecutedMeansProtected'
    BY <1>1, <1>4, StoreKept, GrownKeeps, ReportKeeps DEF ProtectInv, KnownTargets, NoNewTarget
  <1>6. EntryDone'
    BY <1>3, <1>4, GrownKeeps DEF EntryDone, FilledEntry
  <1>7. CASE PostAnswered(o, "sl_save")
    <2>1. proc'.pc = "sl_save" /\ HasAccepted(IdOf(proc.plan.ts, "sl"))'
      BY <1>2, <1>7, AcceptedGrown DEF PostAnswered, Procs
    <2>2. StopDone'
      BY <1>4, <2>1 DEF StopDone, HasAccepted
    <2>. QED
      BY <1>5, <1>6, <2>1, <2>2 DEF ProtectInv, Polled, TargetsDone, TargetPlaced
  <1>8. CASE Retry
    <2>1. proc'.pc = "sl"
      BY <1>1, <1>2, <1>8 DEF Retry, Procs
    <2>. QED
      BY <1>5, <1>6, <2>1 DEF ProtectInv, Polled, StopDone, TargetsDone, TargetPlaced
  <1>9. CASE Skip("sl_order_failed", "tp", TpLegs(proc.plan))
    <2>1. proc'.pc = "tp" /\ proc'.errs # {}
      BY <1>2, <1>9 DEF Skip, Procs
    <2>. QED
      BY <1>5, <1>6, <2>1 DEF ProtectInv, Polled, StopDone, TargetsDone, TargetPlaced
  <1>. QED
    BY <1>7, <1>8, <1>9 DEF SlStep

LEMMA SlSaveKeeps == ASSUME TypeInv, ProtectInv, SlSaveStep PROVE ProtectInv'
  <1>1. /\ proc.pc = "sl_save" /\ UNCHANGED <<orders, report>> /\ proc \in Procs
        /\ tradeIds' = Saved(IdOf(proc.plan.ts, "sl"), proc.plan.price)
    BY StateFacts DEF SlSaveStep, SaveStep, At, exchange
  <1>2. /\ proc'.pc = "tp" /\ proc'.plan = proc.plan /\ proc'.legs = TpLegs(proc.plan)
        /\ proc'.errs = proc.errs
    BY <1>1 DEF SlSaveStep, SaveStep, Procs
  <1>3. NoNewTarget
    BY <1>1 DEF NoNewTarget, Known, Saved, IdOf, Targets
  <1>4. KnownTargets' /\ ExecutedMeansProtected'
    BY <1>1, <1>3, SameGrown, GrownKeeps, ReportKeeps DEF ProtectInv, KnownTargets, NoNewTarget
  <1>5. EntryDone' /\ StopDone'
    BY <1>1, <1>2 DEF ProtectInv, EntryDone, StopDone, FilledEntry, HasAccepted
  <1>6. TargetsDone'
    BY <1>2 DEF TargetsDone
  <1>. QED
    BY <1>2, <1>4, <1>5, <1>6 DEF ProtectInv, Polled, TargetPlaced

LEMMA TpKeeps == ASSUME TypeInv, ProtectInv, TpStep PROVE ProtectInv'
  <1>. DEFINE o == TpOrder(proc.plan, Head(proc.legs))
  <1>1. proc.pc = "tp" /\ proc.legs # << >> /\ UNCHANGED <<tradeIds, report>>
    BY DEF TpStep, PostAnswered, Retry, Skip, At, disk
  <1>2. /\ o \in Orders /\ o.id = IdOf(proc.plan.ts, Head(proc.legs)) /\ proc \in Procs
        /\ proc.plan.ts \in Candles
    BY <1>1, OpenIds, OnTheWay DEF OpenPCs, TpOrder
  <1>3. Head(proc.legs) \in Targets /\ LegSet(proc.legs) = {Head(proc.legs)} \cup LegSet(Tail(proc.legs))
    BY <1>1, LegSets, StateFacts
  <1>4. Grown /\ proc'.plan = proc.plan /\ proc'.pc \in {"tp", "tp_save"}
    BY <1>1, <1>2, AcceptedGrown, SameGrown
    DEF TpStep, PostAnswered, PostUnanswered, Retry, Skip, Procs, exchange
  <1>5. KnownTargets' /\ ExecutedMeansProtected'
    BY <1>1, <1>4, StoreKept, GrownKeeps, ReportKeeps DEF ProtectInv, KnownTargets, NoNewTarget
  <1>6. EntryDone'
    BY <1>1, <1>4, GrownKeeps DEF ProtectInv, EntryDone, FilledEntry
  <1>7. Polled'
    BY <1>4 DEF Polled
  <1>8. proc'.errs = {} => proc.errs = {}
    <2>1. PostAnswered(o, "tp_save") \/ Retry => proc'.errs = proc.errs
      BY <1>2 DEF PostAnswered, Retry, Procs
    <2>2. Skip("tp_order_failed", "tp", Tail(proc.legs)) => proc'.errs # {}
      BY <1>2 DEF Skip, Procs
    <2>3. proc' = [proc EXCEPT !.legs = Tail(@)] => proc'.errs = proc.errs
      BY <1>2 DEF Procs
    <2>. QED
      BY <2>1, <2>2, <2>3 DEF TpStep
  <1>9. StopDone'
    BY <1>1, <1>4, <1>8, GrownKeeps DEF ProtectInv, StopDone, HasAccepted
  <1>10. CASE Known(Leg) /\ proc' = [proc EXCEPT !.legs = Tail(@)]
    <2>1. proc'.pc = "tp" /\ proc'.legs = Tail(proc.legs)
      BY <1>1, <1>2, <1>10 DEF Procs
    <2>2. PICK c \in Candles, head \in Targets : c = proc.plan.ts /\ head = Head(proc.legs)
      BY <1>2, <1>3
    <2>3. HasAccepted(IdOf(c, head))'
      BY <1>4, <1>10, <2>2, GrownKeeps DEF ProtectInv, KnownTargets, Leg
    <2>4. \A leg : leg \in LegSet(proc.legs) =>
             leg \in LegSet(proc'.legs) \/ HasAccepted(IdOf(c, leg))'
      BY <1>3, <2>1, <2>2, <2>3
    <2>5. proc'.errs = {} => TargetsDone'
      BY <1>1, <1>4, <1>8, <2>2, <2>4, TargetsKept
    <2>. QED
      BY <1>5, <1>6, <1>7, <1>9, <2>1, <2>5 DEF ProtectInv, TargetsDone, TargetPlaced
  <1>11. CASE PostAnswered(o, "tp_save")
    <2>1. proc'.pc = "tp_save" /\ proc'.legs = proc.legs
      BY <1>2, <1>11 DEF PostAnswered, Procs
    <2>2. HasAccepted(IdOf(proc.plan.ts, Head(proc.legs)))'
      BY <1>2, <1>11, AcceptedGrown DEF PostAnswered
    <2>3. TargetPlaced'
      BY <1>4, <2>1, <2>2 DEF TargetPlaced, HasAccepted
    <2>4. proc'.errs = {} => TargetsDone'
      BY <1>1, <1>4, <1>8, <2>1, TargetsKept
    <2>. QED
      BY <1>5, <1>6, <1>7, <1>9, <2>3, <2>4 DEF ProtectInv, TargetsDone
  <1>12. CASE Retry
    <2>1. proc'.pc = "tp" /\ proc'.legs = proc.legs
      BY <1>1, <1>2, <1>12 DEF Retry, Procs
    <2>2. proc'.errs = {} => TargetsDone'
      BY <1>1, <1>4, <1>8, <2>1, TargetsKept
    <2>. QED
      BY <1>5, <1>6, <1>7, <1>9, <2>1, <2>2 DEF ProtectInv, TargetsDone, TargetPlaced
  <1>13. CASE Skip("tp_order_failed", "tp", Tail(proc.legs))
    <2>1. proc'.pc = "tp" /\ proc'.errs # {}
      BY <1>2, <1>13 DEF Skip, Procs
    <2>. QED
      BY <1>5, <1>6, <1>7, <1>9, <2>1 DEF ProtectInv, TargetsDone, TargetPlaced
  <1>. QED
    BY <1>10, <1>11, <1>12, <1>13 DEF TpStep

LEMMA TpSaveKeeps == ASSUME TypeInv, ProtectInv, TpSaveStep PROVE ProtectInv'
  <1>1. /\ proc.pc = "tp_save" /\ UNCHANGED <<orders, report>> /\ proc \in Procs
        /\ tradeIds' = Saved(Leg, proc.plan.price)
    BY StateFacts DEF TpSaveStep, SaveStep, At, exchange
  <1>2. /\ proc'.pc = "tp" /\ proc'.plan = proc.plan /\ proc'.legs = Tail(proc.legs)
        /\ proc'.errs = proc.errs
    BY <1>1 DEF TpSaveStep, SaveStep, Procs
  <1>3. LegSet(proc.legs) = {Head(proc.legs)} \cup LegSet(Tail(proc.legs))
    BY <1>1, OnTheWay, LegSets DEF OpenPCs
  <1>4. PICK c, head : c = proc.plan.ts /\ head = Head(proc.legs) /\ HasAccepted(IdOf(c, head))'
    BY <1>1 DEF ProtectInv, TargetPlaced, HasAccepted
  <1>5. KnownTargets'
    <2>1. \A id : Known(id)' => Known(id) \/ id = Leg
      BY <1>1 DEF Known, Saved
    <2>. SUFFICES ASSUME NEW d \in Candles, NEW leg \in Targets, Known(IdOf(d, leg))'
                  PROVE  HasAccepted(IdOf(d, leg))'
      BY DEF KnownTargets
    <2>2. CASE Known(IdOf(d, leg))
      BY <1>1, <2>2 DEF ProtectInv, KnownTargets, HasAccepted
    <2>3. CASE IdOf(d, leg) = Leg
      BY <1>1, <2>3 DEF ProtectInv, TargetPlaced, HasAccepted, Leg
    <2>. QED
      BY <2>1, <2>2, <2>3
  <1>6. ExecutedMeansProtected'
    BY <1>1, SameGrown, ReportKeeps DEF ProtectInv
  <1>7. EntryDone' /\ StopDone'
    BY <1>1, <1>2 DEF ProtectInv, EntryDone, StopDone, FilledEntry, HasAccepted
  <1>8. TargetsDone'
    <2>1. \A leg : leg \in LegSet(proc.legs) =>
             leg \in LegSet(proc'.legs) \/ HasAccepted(IdOf(c, leg))'
      BY <1>2, <1>3, <1>4
    <2>2. proc.errs = {} => TargetsDone'
      BY <1>1, <1>2, <1>4, <2>1, SameGrown, TargetsKept
    <2>. QED
      BY <1>2, <2>2 DEF TargetsDone
  <1>. QED
    BY <1>2, <1>5, <1>6, <1>7, <1>8 DEF ProtectInv, Polled, TargetPlaced

LEMMA OpenDoneKeeps == ASSUME TypeInv, ProtectInv, OpenDone PROVE ProtectInv'
  <1>1. /\ proc.pc = "tp" /\ proc.legs = << >> /\ UNCHANGED <<orders, tradeIds>>
        /\ proc'.pc = "idle" /\ report'.plan = proc.plan
        /\ report'.executed => proc.errs = {}
    BY ReturnIsIdle DEF OpenDone, At, Return, exchange, disk
  <1>2. Grown /\ NoNewTarget /\ proc'.pc \notin Watched
    BY <1>1, SameGrown, StoreKept DEF Watched
  <1>3. CASE ~report'.executed
    BY <1>2, <1>3, ElsewhereKeeps
  <1>4. CASE report'.executed
    <2>1. /\ FilledEntry(proc.plan.ts) /\ HasAccepted(IdOf(proc.plan.ts, "sl"))
          /\ \A leg \in LegSet(TpLegs(proc.plan)) : HasAccepted(IdOf(proc.plan.ts, leg))
      BY <1>1, <1>4, LegSets DEF ProtectInv, EntryDone, StopDone, TargetsDone
    <2>2. \A n \in DOMAIN TpLegs(proc.plan) : HasAccepted(IdOf(proc.plan.ts, TpLegs(proc.plan)[n]))
      BY <2>1, LegSets
    <2>3. ExecutedMeansProtected'
      BY <1>1, <2>1, <2>2 DEF ExecutedMeansProtected, FilledEntry, HasAccepted
    <2>4. KnownTargets'
      BY <1>1 DEF ProtectInv, KnownTargets, Known, HasAccepted
    <2>. QED
      BY <1>1, <2>3, <2>4
      DEF ProtectInv, Polled, EntryDone, StopDone, TargetsDone, TargetPlaced
  <1>. QED
    BY <1>3, <1>4

-----------------------------------------------------------------------------
(* The theorem *)

LEMMA ProtectInit == Init => ProtectInv
  BY DEF Init, ProtectInv, Polled, EntryDone, StopDone, TargetsDone, TargetPlaced, KnownTargets,
         ExecutedMeansProtected, Idle, NoReport, Known, EmptyStore

LEMMA ProtectStep == TypeInv /\ ProtectInv /\ [Next]_vars => ProtectInv'
  <1>. SUFFICES ASSUME TypeInv, ProtectInv, [Next]_vars PROVE ProtectInv'
    OBVIOUS
  <1>1. CASE UNCHANGED vars
    BY <1>1, SameGrown, StoreKept, SameCallKeeps DEF vars
  <1>. QED
    BY <1>1, ClaimKeeps, OtherStepsKeep, UpdSaveKeeps, CancelKeeps, ExchangeKeeps, EntryKeeps,
       FillKeeps, SlKeeps, SlSaveKeeps, TpKeeps, TpSaveKeeps, OpenDoneKeeps
    DEF Next, ServiceStep

\* A plan the service reports as executed has its entry filled and its stop and
\* every target accepted, whatever failed or was lost on the way, whatever ids
\* earlier calls and torn files have left, and however many times it was retried.
THEOREM ExecutedIsProtected == Spec => []ExecutedMeansProtected
  <1>1. ProtectInv => ExecutedMeansProtected
    BY DEF ProtectInv
  <1>. QED
    BY <1>1, TypeInit, TypeStep, ProtectInit, ProtectStep, PTL DEF Spec
=============================================================================
