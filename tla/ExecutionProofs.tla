--------------------------- MODULE ExecutionProofs ---------------------------
(***************************************************************************)
(* Proofs about the execution service, for all candles, sides, prices and  *)
(* retry and poll budgets.  First the types, with what each program        *)
(* counter says of the plan in progress; then, from these, that the        *)
(* service keeps the promise of EntryOnce.                                 *)
(***************************************************************************)
EXTENDS ExecutionRefinement, TLAPS, SequenceTheorems

OpenPCs == {"leverage", "entry", "fill", "sl", "sl_save", "tp", "tp_save"}
UpdatePCs == {"upd_position", "upd_orders", "upd_cancel", "upd_save", "upd_place"}
ClosePCs == {"close", "close_fill"}

\* Plans of a kind, as far as the steps of its execution rely on it.
PlanFits ==
    /\ proc.pc \in OpenPCs =>
           proc.plan.action = "OPEN" /\ proc.plan.ts \in Candles /\ proc.plan.price \in Prices
           /\ proc.plan.qty = Lot
    /\ proc.pc \in ClosePCs => proc.plan.action = "CLOSE" /\ proc.plan.ts \in Candles
    /\ proc.pc \in UpdatePCs =>
           proc.plan.action = "UPDATE_SLTP" /\ proc.plan.ts \in Candles
           /\ proc.plan.price \in Prices
    /\ proc.pc = "tp_save" => proc.legs # << >>

TypeInv == TypeOK /\ PlanFits

-----------------------------------------------------------------------------
(* What the steps are made of *)

LEMMA IdleType == Idle \in Procs /\ NoReport \in Reports /\ NoPlan \in Plans
  BY DEF Idle, NoReport, NoPlan, Procs, Reports, Plans, PCs, LegLists, Reasons

LEMMA OrderTypes ==
  ASSUME NEW p \in Plans, p.ts \in Candles
  PROVE  /\ p.action \in {"OPEN", "CLOSE"} => EntryOrder(p) \in Orders /\ CloseOrder(p) \in Orders
         /\ \A leg \in Legs, side \in {"BUY", "SELL"} :
                StopOrder(IdOf(p.ts, leg), side) \in Orders
         /\ \A leg \in {"tp", "tp1", "tp2"} : p.qty = Lot => TpOrder(p, leg) \in Orders
  BY LotAssumption DEF Plans, EntryOrder, CloseOrder, StopOrder, TpOrder, Orders, PlanId, IdOf, Ids,
      Legs, Statuses, Opposite

\* Saving an id keeps the store a store.
LEMMA SavedType ==
  ASSUME TypeOK, NEW id \in Ids, NEW hash \in Hashes
  PROVE  /\ DOMAIN Saved(id, hash) = DOMAIN tradeIds \cup {id}
         /\ DOMAIN Saved(id, hash) \subseteq Ids
         /\ Saved(id, hash) \in [DOMAIN Saved(id, hash) -> Hashes]
  BY DEF TypeOK, Saved

LEMMA EmptyStoreType == DOMAIN EmptyStore = {} /\ EmptyStore \in [DOMAIN EmptyStore -> Hashes]
  BY DEF EmptyStore

\* An order the exchange takes is the last of its list.
LEMMA AcceptedType ==
  ASSUME orders \in Seq(Orders), NEW o \in Orders, Accepted(o)
  PROVE  /\ orders' \in Seq(Orders)
         /\ DOMAIN orders' = DOMAIN orders \cup {Len(orders) + 1}
         /\ \A i \in DOMAIN orders : orders'[i] = orders[i]
         /\ orders'[Len(orders) + 1] = o
  BY AppendProperties DEF Accepted

\* Changing the status of an order changes nothing else.
LEMMA StatusType ==
  ASSUME orders \in Seq(Orders), NEW i \in DOMAIN orders, NEW s \in Statuses,
         orders' = [orders EXCEPT ![i].status = s]
  PROVE  /\ orders' \in Seq(Orders)
         /\ DOMAIN orders' = DOMAIN orders
         /\ \A j \in DOMAIN orders : orders'[j].id = orders[j].id
  <1>. DEFINE e == [orders[i] EXCEPT !.status = s]
  <1>1. i \in 1 .. Len(orders) /\ orders[i] \in Orders
    OBVIOUS
  <1>2. e \in Orders /\ e.id = orders[i].id
    BY <1>1 DEF Orders
  <1>3. orders' = [orders EXCEPT ![i] = e]
    BY <1>1
  <1>. HIDE DEF e
  <1>4. /\ orders' \in Seq(Orders)
        /\ Len(orders') = Len(orders)
        /\ \A j \in 1 .. Len(orders) : orders'[j] = IF j = i THEN e ELSE orders[j]
    BY <1>1, <1>2, <1>3, ExceptSeq
  <1>. QED
    BY <1>1, <1>2, <1>4

LEMMA LegFacts ==
  /\ << >> \in LegLists
  /\ \A p : TpLegs(p) \in LegLists /\ TpLegs(p) # << >>
  /\ \A l \in LegLists : l # << >> => Head(l) \in {"tp", "tp1", "tp2"} /\ Tail(l) \in LegLists
  <1>1. Tail(<<"tp">>) = << >> /\ Tail(<<"tp2">>) = << >> /\ Tail(<<"tp1", "tp2">>) = <<"tp2">>
    OBVIOUS
  <1>2. Head(<<"tp">>) = "tp" /\ Head(<<"tp2">>) = "tp2" /\ Head(<<"tp1", "tp2">>) = "tp1"
    OBVIOUS
  <1>. QED
    BY <1>1, <1>2 DEF LegLists, TpLegs

LEMMA PlanTypes ==
  /\ \A p \in OpenPlans \cup ClosePlans \cup UpdatePlans :
         /\ p \in Plans /\ p.ts \in Candles
         /\ p.action = "OPEN" => p.price \in Prices /\ p.qty = Lot
         /\ p.action = "UPDATE_SLTP" => p.price \in Prices
  /\ \A p \in Plans : PlanId(p) = IdOf(p.ts, "entry") \/ PlanId(p) = IdOf(p.ts, "close")
                      \/ PlanId(p) = IdOf(p.ts, "sltp")
  <1>1. \A p \in OpenPlans : p \in Plans /\ p.ts \in Candles /\ p.price \in Prices /\ p.qty = Lot
    BY LotAssumption, SidesAssumption DEF OpenPlans, Plans
  <1>2. \A p \in ClosePlans : p \in Plans /\ p.ts \in Candles /\ p.action = "CLOSE"
    BY LotAssumption DEF ClosePlans, Plans, Opposite
  <1>3. ASSUME NEW p \in UpdatePlans
        PROVE  /\ p \in Plans
               /\ p.ts \in Candles /\ p.action = "UPDATE_SLTP" /\ p.price \in Prices
    <2>1. PICK c \in Candles, v \in Prices :
              p = [action |-> "UPDATE_SLTP", ts |-> c, side |-> "BUY", qty |-> 0,
                   split |-> FALSE, price |-> v]
      BY Zenon DEF UpdatePlans
    <2>. QED
      BY <2>1 DEF Plans
  <1>4. \A p \in Plans : PlanId(p) = IdOf(p.ts, "entry") \/ PlanId(p) = IdOf(p.ts, "close")
                          \/ PlanId(p) = IdOf(p.ts, "sltp")
    BY DEF PlanId, IdOf
  <1>. QED
    BY <1>1, <1>2, <1>3, <1>4

-----------------------------------------------------------------------------
(* The types are an invariant *)

LEMMA TypeInit == Init => TypeInv
  <1>. SUFFICES ASSUME Init PROVE TypeInv
    OBVIOUS
  <1>1. DOMAIN tradeIds \subseteq Ids /\ tradeIds \in [DOMAIN tradeIds -> Hashes]
    BY EmptyStoreType DEF Init
  <1>2. killed \in BOOLEAN
    BY DEF Init
  <1>5. pos \in Int /\ orders \in Seq(Orders)
    BY EmptySeq DEF Init
  <1>3. proc \in Procs /\ report \in Reports /\ flags \in FlagSets
    BY IdleType DEF Init
  <1>4. PlanFits
    BY DEF Init, PlanFits, Idle, OpenPCs, ClosePCs, UpdatePCs
  <1>. QED
    BY <1>1, <1>2, <1>3, <1>4, <1>5 DEF Init, TypeInv, TypeOK

\* A call begins, or returns at once.
LEMMA CallType ==
  ASSUME TypeInv, CallAny
  PROVE  TypeInv'
  <1>1. PICK p \in Plans :
           /\ Call(p)
           /\ p.ts \in Candles
           /\ p.action = "OPEN" => p.price \in Prices /\ p.qty = Lot
           /\ p.action = "UPDATE_SLTP" => p.price \in Prices
    BY PlanTypes DEF CallAny
  <1>2. PlanId(p) \in Ids /\ p \in Hashes
    BY <1>1, PlanTypes DEF IdOf, Ids, Legs, Hashes
  <1>3. ASSUME NEW pc \in PCs, Begin(p, pc)
        PROVE  /\ proc' \in Procs /\ report' \in Reports
               /\ proc'.pc = pc /\ proc'.plan = p /\ proc'.legs = << >>
               /\ UNCHANGED <<exchange, flags, history>>
    BY <1>3, IdleType DEF Begin, Procs, Idle
  <1>4. ASSUME NEW reason \in Reasons, ReturnAtOnce(p, reason)
        PROVE  report' \in Reports /\ UNCHANGED <<proc, exchange, flags, history>>
    BY <1>4 DEF ReturnAtOnce, Reports
  <1>5. DOMAIN tradeIds' \subseteq Ids /\ tradeIds' \in [DOMAIN tradeIds' -> Hashes]
    <2>1. tradeIds' \in {tradeIds, Saved(PlanId(p), p)}
      BY <1>1 DEF Call, CallReadonly, CallSafeRun, CallUpdate, CallDuplicate, CallDryRun,
                  CallClose, CallOpen, CallKnown, disk
    <2>2. CASE tradeIds' = tradeIds
      BY <2>2 DEF TypeInv, TypeOK
    <2>3. CASE tradeIds' = Saved(PlanId(p), p)
      BY <2>3, <1>2, SavedType DEF TypeInv
    <2>. QED
      BY <2>1, <2>2, <2>3
  <1>6. killed' \in BOOLEAN
    BY <1>1 DEF Call, CallReadonly, CallSafeRun, CallUpdate, CallDuplicate, CallDryRun,
                  CallClose, CallOpen, CallKnown, disk, TypeInv, TypeOK
  <1>7. /\ UNCHANGED <<exchange, flags, history>>
        /\ proc' \in Procs /\ report' \in Reports /\ PlanFits'
    <2>1. CASE CallReadonly(p)
      BY <2>1, <1>4 DEF CallReadonly, Reasons, TypeInv, TypeOK, PlanFits
    <2>2. CASE CallSafeRun(p)
      BY <2>2, <1>4 DEF CallSafeRun, Reasons, TypeInv, TypeOK, PlanFits
    <2>3. CASE CallUpdate(p)
      <3>1. CASE Begin(p, "upd_position")
        BY <2>3, <3>1, <1>1, <1>3 DEF CallUpdate, PCs, PlanFits, OpenPCs, ClosePCs, UpdatePCs
      <3>2. CASE CallKnown(p, IdOf(p.ts, "update_sl"), p.price)
        BY <3>2, <1>4 DEF CallKnown, Reasons, TypeInv, TypeOK, PlanFits
      <3>. QED
        BY <2>3, <3>1, <3>2 DEF CallUpdate
    <2>4. CASE CallDuplicate(p)
      BY <2>4, <1>4 DEF CallDuplicate, CallKnown, Reasons, TypeInv, TypeOK, PlanFits
    <2>5. CASE CallDryRun(p)
      BY <2>5, <1>4 DEF CallDryRun, Reasons, TypeInv, TypeOK, PlanFits
    <2>6. CASE CallClose(p)
      BY <2>6, <1>1, <1>3 DEF CallClose, PCs, PlanFits, OpenPCs, ClosePCs, UpdatePCs
    <2>7. CASE CallOpen(p)
      BY <2>7, <1>1, <1>3 DEF CallOpen, PCs, PlanFits, OpenPCs, ClosePCs, UpdatePCs
    <2>. QED
      BY <1>1, <2>1, <2>2, <2>3, <2>4, <2>5, <2>6, <2>7 DEF Call
  <1>. QED
    BY <1>5, <1>6, <1>7 DEF TypeInv, TypeOK, exchange, history

\* What the steps of one call share: it stays in the call, or returns.
LEMMA StepTypes ==
  ASSUME TypeInv
  PROVE  /\ \A executed \in BOOLEAN, reason \in Reasons, errs \in SUBSET Errors :
                Return(executed, reason, errs) =>
                    proc' \in Procs /\ proc'.pc = "idle" /\ report' \in Reports
         /\ Retry => /\ proc' \in Procs /\ report' \in Reports
                     /\ proc'.pc = proc.pc /\ proc'.plan = proc.plan /\ proc'.legs = proc.legs
         /\ \A o \in Orders, pc \in PCs :
                PostAnswered(o, pc) =>
                    /\ proc' \in Procs /\ proc'.pc = pc /\ proc'.plan = proc.plan
                    /\ proc'.legs = proc.legs
                    /\ orders' \in Seq(Orders) /\ pos' \in Int /\ report' \in Reports
         /\ \A o \in Orders :
                PostUnanswered(o) => orders' \in Seq(Orders) /\ pos' \in Int
         /\ \A error \in Errors, pc \in PCs, legs \in LegLists :
                Skip(error, pc, legs) =>
                    /\ proc' \in Procs /\ proc'.pc = pc /\ proc'.plan = proc.plan
                    /\ proc'.legs = legs /\ report' \in Reports
         /\ \A id \in Ids, pc \in PCs, legs \in LegLists :
                proc.plan.price \in Prices /\ SaveStep(id, pc, legs) =>
                    /\ proc' \in Procs /\ proc'.pc = pc /\ proc'.plan = proc.plan
                    /\ proc'.legs = legs
                    /\ DOMAIN tradeIds' \subseteq Ids
                    /\ tradeIds' \in [DOMAIN tradeIds' -> Hashes]
                    /\ UNCHANGED <<killed, exchange, report, flags, history>>
  <1>1. ASSUME NEW executed \in BOOLEAN, NEW reason \in Reasons, NEW errs \in SUBSET Errors,
               Return(executed, reason, errs)
        PROVE  proc' \in Procs /\ proc'.pc = "idle" /\ report' \in Reports
    <2>1. proc' = Idle /\ proc'.pc = "idle"
      BY <1>1 DEF Return, Idle
    <2>2. report' \in Reports
      BY <1>1 DEF Return, Reports, TypeInv, TypeOK, Procs
    <2>. QED
      BY <2>1, <2>2, IdleType
  <1>2. ASSUME Retry
        PROVE  /\ proc' \in Procs /\ report' \in Reports
               /\ proc'.pc = proc.pc /\ proc'.plan = proc.plan /\ proc'.legs = proc.legs
    BY <1>2 DEF Retry, Procs, TypeInv, TypeOK
  <1>3. ASSUME NEW o \in Orders, NEW pc \in PCs, PostAnswered(o, pc)
        PROVE  /\ proc' \in Procs /\ proc'.pc = pc /\ proc'.plan = proc.plan
               /\ proc'.legs = proc.legs
               /\ orders' \in Seq(Orders) /\ pos' \in Int /\ report' \in Reports
    <2>1. orders' \in Seq(Orders) /\ Len(orders) \in Nat
      BY <1>3, AcceptedType, LenProperties DEF PostAnswered, TypeInv, TypeOK
    <2>2. proc \in Procs /\ Len(orders) + 1 \in Nat
      BY <2>1 DEF TypeInv, TypeOK
    <2>3. proc' = [proc EXCEPT !.pc = pc, !.attempt = 1, !.order = Len(orders) + 1]
      BY <1>3 DEF PostAnswered
    <2>4. \A n \in Nat : [proc EXCEPT !.pc = pc, !.attempt = 1, !.order = n] \in Procs
      BY <2>2 DEF Procs
    <2>5. /\ proc' \in Procs /\ proc'.pc = pc /\ proc'.plan = proc.plan
          /\ proc'.legs = proc.legs
      BY <2>2, <2>3, <2>4 DEF Procs
    <2>. QED
      BY <1>3, <2>1, <2>5 DEF PostAnswered, TypeInv, TypeOK
  <1>4. ASSUME NEW o \in Orders, PostUnanswered(o)
        PROVE  orders' \in Seq(Orders) /\ pos' \in Int
    BY <1>4, AcceptedType DEF PostUnanswered, TypeInv, TypeOK
  <1>5. ASSUME NEW error \in Errors, NEW pc \in PCs, NEW legs \in LegLists,
               Skip(error, pc, legs)
        PROVE  /\ proc' \in Procs /\ proc'.pc = pc /\ proc'.plan = proc.plan
               /\ proc'.legs = legs /\ report' \in Reports
    BY <1>5 DEF Skip, Procs, TypeInv, TypeOK
  <1>6. ASSUME NEW id \in Ids, NEW pc \in PCs, NEW legs \in LegLists,
               proc.plan.price \in Prices, SaveStep(id, pc, legs)
        PROVE  /\ proc' \in Procs /\ proc'.pc = pc /\ proc'.plan = proc.plan
               /\ proc'.legs = legs
               /\ DOMAIN tradeIds' \subseteq Ids
               /\ tradeIds' \in [DOMAIN tradeIds' -> Hashes]
               /\ UNCHANGED <<killed, exchange, report, flags, history>>
    <2>1. proc.plan.price \in Hashes
      BY <1>6 DEF Hashes
    <2>2. /\ DOMAIN tradeIds' \subseteq Ids
          /\ tradeIds' \in [DOMAIN tradeIds' -> Hashes]
      BY <1>6, <2>1, SavedType DEF SaveStep, TypeInv
    <2>3. /\ proc' \in Procs /\ proc'.pc = pc /\ proc'.plan = proc.plan
          /\ proc'.legs = legs
      BY <1>6 DEF SaveStep, Procs, TypeInv, TypeOK
    <2>. QED
      BY <1>6, <2>2, <2>3 DEF SaveStep
  <1>. QED
    BY <1>1, <1>2, <1>3, <1>4, <1>5, <1>6

\* Whatever ends in the given way keeps the invariant: the call's own state is
\* typed, its plan fits its new program counter, the rest is untouched.
LEMMA StepKeepsType ==
  ASSUME TypeInv,
         proc' \in Procs, report' \in Reports, orders' \in Seq(Orders), pos' \in Int,
         killed' \in BOOLEAN, flags' \in FlagSets,
         DOMAIN tradeIds' \subseteq Ids, tradeIds' \in [DOMAIN tradeIds' -> Hashes],
         posted' \subseteq Candles, reposted' \subseteq Candles,
         PlanFits'
  PROVE  TypeInv'
  BY DEF TypeInv, TypeOK

\* The program counter moves within its kind of call, with the same plan.
LEMMA PlanStillFits ==
  ASSUME TypeInv,
         \/ proc'.pc = "idle"
         \/ /\ proc'.plan = proc.plan
            /\ proc'.pc = "tp_save" => proc'.legs # << >>
            /\ \/ proc.pc \in OpenPCs /\ proc'.pc \in OpenPCs
               \/ proc.pc \in ClosePCs /\ proc'.pc \in ClosePCs
               \/ proc.pc \in UpdatePCs /\ proc'.pc \in UpdatePCs
  PROVE  PlanFits'
  BY DEF TypeInv, PlanFits, OpenPCs, ClosePCs, UpdatePCs

\* Facts of the invariant that every step below relies on.
LEMMA StateFacts ==
  ASSUME TypeInv
  PROVE  /\ proc \in Procs /\ proc.plan \in Plans /\ proc.errs \in SUBSET Errors
         /\ proc.legs \in LegLists /\ report \in Reports
         /\ orders \in Seq(Orders) /\ pos \in Int /\ killed \in BOOLEAN /\ flags \in FlagSets
         /\ DOMAIN tradeIds \subseteq Ids /\ tradeIds \in [DOMAIN tradeIds -> Hashes]
         /\ posted \subseteq Candles /\ reposted \subseteq Candles
         /\ PlanFits
  BY DEF TypeInv, TypeOK, Procs

LEMMA LeverageType == ASSUME TypeInv, LeverageStep PROVE TypeInv'
  <1>1. /\ proc' \in Procs /\ proc'.pc = "entry" /\ proc'.plan = proc.plan
        /\ proc.pc = "leverage"
    <2>1. PICK errs \in SUBSET Errors : proc' = [proc EXCEPT !.pc = "entry", !.errs = errs]
      <3>1. {} \in SUBSET Errors /\ {"set_leverage_failed"} \in SUBSET Errors
        BY DEF Errors
      <3>. QED
        BY <3>1 DEF LeverageStep
    <2>. QED
      BY <2>1, StateFacts DEF LeverageStep, At, Procs, PCs
  <1>2. PlanFits'
    BY <1>1, PlanStillFits DEF OpenPCs
  <1>. QED
    BY <1>1, <1>2, StateFacts, StepKeepsType DEF LeverageStep, disk, exchange, history

LEMMA EntryType == ASSUME TypeInv, EntryStep PROVE TypeInv'
  <1>1. proc.pc = "entry" /\ proc.plan.ts \in Candles /\ proc.plan.action = "OPEN"
    BY StateFacts DEF EntryStep, At, PlanFits, OpenPCs
  <1>2. EntryOrder(proc.plan) \in Orders
    BY <1>1, OrderTypes, StateFacts
  <1>3. /\ proc' \in Procs /\ report' \in Reports /\ orders' \in Seq(Orders) /\ pos' \in Int
        /\ \/ proc'.pc = "idle"
           \/ proc'.pc \in {"entry", "fill"} /\ proc'.plan = proc.plan
    <2>1. CASE PostAnswered(EntryOrder(proc.plan), "fill")
      BY <2>1, <1>2, StepTypes DEF PCs
    <2>2. CASE PostUnanswered(EntryOrder(proc.plan)) /\ Retry
      BY <2>2, <1>1, <1>2, StepTypes
    <2>3. CASE /\ PostUnanswered(EntryOrder(proc.plan))
               /\ Return(FALSE, "entry_order_failed", proc.errs)
      BY <2>3, <1>2, StateFacts, StepTypes DEF Reasons
    <2>. QED
      BY <2>1, <2>2, <2>3 DEF EntryStep
  <1>4. PlanFits'
    BY <1>1, <1>3, PlanStillFits DEF OpenPCs
  <1>5. posted' \subseteq Candles /\ reposted' \subseteq Candles
    BY <1>1, StateFacts DEF EntryStep, NoteEntryRequest, history
  <1>. QED
    BY <1>3, <1>4, <1>5, StateFacts, StepKeepsType DEF EntryStep, disk

\* A poll of either kind of order.
LEMMA PollType ==
  ASSUME TypeInv, NEW reason \in Reasons,
         PollInconclusive \/ NotFilled(reason)
  PROVE  /\ proc' \in Procs /\ report' \in Reports
         /\ \/ proc'.pc = "idle"
            \/ proc'.pc = proc.pc /\ proc'.plan = proc.plan /\ proc'.legs = proc.legs
         /\ tradeIds' = tradeIds /\ killed' \in BOOLEAN
  <1>1. CASE PollInconclusive
    BY <1>1, StateFacts DEF PollInconclusive, Procs, disk
  <1>2. CASE NotFilled(reason)
    BY <1>2, StateFacts, StepTypes DEF NotFilled
  <1>. QED
    BY <1>1, <1>2

LEMMA FillType == ASSUME TypeInv, FillStep PROVE TypeInv'
  <1>1. proc.pc = "fill" /\ UNCHANGED <<exchange, flags, history>>
    BY DEF FillStep, At
  <1>2. CASE PollInconclusive \/ NotFilled("entry_not_filled")
    <2>1. /\ proc' \in Procs /\ report' \in Reports
          /\ \/ proc'.pc = "idle"
             \/ proc'.pc = proc.pc /\ proc'.plan = proc.plan /\ proc'.legs = proc.legs
          /\ tradeIds' = tradeIds /\ killed' \in BOOLEAN
      BY <1>2, PollType DEF Reasons
    <2>2. PlanFits'
      BY <1>1, <2>1, PlanStillFits DEF OpenPCs
    <2>. QED
      BY <1>1, <2>1, <2>2, StateFacts, StepKeepsType DEF exchange, history
  <1>3. CASE proc' = [proc EXCEPT !.pc = "sl", !.attempt = 1] /\ UNCHANGED <<disk, report>>
    <2>1. proc' \in Procs /\ proc'.pc = "sl" /\ proc'.plan = proc.plan
      BY <1>3, StateFacts DEF Procs, PCs
    <2>2. PlanFits'
      BY <1>1, <2>1, PlanStillFits DEF OpenPCs
    <2>. QED
      BY <1>1, <1>3, <2>1, <2>2, StateFacts, StepKeepsType DEF exchange, history, disk
  <1>. QED
    BY <1>2, <1>3 DEF FillStep

\* The stop order of an opening plan, and the ids its steps save.
LEMMA OpenIds ==
  ASSUME TypeInv, proc.pc \in OpenPCs
  PROVE  /\ StopOrder(IdOf(proc.plan.ts, "sl"), Opposite(proc.plan.side)) \in Orders
         /\ IdOf(proc.plan.ts, "sl") \in Ids
         /\ proc.legs # << >> =>
                /\ TpOrder(proc.plan, Head(proc.legs)) \in Orders
                /\ Leg \in Ids /\ Tail(proc.legs) \in LegLists
         /\ proc.plan.price \in Prices
         /\ TpLegs(proc.plan) \in LegLists
  <1>1. /\ proc.plan \in Plans /\ proc.plan.ts \in Candles /\ proc.plan.qty = Lot
        /\ proc.plan.price \in Prices
    BY StateFacts DEF PlanFits
  <1>2. "sl" \in Legs /\ Opposite(proc.plan.side) \in {"BUY", "SELL"}
    BY DEF Legs, Opposite
  <1>3. proc.legs # << >> => Head(proc.legs) \in {"tp", "tp1", "tp2"} /\ Tail(proc.legs) \in LegLists
    BY StateFacts, LegFacts
  <1>. QED
    BY <1>1, <1>2, <1>3, OrderTypes, LegFacts DEF Leg, IdOf, Ids, Legs

LEMMA SlType == ASSUME TypeInv, SlStep PROVE TypeInv'
  <1>. DEFINE o == StopOrder(IdOf(proc.plan.ts, "sl"), Opposite(proc.plan.side))
  <1>1. proc.pc = "sl" /\ UNCHANGED <<disk, flags, history>>
    BY DEF SlStep, At
  <1>2. o \in Orders /\ TpLegs(proc.plan) \in LegLists
    BY <1>1, OpenIds DEF OpenPCs
  <1>3. \/ PostAnswered(o, "sl_save")
        \/ PostUnanswered(o) /\ Retry
        \/ PostUnanswered(o) /\ Skip("sl_order_failed", "tp", TpLegs(proc.plan))
    BY DEF SlStep
  <1>. HIDE DEF o
  <1>4. /\ proc' \in Procs /\ report' \in Reports /\ orders' \in Seq(Orders) /\ pos' \in Int
        /\ proc'.pc \in {"sl", "sl_save", "tp"} /\ proc'.plan = proc.plan
    BY <1>1, <1>2, <1>3, StepTypes DEF PCs, Errors
  <1>5. PlanFits'
    BY <1>1, <1>4, PlanStillFits DEF OpenPCs
  <1>. QED
    BY <1>1, <1>4, <1>5, StateFacts, StepKeepsType DEF disk, history

LEMMA SlSaveType == ASSUME TypeInv, SlSaveStep PROVE TypeInv'
  <1>1. proc.pc = "sl_save" /\ SaveStep(IdOf(proc.plan.ts, "sl"), "tp", TpLegs(proc.plan))
    BY DEF SlSaveStep, At
  <1>2. /\ proc' \in Procs /\ proc'.pc = "tp" /\ proc'.plan = proc.plan
        /\ DOMAIN tradeIds' \subseteq Ids
        /\ tradeIds' \in [DOMAIN tradeIds' -> Hashes]
        /\ UNCHANGED <<killed, exchange, report, flags, history>>
    BY <1>1, OpenIds, StepTypes DEF OpenPCs, PCs
  <1>3. PlanFits'
    BY <1>1, <1>2, PlanStillFits DEF OpenPCs
  <1>. QED
    BY <1>2, <1>3, StateFacts, StepKeepsType DEF exchange, history

LEMMA TpType == ASSUME TypeInv, TpStep PROVE TypeInv'
  <1>. DEFINE o == TpOrder(proc.plan, Head(proc.legs))
  <1>1. proc.pc = "tp" /\ proc.legs # << >> /\ UNCHANGED <<disk, flags, history>>
    BY DEF TpStep, At
  <1>2. o \in Orders /\ Tail(proc.legs) \in LegLists
    BY <1>1, OpenIds DEF OpenPCs
  <1>3. \/ proc' = [proc EXCEPT !.legs = Tail(@)] /\ UNCHANGED <<exchange, report>>
        \/ PostAnswered(o, "tp_save")
        \/ PostUnanswered(o) /\ Retry
        \/ PostUnanswered(o) /\ Skip("tp_order_failed", "tp", Tail(proc.legs))
    BY DEF TpStep
  <1>. HIDE DEF o
  <1>4. /\ proc' \in Procs /\ report' \in Reports /\ orders' \in Seq(Orders) /\ pos' \in Int
        /\ proc'.pc \in {"tp", "tp_save"} /\ proc'.plan = proc.plan
        /\ proc'.pc = "tp_save" => proc'.legs # << >>
    <2>1. CASE proc' = [proc EXCEPT !.legs = Tail(@)] /\ UNCHANGED <<exchange, report>>
      BY <1>1, <1>2, <2>1, StateFacts DEF Procs, exchange
    <2>2. CASE PostAnswered(o, "tp_save")
      BY <1>1, <1>2, <2>2, StepTypes DEF PCs
    <2>3. CASE PostUnanswered(o) /\ (Retry \/ Skip("tp_order_failed", "tp", Tail(proc.legs)))
      BY <1>1, <1>2, <2>3, StepTypes DEF PCs, Errors
    <2>. QED
      BY <1>3, <2>1, <2>2, <2>3
  <1>5. PlanFits'
    BY <1>1, <1>4, PlanStillFits DEF OpenPCs
  <1>. QED
    BY <1>1, <1>4, <1>5, StateFacts, StepKeepsType DEF disk, history

LEMMA TpSaveType == ASSUME TypeInv, TpSaveStep PROVE TypeInv'
  <1>1. /\ proc.pc = "tp_save" /\ proc.legs # << >>
        /\ SaveStep(Leg, "tp", Tail(proc.legs))
    BY StateFacts DEF TpSaveStep, At, PlanFits
  <1>2. /\ proc' \in Procs /\ proc'.pc = "tp" /\ proc'.plan = proc.plan
        /\ DOMAIN tradeIds' \subseteq Ids
        /\ tradeIds' \in [DOMAIN tradeIds' -> Hashes]
        /\ UNCHANGED <<killed, exchange, report, flags, history>>
    BY <1>1, OpenIds, StepTypes DEF OpenPCs, PCs
  <1>3. PlanFits'
    BY <1>1, <1>2, PlanStillFits DEF OpenPCs
  <1>. QED
    BY <1>2, <1>3, StateFacts, StepKeepsType DEF exchange, history

\* The call returns, and has changed nothing else in this step.
LEMMA ReturnType ==
  ASSUME TypeInv, NEW executed \in BOOLEAN, NEW reason \in Reasons,
         Return(executed, reason, proc.errs) \/ Return(executed, reason, {}),
         tradeIds' = tradeIds, killed' = killed,
         orders' \in Seq(Orders), pos' \in Int, UNCHANGED <<flags, history>>
  PROVE  TypeInv'
  <1>1. proc' \in Procs /\ proc'.pc = "idle" /\ report' \in Reports
    BY StateFacts, StepTypes
  <1>2. PlanFits'
    BY <1>1, PlanStillFits
  <1>. QED
    BY <1>1, <1>2, StateFacts, StepKeepsType DEF history

LEMMA OpenDoneType == ASSUME TypeInv, OpenDone PROVE TypeInv'
  <1>1. \E executed \in BOOLEAN, reason \in Reasons : Return(executed, reason, proc.errs)
    <2>1. (proc.errs = {}) \in BOOLEAN
      OBVIOUS
    <2>2. (IF proc.errs = {} THEN "executed" ELSE "partial_failure") \in Reasons
      BY DEF Reasons
    <2>. QED
      BY <2>1, <2>2 DEF OpenDone
  <1>2. UNCHANGED <<disk, exchange, flags, history>>
    BY DEF OpenDone
  <1>3. orders' \in Seq(Orders) /\ pos' \in Int
    BY <1>2, StateFacts DEF exchange
  <1>. QED
    BY <1>1, <1>2, <1>3, ReturnType DEF disk

LEMMA CloseType == ASSUME TypeInv, CloseStep PROVE TypeInv'
  <1>. DEFINE o == CloseOrder(proc.plan)
  <1>1. /\ proc.pc = "close" /\ UNCHANGED <<disk, flags, history>>
        /\ proc.plan.ts \in Candles /\ proc.plan.action = "CLOSE"
    BY StateFacts DEF CloseStep, At, PlanFits, ClosePCs
  <1>2. o \in Orders
    BY <1>1, OrderTypes, StateFacts
  <1>3. \/ PostAnswered(o, "close_fill")
        \/ PostUnanswered(o) /\ Retry
        \/ PostUnanswered(o) /\ Return(FALSE, "close_order_failed", {})
    BY DEF CloseStep
  <1>. HIDE DEF o
  <1>4. CASE PostUnanswered(o) /\ Return(FALSE, "close_order_failed", {})
    BY <1>1, <1>2, <1>4, StepTypes, ReturnType DEF Reasons, disk
  <1>5. CASE PostAnswered(o, "close_fill") \/ (PostUnanswered(o) /\ Retry)
    <2>1. /\ proc' \in Procs /\ report' \in Reports /\ orders' \in Seq(Orders) /\ pos' \in Int
          /\ proc'.pc \in {"close", "close_fill"} /\ proc'.plan = proc.plan
      BY <1>1, <1>2, <1>5, StepTypes DEF PCs
    <2>2. PlanFits'
      BY <1>1, <2>1, PlanStillFits DEF ClosePCs
    <2>. QED
      BY <1>1, <2>1, <2>2, StateFacts, StepKeepsType DEF disk, history
  <1>. QED
    BY <1>3, <1>4, <1>5

LEMMA CloseFillType == ASSUME TypeInv, CloseFillStep PROVE TypeInv'
  <1>1. proc.pc = "close_fill" /\ UNCHANGED <<exchange, flags, history>>
    BY DEF CloseFillStep, At
  <1>2. CASE Return(TRUE, "executed", {}) /\ UNCHANGED disk
    BY <1>1, <1>2, StateFacts, ReturnType DEF Reasons, disk, exchange
  <1>3. CASE PollInconclusive \/ NotFilled("close_not_filled")
    <2>1. /\ proc' \in Procs /\ report' \in Reports
          /\ \/ proc'.pc = "idle"
             \/ proc'.pc = proc.pc /\ proc'.plan = proc.plan /\ proc'.legs = proc.legs
          /\ tradeIds' = tradeIds /\ killed' \in BOOLEAN
      BY <1>3, PollType DEF Reasons
    <2>2. PlanFits'
      BY <1>1, <2>1, PlanStillFits DEF ClosePCs
    <2>. QED
      BY <1>1, <2>1, <2>2, StateFacts, StepKeepsType DEF exchange, history
  <1>. QED
    BY <1>2, <1>3 DEF CloseFillStep

LEMMA UpdPositionType == ASSUME TypeInv, UpdPositionStep PROVE TypeInv'
  <1>1. proc.pc = "upd_position" /\ UNCHANGED <<disk, exchange, flags, history>>
    BY DEF UpdPositionStep, At
  <1>2. CASE Return(FALSE, "no_position", {})
    BY <1>1, <1>2, StateFacts, ReturnType DEF Reasons, disk, exchange
  <1>3. CASE /\ proc' = [proc EXCEPT !.pc = "upd_orders",
                                     !.side = IF pos > 0 THEN "SELL" ELSE "BUY"]
             /\ UNCHANGED report
    <2>1. proc' \in Procs /\ proc'.pc = "upd_orders" /\ proc'.plan = proc.plan
      BY <1>3, StateFacts DEF Procs, PCs
    <2>2. PlanFits'
      BY <1>1, <2>1, PlanStillFits DEF UpdatePCs
    <2>. QED
      BY <1>1, <1>3, <2>1, <2>2, StateFacts, StepKeepsType DEF disk, exchange, history
  <1>. QED
    BY <1>2, <1>3 DEF UpdPositionStep

LEMMA CancelFailedType ==
  ASSUME TypeInv, CancelFailed
  PROVE  proc' \in Procs /\ proc'.pc = "upd_save" /\ proc'.plan = proc.plan
  <1>1. {"cancel_sl_failed"} \in SUBSET Errors
    BY DEF Errors
  <1>. QED
    BY <1>1, StateFacts DEF CancelFailed, Procs, PCs

LEMMA UpdOrdersType == ASSUME TypeInv, UpdOrdersStep PROVE TypeInv'
  <1>1. /\ proc.pc = "upd_orders"
        /\ UNCHANGED <<disk, exchange, report, flags, history>>
    BY DEF UpdOrdersStep, At
  <1>2. OpenStops \in SUBSET Nat
    BY StateFacts DEF OpenStops
  <1>3. proc' \in Procs /\ proc'.pc \in {"upd_cancel", "upd_save"} /\ proc'.plan = proc.plan
    <2>1. CASE proc' = [proc EXCEPT !.pc = "upd_cancel", !.cancels = OpenStops]
      BY <1>2, <2>1, StateFacts DEF Procs, PCs
    <2>. QED
      BY <2>1, CancelFailedType DEF UpdOrdersStep
  <1>4. PlanFits'
    BY <1>1, <1>3, PlanStillFits DEF UpdatePCs
  <1>. QED
    BY <1>1, <1>3, <1>4, StateFacts, StepKeepsType DEF disk, exchange, history

LEMMA UpdCancelType == ASSUME TypeInv, UpdCancelStep PROVE TypeInv'
  <1>1. proc.pc = "upd_cancel" /\ UNCHANGED <<disk, pos, flags, history>>
    BY DEF UpdCancelStep, At
  <1>2. PICK i \in proc.cancels :
          /\ Cancelled(i) \/ UNCHANGED orders
          /\ \/ /\ proc' = [proc EXCEPT !.attempt = 1, !.cancels = @ \ {i}]
                /\ UNCHANGED report
             \/ Retry
             \/ CancelFailed /\ UNCHANGED report
    BY DEF UpdCancelStep
  <1>3. orders' \in Seq(Orders)
    <2>1. CASE Cancelled(i)
      <3>1. CASE i \in DOMAIN orders
        BY <2>1, <3>1, StateFacts, StatusType DEF Cancelled, Statuses
      <3>2. CASE i \notin DOMAIN orders
        <4>1. orders' = orders
          BY <2>1, <3>2, StateFacts DEF Cancelled
        <4>. QED
          BY <4>1, StateFacts
      <3>. QED
        BY <3>1, <3>2
    <2>. QED
      BY <1>2, <2>1, StateFacts
  <1>4. /\ proc' \in Procs /\ report' \in Reports
        /\ proc'.pc \in {"upd_cancel", "upd_save"} /\ proc'.plan = proc.plan
    <2>1. CASE proc' = [proc EXCEPT !.attempt = 1, !.cancels = @ \ {i}] /\ UNCHANGED report
      BY <1>1, <2>1, StateFacts DEF Procs
    <2>2. CASE Retry
      BY <1>1, <2>2, StepTypes
    <2>3. CASE CancelFailed /\ UNCHANGED report
      BY <2>3, CancelFailedType, StateFacts
    <2>. QED
      BY <1>2, <2>1, <2>2, <2>3
  <1>5. PlanFits'
    BY <1>1, <1>4, PlanStillFits DEF UpdatePCs
  <1>. QED
    BY <1>1, <1>3, <1>4, <1>5, StateFacts, StepKeepsType DEF disk, history

LEMMA UpdCancelDoneType == ASSUME TypeInv, UpdCancelDone PROVE TypeInv'
  <1>1. /\ proc.pc = "upd_cancel"
        /\ UNCHANGED <<disk, exchange, report, flags, history>>
    BY DEF UpdCancelDone, At
  <1>2. proc' \in Procs /\ proc'.pc = "upd_save" /\ proc'.plan = proc.plan
    BY StateFacts DEF UpdCancelDone, Procs, PCs
  <1>3. PlanFits'
    BY <1>1, <1>2, PlanStillFits DEF UpdatePCs
  <1>. QED
    BY <1>1, <1>2, <1>3, StateFacts, StepKeepsType DEF disk, exchange, history

LEMMA UpdSaveType == ASSUME TypeInv, UpdSaveStep PROVE TypeInv'
  <1>1. /\ proc.pc = "upd_save"
        /\ SaveStep(IdOf(proc.plan.ts, "update_sl"), "upd_place", proc.legs)
    BY DEF UpdSaveStep, At
  <1>2. proc.plan.price \in Prices /\ IdOf(proc.plan.ts, "update_sl") \in Ids
    BY <1>1, StateFacts DEF PlanFits, UpdatePCs, IdOf, Ids, Legs
  <1>3. /\ proc' \in Procs /\ proc'.pc = "upd_place" /\ proc'.plan = proc.plan
        /\ DOMAIN tradeIds' \subseteq Ids
        /\ tradeIds' \in [DOMAIN tradeIds' -> Hashes]
        /\ UNCHANGED <<killed, exchange, report, flags, history>>
    BY <1>1, <1>2, StateFacts, StepTypes DEF PCs
  <1>4. PlanFits'
    BY <1>1, <1>3, PlanStillFits DEF UpdatePCs
  <1>. QED
    BY <1>3, <1>4, StateFacts, StepKeepsType DEF exchange, history

LEMMA UpdPlaceType == ASSUME TypeInv, UpdPlaceStep PROVE TypeInv'
  <1>. DEFINE o == StopOrder(IdOf(proc.plan.ts, "update_sl"), proc.side)
  <1>1. proc.pc = "upd_place" /\ UNCHANGED <<disk, flags, history>>
    BY DEF UpdPlaceStep, At
  <1>2. o \in Orders
    BY <1>1, StateFacts, OrderTypes DEF PlanFits, UpdatePCs, Legs, Procs
  <1>3. \/ Accepted(o) /\ Return(TRUE, "executed", proc.errs) /\ UNCHANGED pos
        \/ PostUnanswered(o) /\ Retry
        \/ PostUnanswered(o) /\ Return(FALSE, "update_sl_failed", proc.errs)
    BY DEF UpdPlaceStep
  <1>. HIDE DEF o
  <1>4. orders' \in Seq(Orders) /\ pos' \in Int
    BY <1>2, <1>3, StateFacts, StepTypes, AcceptedType
  <1>5. CASE Return(TRUE, "executed", proc.errs) \/ Return(FALSE, "update_sl_failed", proc.errs)
    BY <1>1, <1>4, <1>5, ReturnType DEF Reasons, disk
  <1>6. CASE Retry
    <2>1. PlanFits'
      BY <1>1, <1>6, StepTypes, PlanStillFits DEF UpdatePCs
    <2>. QED
      BY <1>1, <1>4, <1>6, <2>1, StateFacts, StepTypes, StepKeepsType DEF disk, history
  <1>. QED
    BY <1>3, <1>5, <1>6

LEMMA ExchangeType == ASSUME TypeInv, ExchangeStep PROVE TypeInv'
  <1>1. PICK i \in DOMAIN orders : ExchangeFills(i) \/ ExchangeExpires(i)
    BY DEF ExchangeStep
  <1>2. UNCHANGED <<disk, proc, report, flags, history>>
    BY <1>1 DEF ExchangeFills, ExchangeExpires
  <1>3. orders' \in Seq(Orders)
    BY <1>1, StateFacts, StatusType DEF ExchangeFills, ExchangeExpires, Statuses
  <1>4. pos' \in Int
    <2>1. orders[i] \in Orders /\ pos \in Int
      BY <1>1, StateFacts
    <2>2. \A side, qty : qty \in Nat => Reduced(side, qty) \in Int /\ pos + Signed(side, qty) \in Int
      BY <2>1 DEF Reduced, Signed
    <2>3. CASE ExchangeFills(i)
      <3>1. pos' = 0 \/ pos' = Reduced(orders[i].side, orders[i].qty)
            \/ pos' = pos + Signed(orders[i].side, orders[i].qty)
        BY <2>1, <2>3, Zenon DEF ExchangeFills, Orders
      <3>. QED
        BY <2>1, <2>2, <3>1 DEF Orders
    <2>. QED
      BY <1>1, <2>1, <2>3 DEF ExchangeExpires
  <1>5. PlanFits'
    BY <1>2, StateFacts DEF PlanFits
  <1>. QED
    BY <1>2, <1>3, <1>4, <1>5, StateFacts, StepKeepsType DEF disk, history

LEMMA RestartType == ASSUME TypeInv, Restart \/ RestartTorn PROVE TypeInv'
  <1>1. /\ proc' = Idle /\ report' = NoReport /\ flags' \in FlagSets
        /\ UNCHANGED <<killed, exchange, history>>
        /\ tradeIds' = tradeIds \/ tradeIds' = EmptyStore
    BY DEF Restart, RestartTorn, ProcessRestarts
  <1>2. proc' \in Procs /\ report' \in Reports /\ proc'.pc = "idle"
    BY <1>1, IdleType DEF Idle
  <1>3. DOMAIN tradeIds' \subseteq Ids /\ tradeIds' \in [DOMAIN tradeIds' -> Hashes]
    BY <1>1, StateFacts, EmptyStoreType
  <1>4. PlanFits'
    BY <1>2, PlanStillFits
  <1>. QED
    BY <1>1, <1>2, <1>3, <1>4, StateFacts, StepKeepsType DEF exchange, history

LEMMA KilledType == ASSUME TypeInv, KilledElsewhere PROVE TypeInv'
  <1>1. killed' \in BOOLEAN /\ UNCHANGED <<tradeIds, exchange, proc, report, flags, history>>
    BY DEF KilledElsewhere
  <1>2. PlanFits'
    BY <1>1, StateFacts DEF PlanFits
  <1>. QED
    BY <1>1, <1>2, StateFacts, StepKeepsType DEF exchange, history

LEMMA StutterType == ASSUME TypeInv, UNCHANGED vars PROVE TypeInv'
  BY DEF vars, TypeInv, TypeOK, PlanFits

LEMMA TypeStep == TypeInv /\ [Next]_vars => TypeInv'
  <1>. SUFFICES ASSUME TypeInv, [Next]_vars PROVE TypeInv'
    OBVIOUS
  <1>1. CASE CallAny
    BY <1>1, CallType
  <1>2. CASE ServiceStep
    BY <1>2, LeverageType, EntryType, FillType, SlType, SlSaveType, TpType, TpSaveType,
       OpenDoneType, CloseType, CloseFillType, UpdPositionType, UpdOrdersType,
       UpdCancelType, UpdCancelDoneType, UpdSaveType, UpdPlaceType
    DEF ServiceStep
  <1>3. CASE ExchangeStep \/ KilledElsewhere \/ Restart \/ RestartTorn
    BY <1>3, ExchangeType, KilledType, RestartType
  <1>4. CASE UNCHANGED vars
    BY <1>4, StutterType
  <1>. QED
    BY <1>1, <1>2, <1>3, <1>4 DEF Next

\* Every state of the service and the exchange is typed, and the plan in
\* progress is of the kind its program counter belongs to.
THEOREM TypeInvariant == Spec => []TypeInv
  BY TypeInit, TypeStep, PTL DEF Spec

\* Every state of the service and the exchange is typed.
THEOREM TypeCorrect == Spec => []TypeOK
  <1>1. TypeInv => TypeOK
    BY DEF TypeInv
  <1>. QED
    BY <1>1, TypeInvariant, PTL

-----------------------------------------------------------------------------
(* The promise of EntryOnce.  By itself it is not inductive: it needs that  *)
(* the id of an entry is on disk from before its first request on, and that *)
(* a call which has not sent its first request is the first for its candle. *)

EntryInv ==
    /\ \A c \in posted : EntryKnown(c)
    /\ reposted = {}
    /\ \A c \in Candles : EntryHeld(c) => c \in posted
    /\ proc.pc = "leverage" =>
           /\ proc.attempt = 1
           /\ EntryKnown(proc.plan.ts)
           /\ proc.plan.ts \notin posted
    /\ proc.pc = "entry" =>
           /\ proc.attempt > 0
           /\ EntryKnown(proc.plan.ts)
           /\ proc.attempt = 1 <=> proc.plan.ts \notin posted

\* The steps that neither claim nor request an entry.
QuietStep ==
    \/ LeverageStep \/ FillStep \/ SlStep \/ SlSaveStep \/ TpStep \/ TpSaveStep \/ OpenDone
    \/ CloseStep \/ CloseFillStep
    \/ UpdPositionStep \/ UpdOrdersStep \/ UpdCancelStep \/ UpdCancelDone
    \/ UpdSaveStep \/ UpdPlaceStep
    \/ ExchangeStep \/ KilledElsewhere \/ Restart

LEMMA NextKinds ==
  ASSUME ~TornWrites, [Next]_vars
  PROVE  CallAny \/ EntryStep \/ QuietStep \/ UNCHANGED vars
  BY DEF Next, ServiceStep, QuietStep, RestartTorn

\* An accepted order that is not an entry changes what is held of no candle.
LEMMA OtherOrder ==
  ASSUME TypeInv, NEW o \in Orders, NEW c,
         o.id # IdOf(c, "entry"),
         Accepted(o) \/ UNCHANGED orders
  PROVE  EntryHeld(c)' <=> EntryHeld(c)
  <1>1. CASE UNCHANGED orders
    BY <1>1 DEF EntryHeld
  <1>2. CASE Accepted(o)
    <2>1. /\ DOMAIN orders' = DOMAIN orders \cup {Len(orders) + 1}
          /\ \A i \in DOMAIN orders : orders'[i] = orders[i]
          /\ orders'[Len(orders) + 1] = o
      BY <1>2, StateFacts, AcceptedType
    <2>. QED
      BY <2>1 DEF EntryHeld
  <1>. QED
    BY <1>1, <1>2

\* A change of status neither.
LEMMA StatusKeepsIds ==
  ASSUME TypeInv, NEW i \in DOMAIN orders, NEW s \in Statuses, NEW c,
         orders' = [orders EXCEPT ![i].status = s]
  PROVE  EntryHeld(c)' <=> EntryHeld(c)
  <1>1. /\ DOMAIN orders' = DOMAIN orders
        /\ \A j \in DOMAIN orders : orders'[j].id = orders[j].id
    BY StateFacts, StatusType
  <1>. QED
    BY <1>1 DEF EntryHeld

\* Nor does the id of an exit order claim an entry.
LEMMA OtherSave ==
  ASSUME NEW ts, NEW leg, leg # "entry", NEW c, NEW pc, NEW legs,
         SaveStep(IdOf(ts, leg), pc, legs)
  PROVE  /\ EntryKnown(c)' <=> EntryKnown(c)
         /\ EntryHeld(c)' <=> EntryHeld(c)
  <1>1. IdOf(ts, leg) # IdOf(c, "entry")
    BY DEF IdOf
  <1>2. DOMAIN tradeIds' = DOMAIN tradeIds \cup {IdOf(ts, leg)} /\ orders' = orders
    BY DEF SaveStep, Saved, exchange
  <1>. QED
    BY <1>1, <1>2 DEF EntryKnown, EntryHeld, Known

\* What a quiet step leaves alone, and where it leaves the call.
Quiet ==
    /\ UNCHANGED history
    /\ \A c \in Candles : EntryKnown(c)' <=> EntryKnown(c)
    /\ \A c \in Candles : EntryHeld(c)' <=> EntryHeld(c)
    /\ \/ proc'.pc \notin {"leverage", "entry"}
       \/ proc' = proc
       \/ /\ proc.pc = "leverage" /\ proc'.pc = "entry"
          /\ proc'.plan = proc.plan /\ proc'.attempt = proc.attempt

LEMMA QuietWhenStoreAndOrdersAre ==
  ASSUME UNCHANGED <<disk, exchange, history>> \/ UNCHANGED <<tradeIds, orders, history>>
  PROVE  /\ UNCHANGED history
         /\ \A c : EntryKnown(c)' <=> EntryKnown(c)
         /\ \A c : EntryHeld(c)' <=> EntryHeld(c)
  BY DEF disk, exchange, EntryKnown, EntryHeld, Known

LEMMA ReturnIsIdle ==
  \A executed, reason, errs : Return(executed, reason, errs) => proc'.pc = "idle"
  BY DEF Return, Idle

\* The steps that send nothing.
LEMMA QuietInside ==
  ASSUME TypeInv,
         LeverageStep \/ FillStep \/ OpenDone \/ CloseFillStep \/ UpdPositionStep
             \/ UpdOrdersStep \/ UpdCancelDone \/ KilledElsewhere \/ Restart
  PROVE  Quiet
  <1>1. UNCHANGED <<tradeIds, orders, history>>
    BY DEF LeverageStep, FillStep, OpenDone, CloseFillStep, UpdPositionStep, UpdOrdersStep,
           UpdCancelDone, KilledElsewhere, Restart, ProcessRestarts, disk, exchange, history,
           PollInconclusive, NotFilled
  <1>2. \/ proc'.pc \notin {"leverage", "entry"}
        \/ /\ proc.pc = "leverage" /\ proc'.pc = "entry"
           /\ proc'.plan = proc.plan /\ proc'.attempt = proc.attempt
    <2>1. CASE LeverageStep
      BY <2>1, StateFacts DEF LeverageStep, At, Procs
    <2>2. CASE FillStep \/ CloseFillStep
      <3>1. \A reason : NotFilled(reason) => proc'.pc = "idle"
        BY ReturnIsIdle DEF NotFilled
      <3>2. PollInconclusive => proc'.pc = proc.pc
        BY StateFacts DEF PollInconclusive, Procs
      <3>3. proc' = [proc EXCEPT !.pc = "sl", !.attempt = 1] => proc'.pc = "sl"
        BY StateFacts DEF Procs
      <3>. QED
        BY <2>2, <3>1, <3>2, <3>3, ReturnIsIdle DEF FillStep, CloseFillStep, At
    <2>3. CASE OpenDone \/ KilledElsewhere \/ Restart
      BY <2>3 DEF OpenDone, KilledElsewhere, Restart, ProcessRestarts, At, Return, Idle
    <2>4. CASE UpdPositionStep
      <3>1. \A side : proc' = [proc EXCEPT !.pc = "upd_orders", !.side = side] =>
                          proc'.pc = "upd_orders"
        BY StateFacts DEF Procs
      <3>. QED
        BY <2>4, <3>1, ReturnIsIdle DEF UpdPositionStep
    <2>5. CASE UpdOrdersStep \/ UpdCancelDone
      BY <2>5, StateFacts DEF UpdOrdersStep, UpdCancelDone, CancelFailed, Procs
    <2>. QED
      BY <2>1, <2>2, <2>3, <2>4, <2>5
  <1>. QED
    BY <1>1, <1>2, QuietWhenStoreAndOrdersAre DEF Quiet

\* The steps that send an order other than an entry.
LEMMA QuietPost ==
  ASSUME TypeInv, NEW o \in Orders, \A c \in Candles : o.id # IdOf(c, "entry"),
         Accepted(o) \/ UNCHANGED orders,
         UNCHANGED <<disk, history>>,
         proc'.pc \notin {"leverage", "entry"}
  PROVE  Quiet
  <1>1. \A c \in Candles : EntryHeld(c)' <=> EntryHeld(c)
    BY OtherOrder
  <1>2. \A c \in Candles : EntryKnown(c)' <=> EntryKnown(c)
    BY DEF EntryKnown, Known, disk
  <1>. QED
    BY <1>1, <1>2 DEF Quiet, history

LEMMA QuietSends ==
  ASSUME TypeInv, SlStep \/ TpStep \/ CloseStep \/ UpdPlaceStep
  PROVE  Quiet
  <1>1. CASE SlStep
    <2>. DEFINE o == StopOrder(IdOf(proc.plan.ts, "sl"), Opposite(proc.plan.side))
    <2>1. proc.pc = "sl" /\ UNCHANGED <<disk, history>>
      BY <1>1 DEF SlStep, At
    <2>2. o \in Orders /\ \A c \in Candles : o.id # IdOf(c, "entry")
      BY <2>1, OpenIds DEF OpenPCs, StopOrder, IdOf
    <2>3. (Accepted(o) \/ UNCHANGED orders) /\ proc'.pc \notin {"leverage", "entry"}
      BY <1>1, <2>1, StateFacts
      DEF SlStep, PostAnswered, PostUnanswered, Retry, Skip, Procs
    <2>. QED
      BY <2>1, <2>2, <2>3, QuietPost
  <1>2. CASE TpStep
    <2>. DEFINE o == TpOrder(proc.plan, Head(proc.legs))
    <2>1. proc.pc = "tp" /\ proc.legs # << >> /\ UNCHANGED <<disk, history>>
      BY <1>2 DEF TpStep, At
    <2>2. o \in Orders /\ Head(proc.legs) # "entry"
      BY <2>1, OpenIds, StateFacts, LegFacts DEF OpenPCs
    <2>3. \A c \in Candles : o.id # IdOf(c, "entry")
      BY <2>2 DEF TpOrder, IdOf
    <2>4. (Accepted(o) \/ UNCHANGED orders) /\ proc'.pc \notin {"leverage", "entry"}
      BY <1>2, <2>1, StateFacts
      DEF TpStep, PostAnswered, PostUnanswered, Retry, Skip, Procs, exchange
    <2>. QED
      BY <2>1, <2>2, <2>3, <2>4, QuietPost
  <1>3. CASE CloseStep
    <2>. DEFINE o == CloseOrder(proc.plan)
    <2>1. /\ proc.pc = "close" /\ UNCHANGED <<disk, history>>
          /\ proc.plan.action = "CLOSE" /\ proc.plan.ts \in Candles
      BY <1>3, StateFacts DEF CloseStep, At, PlanFits, ClosePCs
    <2>2. o \in Orders /\ \A c \in Candles : o.id # IdOf(c, "entry")
      BY <2>1, OrderTypes, StateFacts DEF CloseOrder, PlanId, IdOf
    <2>3. (Accepted(o) \/ UNCHANGED orders) /\ proc'.pc \notin {"leverage", "entry"}
      BY <1>3, <2>1, StateFacts, ReturnIsIdle
      DEF CloseStep, PostAnswered, PostUnanswered, Retry, Procs
    <2>. QED
      BY <2>1, <2>2, <2>3, QuietPost
  <1>4. CASE UpdPlaceStep
    <2>. DEFINE o == StopOrder(IdOf(proc.plan.ts, "update_sl"), proc.side)
    <2>1. proc.pc = "upd_place" /\ UNCHANGED <<disk, history>>
      BY <1>4 DEF UpdPlaceStep, At
    <2>2. o \in Orders /\ \A c \in Candles : o.id # IdOf(c, "entry")
      BY <2>1, StateFacts, OrderTypes
      DEF PlanFits, UpdatePCs, Legs, Procs, StopOrder, IdOf
    <2>3. (Accepted(o) \/ UNCHANGED orders) /\ proc'.pc \notin {"leverage", "entry"}
      BY <1>4, <2>1, StateFacts
      DEF UpdPlaceStep, PostUnanswered, Retry, Return, Idle, Procs
    <2>. QED
      BY <2>1, <2>2, <2>3, QuietPost
  <1>. QED
    BY <1>1, <1>2, <1>3, <1>4

\* The steps that save the id of an exit order.
LEMMA QuietSaves ==
  ASSUME TypeInv, SlSaveStep \/ TpSaveStep \/ UpdSaveStep
  PROVE  Quiet
  <1>1. PICK leg \in Legs \ {"entry"}, pc \in {"tp", "upd_place"}, legs \in LegLists :
            SaveStep(IdOf(proc.plan.ts, leg), pc, legs)
    <2>1. CASE SlSaveStep
      BY <2>1, LegFacts DEF SlSaveStep, Legs
    <2>2. CASE TpSaveStep
      <3>1. proc.legs # << >>
        BY <2>2, StateFacts DEF TpSaveStep, At, PlanFits
      <3>. QED
        BY <2>2, <3>1, StateFacts, LegFacts DEF TpSaveStep, Leg, Legs
    <2>3. CASE UpdSaveStep
      BY <2>3, StateFacts DEF UpdSaveStep, Legs
    <2>. QED
      BY <2>1, <2>2, <2>3
  <1>2. \A c \in Candles : (EntryKnown(c)' <=> EntryKnown(c)) /\ (EntryHeld(c)' <=> EntryHeld(c))
    BY <1>1, OtherSave
  <1>3. UNCHANGED history /\ proc'.pc \notin {"leverage", "entry"}
    BY <1>1, StateFacts DEF SaveStep, Procs
  <1>. QED
    BY <1>2, <1>3 DEF Quiet

\* A cancelled, filled or expired order keeps its id.
LEMMA QuietStatus ==
  ASSUME TypeInv, UpdCancelStep \/ ExchangeStep
  PROVE  Quiet
  <1>1. tradeIds' = tradeIds /\ UNCHANGED history
    BY DEF UpdCancelStep, ExchangeStep, ExchangeFills, ExchangeExpires, disk
  <1>2. \A c \in Candles : EntryKnown(c)' <=> EntryKnown(c)
    BY <1>1 DEF EntryKnown, Known
  <1>3. \/ UNCHANGED orders
        \/ \E i \in DOMAIN orders, s \in Statuses : orders' = [orders EXCEPT ![i].status = s]
    <2>1. CASE ExchangeStep
      BY <2>1 DEF ExchangeStep, ExchangeFills, ExchangeExpires, Statuses
    <2>2. ASSUME NEW i, Cancelled(i)
          PROVE  \/ UNCHANGED orders
                 \/ \E j \in DOMAIN orders, s \in Statuses :
                        orders' = [orders EXCEPT ![j].status = s]
      <3>1. CASE i \in DOMAIN orders
        BY <2>2, <3>1 DEF Cancelled, Statuses
      <3>2. CASE i \notin DOMAIN orders
        BY <2>2, <3>2, StateFacts DEF Cancelled
      <3>. QED
        BY <3>1, <3>2
    <2>3. CASE UpdCancelStep
      BY <2>2, <2>3 DEF UpdCancelStep
    <2>. QED
      BY <2>1, <2>3
  <1>4. \A c \in Candles : EntryHeld(c)' <=> EntryHeld(c)
    <2>1. CASE UNCHANGED orders
      BY <2>1 DEF EntryHeld
    <2>. QED
      BY <1>3, <2>1, StatusKeepsIds
  <1>5. proc'.pc \notin {"leverage", "entry"} \/ proc' = proc
    BY StateFacts
    DEF UpdCancelStep, ExchangeStep, ExchangeFills, ExchangeExpires, At, Retry, CancelFailed,
        Procs
  <1>. QED
    BY <1>1, <1>2, <1>4, <1>5 DEF Quiet

LEMMA QuietStepIsQuiet == ASSUME TypeInv, QuietStep PROVE Quiet
  BY QuietInside, QuietSends, QuietSaves, QuietStatus DEF QuietStep

\* What a call can claim: the candle of an opening plan that was not known, on
\* its way to its first request, or any id where nothing will be requested.
LEMMA CallClaims ==
  ASSUME TypeInv, ~TornWrites, CallAny
  PROVE  /\ UNCHANGED <<orders, history>>
         /\ \/ UNCHANGED tradeIds
            \/ \E p \in Plans : p.ts \in Candles /\ tradeIds' = Saved(PlanId(p), p)
         /\ \/ proc'.pc \notin {"leverage", "entry"}
            \/ /\ proc'.pc = "leverage" /\ proc'.attempt = 1
               /\ \E c \in Candles :
                      proc'.plan.ts = c /\ ~EntryKnown(c) /\ EntryKnown(c)'
  <1>1. PICK p \in Plans : Call(p) /\ p.ts \in Candles
    BY PlanTypes DEF CallAny
  <1>2. \A pc : Begin(p, pc) =>
            /\ proc'.pc = pc /\ proc'.attempt = 1 /\ proc'.plan = p
            /\ UNCHANGED <<exchange, history>>
    BY DEF Begin, Idle
  <1>3. \A reason : ReturnAtOnce(p, reason) => UNCHANGED <<proc, exchange, history>>
    BY DEF ReturnAtOnce
  <1>4. proc.pc = "idle"
    BY <1>1 DEF Call
  <1>5. UNCHANGED <<orders, history>>
    BY <1>1, <1>2, <1>3, ~TornWrites
    DEF Call, CallReadonly, CallSafeRun, CallUpdate, CallDuplicate, CallDryRun, CallClose,
        CallOpen, CallKnown, exchange
  <1>6. UNCHANGED tradeIds \/ tradeIds' = Saved(PlanId(p), p)
    BY <1>1, ~TornWrites
    DEF Call, CallReadonly, CallSafeRun, CallUpdate, CallDuplicate, CallDryRun, CallClose,
        CallOpen, CallKnown, disk
  <1>7. CASE CallOpen(p)
    <2>1. /\ proc'.pc = "leverage" /\ proc'.attempt = 1 /\ proc'.plan = p
          /\ p.action = "OPEN" /\ ~Known(PlanId(p)) /\ tradeIds' = Saved(PlanId(p), p)
      BY <1>2, <1>7 DEF CallOpen, Fresh
    <2>2. PlanId(p) = IdOf(p.ts, "entry")
      BY <2>1 DEF PlanId
    <2>3. ~EntryKnown(p.ts) /\ EntryKnown(p.ts)'
      BY <2>1, <2>2 DEF EntryKnown, Known, Saved
    <2>. QED
      BY <1>1, <1>5, <1>6, <2>1, <2>3
  <1>8. CASE ~CallOpen(p)
    <2>1. proc'.pc \notin {"leverage", "entry"}
      BY <1>1, <1>2, <1>3, <1>4, <1>8, ~TornWrites
      DEF Call, CallReadonly, CallSafeRun, CallUpdate, CallDuplicate, CallDryRun, CallClose,
          CallKnown
    <2>. QED
      BY <1>1, <1>5, <1>6, <2>1
  <1>. QED
    BY <1>7, <1>8

\* The request of an entry: the first of its call, or a repetition.
LEMMA EntryRequests ==
  ASSUME TypeInv, EntryStep
  PROVE  /\ UNCHANGED tradeIds
         /\ proc.pc = "entry" /\ proc.plan.ts \in Candles
         /\ \A c \in Candles : c # proc.plan.ts => (EntryHeld(c)' <=> EntryHeld(c))
         /\ \A c \in Candles : EntryHeld(c) => EntryHeld(c)'
         /\ NoteEntryRequest
         /\ \/ proc'.pc \notin {"leverage", "entry"}
            \/ /\ proc'.pc = "entry" /\ proc'.plan = proc.plan
               /\ proc'.attempt = proc.attempt + 1
  <1>. DEFINE o == EntryOrder(proc.plan)
  <1>1. /\ proc.pc = "entry" /\ proc.plan.ts \in Candles /\ proc.plan.action = "OPEN"
        /\ UNCHANGED tradeIds /\ NoteEntryRequest
    BY StateFacts DEF EntryStep, At, PlanFits, OpenPCs, disk
  <1>2. o \in Orders /\ o.id = IdOf(proc.plan.ts, "entry")
    BY <1>1, OrderTypes, StateFacts DEF EntryOrder, PlanId
  <1>3. Accepted(o) \/ UNCHANGED orders
    BY DEF EntryStep, PostAnswered, PostUnanswered
  <1>4. \A c \in Candles : c # proc.plan.ts => (EntryHeld(c)' <=> EntryHeld(c))
    <2>1. \A c \in Candles : c # proc.plan.ts => o.id # IdOf(c, "entry")
      BY <1>2 DEF IdOf
    <2>. HIDE DEF o
    <2>. QED
      BY <1>2, <1>3, <2>1, OtherOrder
  <1>5. \A c \in Candles : EntryHeld(c) => EntryHeld(c)'
    <2>1. CASE UNCHANGED orders
      BY <2>1 DEF EntryHeld
    <2>2. CASE Accepted(o)
      <3>1. /\ DOMAIN orders' = DOMAIN orders \cup {Len(orders) + 1}
            /\ \A i \in DOMAIN orders : orders'[i] = orders[i]
        BY <1>2, <2>2, StateFacts, AcceptedType
      <3>. QED
        BY <3>1 DEF EntryHeld
    <2>. QED
      BY <1>3, <2>1, <2>2
  <1>6. \/ proc'.pc \notin {"leverage", "entry"}
        \/ /\ proc'.pc = "entry" /\ proc'.plan = proc.plan
           /\ proc'.attempt = proc.attempt + 1
    BY <1>1, StateFacts, ReturnIsIdle DEF EntryStep, PostAnswered, Retry, Procs
  <1>. QED
    BY <1>1, <1>4, <1>5, <1>6

\* EntryInv holds at the start, and every step keeps it.
LEMMA EntryInvInit == Init => EntryInv
  BY DEF Init, EntryInv, EntryHeld, Idle

LEMMA EntryInvStep ==
  ASSUME ~TornWrites
  PROVE  TypeInv /\ EntryInv /\ [Next]_vars => EntryInv'
  <1>. SUFFICES ASSUME TypeInv, EntryInv, [Next]_vars PROVE EntryInv'
    OBVIOUS
  <1>0. posted \subseteq Candles /\ reposted = {} /\ proc.attempt \in Nat
    BY StateFacts DEF EntryInv, Procs
  <1>1. CASE CallAny
    <2>1. \A c \in Candles : EntryKnown(c) => EntryKnown(c)'
      BY <1>1, CallClaims DEF EntryKnown, Known, Saved
    <2>2. \A c \in Candles : EntryHeld(c)' <=> EntryHeld(c)
      BY <1>1, CallClaims DEF EntryHeld
    <2>. QED
      BY <1>0, <1>1, <2>1, <2>2, CallClaims DEF EntryInv, history
  <1>2. CASE EntryStep
    <2>1. \A c \in Candles : EntryKnown(c) => EntryKnown(c)'
      BY <1>2, EntryRequests DEF EntryKnown, Known
    <2>2. posted' = posted \cup {proc.plan.ts} /\ reposted' = {}
      BY <1>0, <1>2, EntryRequests DEF NoteEntryRequest, EntryInv, history
    <2>3. \A c \in Candles : EntryHeld(c)' => c \in posted'
      BY <1>2, <2>2, EntryRequests DEF EntryInv
    <2>4. \A c \in posted' : EntryKnown(c)'
      BY <1>0, <1>2, <2>1, <2>2, EntryRequests DEF EntryInv
    <2>5. proc'.pc = "entry" => /\ proc'.attempt > 1
                                /\ proc'.plan.ts \in posted'
      BY <1>0, <1>2, <2>2, EntryRequests DEF EntryInv
    <2>. QED
      <3>1. proc'.pc # "leverage"
        BY <1>2, EntryRequests
      <3>2. proc'.pc = "entry" => EntryKnown(proc.plan.ts)'
        BY <2>4, <2>5 DEF EntryKnown, Known
      <3>3. proc'.pc = "entry" => proc'.attempt > 0 /\ proc'.attempt # 1
        <4>1. proc'.pc = "entry" => proc'.attempt = proc.attempt + 1 /\ proc.attempt > 0
          BY <1>2, EntryRequests DEF EntryInv
        <4>. QED
          BY <1>0, <4>1
      <3>. QED
        BY <2>2, <2>3, <2>4, <2>5, <3>1, <3>2, <3>3 DEF EntryInv
  <1>3. CASE QuietStep
    <2>1. Quiet
      BY <1>3, QuietStepIsQuiet
    <2>. QED
      BY <1>0, <2>1, StateFacts DEF Quiet, EntryInv, history, PlanFits, OpenPCs
  <1>4. CASE UNCHANGED vars
    BY <1>4 DEF vars, EntryInv, EntryKnown, EntryHeld, Known
  <1>. QED
    BY <1>1, <1>2, <1>3, <1>4, NextKinds

\* While no write of trade_ids.json is torn, the entry of a candle is
\* requested by one call at most, whatever crashes fall between its steps.
THEOREM EntryRequestedOnce ==
  ASSUME ~TornWrites
  PROVE  Spec => []EntryRequestedByOneCall
  <1>1. EntryInv => EntryRequestedByOneCall
    BY DEF EntryInv, EntryRequestedByOneCall
  <1>2. TypeInv /\ EntryInv /\ [Next]_vars => EntryInv'
    BY EntryInvStep
  <1>. QED
    BY <1>1, <1>2, EntryInvInit, TypeInvariant, PTL DEF Spec

\* The initial states of the service are initial states of EntryOnce.
LEMMA PromiseInit == Init => Promise!Init
  BY DEF Init, Promise!Init, claimedBar, callsBar, heldBar, EntryKnown, EntryHeld, Known,
         EmptyStore

\* Every step of it is a claim, a request, an acceptance, or nothing at all.
LEMMA PromiseStep ==
  ASSUME ~TornWrites
  PROVE  TypeInv /\ EntryInv /\ EntryInv' /\ [Next]_vars => [Promise!Next]_(Promise!vars)
  <1>. SUFFICES ASSUME TypeInv, EntryInv, EntryInv', [Next]_vars
                PROVE  Promise!Next \/ UNCHANGED Promise!vars
    BY DEF Promise!vars
  <1>0. reposted = {} /\ reposted' = {} /\ posted \subseteq Candles
    BY StateFacts DEF EntryInv
  <1>1. CASE CallAny
    <2>1. heldBar' = heldBar /\ callsBar' = callsBar
      BY <1>1, CallClaims DEF heldBar, callsBar, EntryHeld, history
    <2>2. CASE UNCHANGED tradeIds
      BY <2>1, <2>2 DEF Promise!vars, claimedBar, EntryKnown, Known
    <2>3. CASE \E p \in Plans : p.ts \in Candles /\ tradeIds' = Saved(PlanId(p), p)
      <3>1. PICK p \in Plans : p.ts \in Candles /\ tradeIds' = Saved(PlanId(p), p)
        BY <2>3
      <3>2. claimedBar' = claimedBar \/ claimedBar' = claimedBar \cup {p.ts}
        <4>1. DOMAIN tradeIds' = DOMAIN tradeIds \cup {PlanId(p)}
          BY <3>1 DEF Saved
        <4>2. CASE PlanId(p) = IdOf(p.ts, "entry")
          BY <3>1, <4>1, <4>2 DEF claimedBar, EntryKnown, Known, IdOf
        <4>3. CASE PlanId(p) \in {IdOf(p.ts, "close"), IdOf(p.ts, "sltp")}
          BY <3>1, <4>1, <4>3 DEF claimedBar, EntryKnown, Known, IdOf
        <4>. QED
          BY <4>2, <4>3, PlanTypes
      <3>. QED
        BY <2>1, <3>1, <3>2 DEF Promise!vars, Promise!Next, Promise!Claim
    <2>. QED
      BY <1>1, <2>2, <2>3, CallClaims
  <1>2. CASE EntryStep
    <2>. DEFINE c == proc.plan.ts
    <2>1. /\ proc.pc = "entry" /\ c \in Candles /\ EntryKnown(c)
          /\ proc.attempt = 1 <=> c \notin posted
      BY <1>2, EntryRequests DEF EntryInv
    <2>2. claimedBar' = claimedBar /\ c \in claimedBar
      BY <1>2, <2>1, EntryRequests DEF claimedBar, EntryKnown, Known
    <2>3. heldBar' = heldBar \/ heldBar' = heldBar \cup {c}
      BY <1>2, <2>1, EntryRequests DEF heldBar
    <2>4. CASE proc.attempt = 1
      <3>1. posted' = posted \cup {c} /\ c \notin posted
        BY <1>2, <2>1, <2>4, EntryRequests DEF NoteEntryRequest
      <3>2. callsBar[c] = 0 /\ callsBar' = [callsBar EXCEPT ![c] = 1]
        BY <1>0, <2>1, <3>1 DEF callsBar
      <3>. QED
        BY <2>1, <2>2, <2>3, <3>2 DEF Promise!Next, Promise!Request
    <2>5. CASE proc.attempt # 1
      <3>1. callsBar' = callsBar /\ callsBar[c] = 1
        BY <1>0, <1>2, <2>1, <2>5, EntryRequests DEF NoteEntryRequest, callsBar, history
      <3>. QED
        BY <2>1, <2>2, <2>3, <3>1 DEF Promise!Next, Promise!Accept, Promise!vars
    <2>. QED
      BY <2>4, <2>5
  <1>3. CASE QuietStep
    <2>1. Quiet
      BY <1>3, QuietStepIsQuiet
    <2>. QED
      BY <2>1 DEF Quiet, Promise!vars, claimedBar, callsBar, heldBar, history
  <1>4. CASE UNCHANGED vars
    BY <1>4
    DEF vars, Promise!vars, claimedBar, callsBar, heldBar, EntryKnown, EntryHeld, Known
  <1>. QED
    BY <1>1, <1>2, <1>3, <1>4, NextKinds

\* The execution service implements EntryOnce: a claim before any request, one
\* requesting call, and no entry held that was not requested.
THEOREM ImplementsEntryOnce ==
  ASSUME ~TornWrites
  PROVE  Spec => EntriesOnce
  <1>1. TypeInv /\ EntryInv /\ [Next]_vars => EntryInv'
    BY EntryInvStep
  <1>2. TypeInv /\ EntryInv /\ EntryInv' /\ [Next]_vars => [Promise!Next]_(Promise!vars)
    BY PromiseStep
  <1>. QED
    BY <1>1, <1>2, PromiseInit, EntryInvInit, TypeInvariant, PTL
    DEF Spec, EntriesOnce, Promise!Spec
=============================================================================
