---------------------------- MODULE Reconciliation ----------------------------
(***************************************************************************)
(* reconcile_positions of app/state/state_manager.py: what the bot holds   *)
(* against the exchange's positions and open orders before it trades.  Any *)
(* error is a hard stop.                                                   *)
(*                                                                         *)
(* A position is its signed amount; an order has a type, a side and the    *)
(* flags closePosition and reduceOnly; the local state has a side and a    *)
(* quantity.  Positions come in the exchange's order, of every symbol.     *)
(***************************************************************************)
EXTENDS Integers, Sequences

StopTypes == {"STOP", "STOP_MARKET", "STOP_LOSS", "STOP_LOSS_LIMIT"}
TpTypes == {"TAKE_PROFIT", "TAKE_PROFIT_MARKET", "TAKE_PROFIT_LIMIT"}
ExitTypes == {"STOP", "STOP_MARKET", "TAKE_PROFIT", "TAKE_PROFIT_MARKET"}

SideOf(amount) == IF amount > 0 THEN "LONG" ELSE IF amount < 0 THEN "SHORT" ELSE "NONE"
SizeOf(amount) == IF amount < 0 THEN -amount ELSE amount
ExitSide(side) == IF side = "LONG" THEN "SELL" ELSE "BUY"

\* Only an order that closes the whole position protects it.
Protects(order, side, types) ==
    order.side = ExitSide(side) /\ order.type \in types
        /\ order.closePosition /\ order.reduceOnly

HasProtectiveSl(side, openOrders) == \E o \in openOrders : Protects(o, side, StopTypes)
HasProtectiveTp(side, openOrders) == \E o \in openOrders : Protects(o, side, TpTypes)

Held(positions) == SelectSeq(positions, LAMBDA amount : amount # 0)

\* The first disagreement with the local state ends the comparison.  A local
\* position the exchange does not have is no disagreement.
LocalErrors(held, local) ==
    IF held = << >> THEN {}
    ELSE IF local.qty = 0 THEN {"expected_no_position"}
    ELSE IF local.side # "NONE" /\ local.side # SideOf(held[1]) THEN {"side"}
    ELSE IF local.qty # SizeOf(held[1]) THEN {"qty"}
    ELSE {}

\* Mutant: only take-profits are looked for.
NakedErrorsNoSl(held, openOrders, requireTp) ==
    {"position_without_tp" : i \in
        {j \in DOMAIN held : requireTp /\ ~HasProtectiveTp(SideOf(held[j]), openOrders)}}

NakedErrors(held, openOrders, requireTp) ==
    LET sides == {SideOf(held[i]) : i \in DOMAIN held}
    IN  {"position_without_sl" : side \in {s \in sides : ~HasProtectiveSl(s, openOrders)}}
        \cup {"position_without_tp" : side \in
                  {s \in sides : requireTp /\ ~HasProtectiveTp(s, openOrders)}}

\* Exit orders without a position, or on the side that would enlarge the first.
OrphanErrors(held, openOrders) ==
    {"orphan_order" : o \in
        {x \in openOrders : x.type \in ExitTypes
                            /\ (held = << >> \/ x.side # ExitSide(SideOf(held[1])))}}

\* Several positions end the check before orphans are looked for.
ReconcileErrors(positions, openOrders, hasLocal, local, requireTp) ==
    LET held == Held(positions)
        localErrors == IF hasLocal THEN LocalErrors(held, local) ELSE {}
    IN  IF localErrors # {} THEN localErrors
        ELSE NakedErrors(held, openOrders, requireTp)
             \cup (IF Len(held) > 1 THEN {"multiple_positions"}
                                    ELSE OrphanErrors(held, openOrders))
=============================================================================
