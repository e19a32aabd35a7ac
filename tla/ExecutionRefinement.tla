------------------------- MODULE ExecutionRefinement -------------------------
(***************************************************************************)
(* The execution service keeps the promise of EntryOnce: the claim is the  *)
(* id in run/state/trade_ids.json, the request the first POST of a call.   *)
(***************************************************************************)
EXTENDS Execution

EntryKnown(c) == Known(IdOf(c, "entry"))
EntryHeld(c) == \E i \in DOMAIN orders : orders[i].id = IdOf(c, "entry")

claimedBar == {c \in Candles : EntryKnown(c)}
callsBar == [c \in Candles |-> IF c \in reposted THEN 2 ELSE IF c \in posted THEN 1 ELSE 0]
heldBar == {c \in Candles : EntryHeld(c)}

Promise == INSTANCE EntryOnce
             WITH claimed <- claimedBar, calls <- callsBar, held <- heldBar

\* Every step of the service, the exchange and the machine is a step of
\* EntryOnce or changes nothing in it, as long as no write of trade_ids.json
\* is torn: the entry of a candle is claimed before it is requested, and
\* requested by one call only.
EntriesOnce == Promise!Spec
=============================================================================
