--------------------------- MODULE EntryOnceProofs ---------------------------
(* What the promise of EntryOnce amounts to, for every set of candles.      *)
EXTENDS EntryOnce, TLAPS

TypeInv ==
    /\ claimed \subseteq Candles
    /\ calls \in [Candles -> {0, 1}]
    /\ held \subseteq Candles

\* A candle is requested only after it is claimed, and held only once requested.
ClaimedFirst == \A c \in Candles : calls[c] = 1 => c \in claimed
RequestedFirst == \A c \in held : calls[c] = 1

Inv == TypeInv /\ ClaimedFirst /\ RequestedFirst

LEMMA InvInit == Init => Inv
  BY DEF Init, Inv, TypeInv, ClaimedFirst, RequestedFirst

LEMMA InvStep == Inv /\ [Next]_vars => Inv'
<1> SUFFICES ASSUME Inv, [Next]_vars PROVE Inv'
  OBVIOUS
<1> USE DEF Inv, TypeInv, ClaimedFirst, RequestedFirst
<1>1. ASSUME NEW c \in Candles, Claim(c) PROVE Inv'
  BY <1>1 DEF Claim
<1>2. ASSUME NEW c \in Candles, Request(c) PROVE Inv'
  <2>1. calls' = [calls EXCEPT ![c] = 1] /\ claimed' = claimed /\ c \in claimed
    BY <1>2 DEF Request
  <2>2. held' \subseteq held \cup {c}
    BY <1>2 DEF Request
  <2> QED
    BY <2>1, <2>2
<1>3. ASSUME NEW c \in Candles, Accept(c) PROVE Inv'
  BY <1>3 DEF Accept
<1>4. CASE UNCHANGED vars
  BY <1>4 DEF vars
<1> QED
  BY <1>1, <1>2, <1>3, <1>4 DEF Next

\* In every behaviour the promise allows, the exchange holds an entry only for a
\* candle that was claimed and then requested by exactly one call: what the id in
\* trade_ids.json is written for before the entry order is sent.
THEOREM OnceHolds == Spec => []HeldOnce
<1>1. Inv => HeldOnce
  BY DEF Inv, TypeInv, ClaimedFirst, RequestedFirst, HeldOnce
<1> QED
  BY <1>1, InvInit, InvStep, PTL DEF Spec
=============================================================================
