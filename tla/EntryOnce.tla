------------------------------ MODULE EntryOnce ------------------------------
(***************************************************************************)
(* What the execution service promises about entries: the entry of a       *)
(* candle is claimed durably, then requested by at most one call, and only *)
(* then can the exchange hold it.  A claim that is never followed by a     *)
(* request (the process died, or every attempt failed) is never taken up   *)
(* again: the promise is "at most once".                                   *)
(***************************************************************************)
EXTENDS Naturals

CONSTANT Candles

VARIABLES
    claimed,  \* candles whose entry id is recorded
    calls,    \* candle -> calls of the service that requested its entry
    held      \* candles of which the exchange holds an entry order

vars == <<claimed, calls, held>>

Init ==
    /\ claimed = {}
    /\ calls = [c \in Candles |-> 0]
    /\ held = {}

Claim(c) ==
    /\ claimed' = claimed \cup {c}
    /\ UNCHANGED <<calls, held>>

\* The first request of the one call; the exchange may take it at once.
Request(c) ==
    /\ c \in claimed
    /\ calls[c] = 0
    /\ calls' = [calls EXCEPT ![c] = 1]
    /\ held' \in {held, held \cup {c}}
    /\ UNCHANGED claimed

\* A repeated attempt of that call is taken.
Accept(c) ==
    /\ calls[c] = 1
    /\ held' = held \cup {c}
    /\ UNCHANGED <<claimed, calls>>

Next == \E c \in Candles : Claim(c) \/ Request(c) \/ Accept(c)

Spec == Init /\ [][Next]_vars

\* Nothing is held that was not requested, by exactly one call, after a claim.
HeldOnce == \A c \in held : c \in claimed /\ calls[c] = 1
=============================================================================
