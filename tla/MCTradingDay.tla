----------------------------- MODULE MCTradingDay -----------------------------
(* Instances of TradingDay for TLC. *)
EXTENDS TradingDay

\* A candle that closes on a new high and one that falls.
FewCandles ==
    {[low |-> 200, close |-> 220, high |-> 220],
     [low |-> 190, close |-> 190, high |-> 210]}

Full(margin, available) ==
    [kind |-> "full", margin |-> margin, available |-> available, wallet |-> 400]

NoAnswer(kind) == [kind |-> kind, margin |-> 0, available |-> 0, wallet |-> 0]

\* A free account, one whose margin is nearly used up, one that has none left,
\* a loss that is not yet realised, and the answers that lack something.
FewReplies ==
    {Full(400, 400), Full(400, 40), Full(400, 0), Full(200, 400),
     [kind |-> "balances", margin |-> 0, available |-> 0, wallet |-> 400],
     NoAnswer("TRANSIENT_ERROR"), NoAnswer("CONFIG_ERROR")}
=============================================================================
