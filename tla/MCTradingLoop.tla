---------------------------- MODULE MCTradingLoop ----------------------------
(* Instances of TradingLoop for TLC. *)
EXTENDS TradingLoop, TLC

LiveOnly == {{}}
=============================================================================
