----------------------------- MODULE MCExecution -----------------------------
(* Instances of Execution for TLC. *)
EXTENDS ExecutionRefinement, TLC

LiveOnly == {{}}

\* Every early return of execute_trade_plan: one flag alone, and two at once.
SomeModes == {{}, {"DRY_RUN_ONLY"}, {"LIVE_READONLY"}, {"SAFE_RUN", "DRY_RUN_ONLY"}}

\* Stop prices only tell plans apart.
PriceSymmetry == Permutations(Prices)
=============================================================================
