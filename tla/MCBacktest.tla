----------------------------- MODULE MCBacktest ------------------------------
(* Backtest with four prices and a symbol traded in whole lots.              *)
EXTENDS Backtest, TLC

HalfAtRisk == [mode |-> "RISK_PERCENT", base |-> 1, max |-> 2, pct |-> 1, whole |-> 2]
WholeLots  == [contract |-> 1, min |-> 1, step |-> 1, max |-> 2]
==============================================================================
