------------------------------ MODULE MCIntake -------------------------------
(* Requests that meet: one order in two spellings, its exit, entries that    *)
(* break or lack a limit, and requests that do not validate.                 *)
EXTENDS IntentIntake, TLC

CONSTANT Asking   \* which of the requests below the clients make

Rules(limit) == [metric : Metrics, limit : {limit}]

Base ==
    [signal |-> "s1", version |-> 1, symbol |-> "XAUUSD", side |-> "BUY",
     type |-> "LIMIT", limitPrice |-> 4, referencePrice |-> 4,
     stopLoss |-> 3, takeProfit |-> 5, reduceOnly |-> FALSE, tranche |-> "T1",
     capital |-> 9, weight |-> 0, loss |-> 0, drawdown |-> 0, rules |-> Rules(9) \cup Rules(10), mode |-> "AUTO",
     autoLimit |-> 0, quantity |-> 1, expiry |-> 1]

Exit == [Base EXCEPT !.side = "SELL", !.type = "MARKET", !.limitPrice = 0, !.stopLoss = 0,
                     !.takeProfit = 0, !.reduceOnly = TRUE, !.loss = 10]

Named ==
    [plain   |-> Base,
     spelled |-> [Base EXCEPT !.symbol = "xauusd", !.mode = "CONDITIONAL", !.autoLimit = 3],
     exit    |-> Exit,
     losing  |-> [Base EXCEPT !.signal = "s2", !.mode = "CONDITIONAL",
                              !.autoLimit = 4, !.loss = 10],
     lax     |-> [Base EXCEPT !.signal = "s2", !.loss = 10,
                              !.rules = {x \in @ : x.metric # "DAILY_LOSS"}],
     crossed |-> [Base EXCEPT !.stopLoss = 4],
     ruined  |-> [Exit EXCEPT !.capital = 0]]

AskedFor == {Named[n] : n \in Asking}
ClientSymmetry == Permutations(Clients)
==============================================================================
