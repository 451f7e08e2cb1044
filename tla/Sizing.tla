------------------------------- MODULE Sizing -------------------------------
(***************************************************************************)
(* application/sizing.py: how many lots one tranche of an entry gets.      *)
(* Prices, lots and money are integers in their smallest unit.  cfg holds  *)
(* the strategy's settings (UtBotConfig), spec the broker's (SymbolSpec);  *)
(* cfg.pct and cfg.whole are the risk percentage as a fraction, and budget *)
(* and risk below are in units of 1/cfg.whole of the account currency, so  *)
(* that every comparison is exact.  spec.contract is contract_size times   *)
(* the rate from the quote to the account currency.                        *)
(***************************************************************************)
EXTENDS Integers

Least(a, b)    == IF a <= b THEN a ELSE b
Greatest(a, b) == IF a >= b THEN a ELSE b
Abs(n)         == IF n >= 0 THEN n ELSE -n

\* What UtBotConfig and SymbolSpec validate.
Configs ==
    [mode : {"FIXED", "RISK_PERCENT"}, base : Nat \ {0}, max : Nat \ {0},
     pct : Nat \ {0}, whole : Nat \ {0}]

Valid(cfg) == cfg \in Configs /\ cfg.max >= cfg.base /\ 2 * cfg.pct <= cfg.whole

Specs == [contract : Nat \ {0}, min : Nat \ {0}, step : Nat \ {0}, max : Nat \ {0}]

\* ROUND_FLOOR to a multiple of the volume step.
FloorToStep(value, step) == (value \div step) * step

Budget(cfg, equity) == Abs(equity * cfg.pct)

RiskPerLot(cfg, spec, distance) == distance * spec.contract * cfg.whole

FloorLots(cfg, spec) == Greatest(cfg.base, spec.min)

Rejected(why) == [lots |-> 0, confirm |-> FALSE, rejection |-> why]

\* Mutant of Finalise: the minimum is checked before the volume is floored.
FinaliseChecksFirst(lots, spec, confirm) ==
    IF lots < spec.min
    THEN Rejected("BELOW_BROKER_MINIMUM")
    ELSE [lots |-> FloorToStep(lots, spec.step), confirm |-> confirm, rejection |-> "NONE"]

Finalise(lots, spec, confirm) ==
    LET quantised == FloorToStep(lots, spec.step) IN
    IF quantised < spec.min
    THEN Rejected("BELOW_BROKER_MINIMUM")
    ELSE [lots |-> quantised, confirm |-> confirm, rejection |-> "NONE"]

\* Mutant of SizeEntry: the smallest position is taken without asking.
SizeEntrySilently(cfg, spec, distance, equity) ==
    LET budget == Budget(cfg, equity)
        risk   == RiskPerLot(cfg, spec, distance)
        floor  == FloorLots(cfg, spec)
    IN  IF distance <= 0 THEN Rejected("NON_POSITIVE_RISK")
        ELSE Finalise(Greatest(floor, Least(budget \div risk, Least(cfg.max, spec.max))),
                      spec, FALSE)

\* Mutant of SizeEntry: a position above the cap is refused, not cut down.
SizeEntryRefusing(cfg, spec, distance, equity) ==
    LET budget == Budget(cfg, equity)
        risk   == RiskPerLot(cfg, spec, distance)
        floor  == FloorLots(cfg, spec)
    IN  IF distance <= 0 THEN Rejected("NON_POSITIVE_RISK")
        ELSE IF cfg.mode = "FIXED" THEN Finalise(floor, spec, FALSE)
        ELSE IF budget < floor * risk THEN Finalise(floor, spec, TRUE)
        ELSE IF budget > cfg.max * risk THEN Rejected("BELOW_BROKER_MINIMUM")
        ELSE Finalise(Least(budget \div risk, spec.max), spec, FALSE)

\* lots = 0 stands for None.  The quotient budget / risk is only floored: it is
\* next compared with, and floored to, whole units of lots.
SizeEntry(cfg, spec, distance, equity) ==
    LET budget == Budget(cfg, equity)
        risk   == RiskPerLot(cfg, spec, distance)
        floor  == FloorLots(cfg, spec)
    IN  IF distance <= 0 THEN Rejected("NON_POSITIVE_RISK")
        ELSE IF cfg.mode = "FIXED" THEN Finalise(floor, spec, FALSE)
        ELSE IF budget < floor * risk THEN Finalise(floor, spec, TRUE)
        ELSE Finalise(Least(budget \div risk, Least(cfg.max, spec.max)), spec, FALSE)
=============================================================================
