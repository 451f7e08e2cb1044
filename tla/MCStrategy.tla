----------------------------- MODULE MCStrategy ------------------------------
(***************************************************************************)
(* The strategy's functions over bounded inputs: size_entry over every     *)
(* combination of small settings, and compute_signals over every series of *)
(* NumBars bars.                                                           *)
(***************************************************************************)
EXTENDS StrategyCalls

CONSTANTS MaxLots, MaxDistance, MaxEquity, NumBars, Unit

SmallSizings ==
    [fn : {"size_entry"},
     cfg : {c \in [mode : {"FIXED", "RISK_PERCENT"}, base : 1..2, max : 1..MaxLots,
                   pct : {1}, whole : {2}] : Valid(c)},
     spec : [contract : {1, 3}, min : 1..MaxLots, step : 1..2, max : {2, MaxLots}],
     equity : -2..MaxEquity, distance : 0..MaxDistance, wider : 1..MaxDistance]

\* A close on one of three levels, with wicks on neither or on both sides.
BarShapes ==
    {[close |-> c * Unit, high |-> (c + w) * Unit, low |-> (c - w) * Unit] :
        c \in 3..5, w \in {0, 1}}

Strategies ==
    {c \in [key : 1..2, atr : 1..2, slLen : {2}, hullMode : HullMode, hullLen : {2, 4}] :
        c.hullLen = IF c.hullMode = "THMA" THEN 4 ELSE 2}

ShortSeries ==
    [fn : {"compute_signals"}, bars : [1..NumBars -> BarShapes], cfg : Strategies]
==============================================================================
