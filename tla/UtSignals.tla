----------------------------- MODULE UtSignals ------------------------------
(***************************************************************************)
(* strategies/ut_bot: the indicators and signals computed from closed      *)
(* bars.  A series is a sequence of numbers and NA (None, Pine's na); the  *)
(* i-th bar of the code is bar i + 1 here.  Floats are integers: prices    *)
(* are whole multiples of a unit small enough that the quotients below     *)
(* come out exact, or else are rounded down.                               *)
(***************************************************************************)
EXTENDS Integers, Sequences, Functions, FiniteSetsExt

CONSTANT NA

HullMode == {"HMA", "THMA", "EHMA"}

\* hullLen is hull_length_effective, int(hull_len * hull_mult) but at least 1.
Settings == [key : Nat \ {0}, atr : Nat \ {0}, slLen : Nat \ {0},
             hullMode : HullMode, hullLen : Nat \ {0}]

AtLeastOne(n)   == IF n < 1 THEN 1 ELSE n
Window(i, n)    == i + 1 - n .. i
Full(v, i, n)   == i >= n /\ \A j \in Window(i, n) : v[j] # NA

\* A series as long as v; SubSeq only has TLC evaluate every bar of it once.
Each(v, Op(_)) == SubSeq([i \in DOMAIN v |-> Op(i)], 1, Len(v))

\* pine_round(sqrt(n)): ties go up, and never meet an integer.
RoundedRoot(n) == CHOOSE r \in 1..n : r * r - r < n /\ n <= r * r + r
------------------------------------------------------------------------------
(* Averages.                                                                 *)
SMA(v, n) ==
    Each(v, LAMBDA i : IF Full(v, i, n)
                       THEN FoldFunctionOnSet(+, 0, v, Window(i, n)) \div n ELSE NA)

\* _recursive_average, alpha = a / b: seeded with the SMA, again after every NA.
RecursiveAverage(v, n, a, b) ==
    LET seeded == SMA(v, n)
        average[i \in DOMAIN v] ==
            LET previous == IF i = 1 THEN NA ELSE average[i - 1] IN
            CASE previous = NA               -> seeded[i]
              [] previous # NA /\ v[i] = NA  -> NA
              [] OTHER                       -> (a * v[i] + (b - a) * previous) \div b
    IN  Each(v, LAMBDA i : average[i])

\* Mutant of RMA: EMA's weight in the place of Wilder's.
RMATwice(v, n) == RecursiveAverage(v, n, 2, n)

RMA(v, n) == RecursiveAverage(v, n, 1, n)
EMA(v, n) == RecursiveAverage(v, n, 2, n + 1)

WMA(v, n) ==
    Each(v, LAMBDA i :
        IF Full(v, i, n)
        THEN MapThenSumSet(LAMBDA k : (n - k) * v[i - k], 0 .. n - 1)
                 \div ((n * (n + 1)) \div 2)
        ELSE NA)

DoubleMinusFull(half, whole) ==
    Each(half, LAMBDA i :
        IF NA \in {half[i], whole[i]} THEN NA ELSE 2 * half[i] - whole[i])

HMA(v, n) ==
    WMA(DoubleMinusFull(WMA(v, AtLeastOne(n \div 2)), WMA(v, n)), RoundedRoot(n))

EHMA(v, n) ==
    EMA(DoubleMinusFull(EMA(v, AtLeastOne(n \div 2)), EMA(v, n)), RoundedRoot(n))

THMA(v, n) ==
    LET third == WMA(v, AtLeastOne(n \div 3))
        half  == WMA(v, AtLeastOne(n \div 2))
        whole == WMA(v, n)
    IN  WMA(Each(v, LAMBDA i :
            IF NA \in {third[i], half[i], whole[i]} THEN NA
            ELSE 3 * third[i] - half[i] - whole[i]), n)

TrueRange(bars) ==
    Each(bars, LAMBDA i :
        LET h == bars[i].high
            l == bars[i].low
            before == IF i = 1 THEN l ELSE bars[i - 1].close
        IN  Max({h, before}) - Min({l, before}))
------------------------------------------------------------------------------
(* Signals.                                                                  *)
\* Mutant of Lowest: a window around the bar.
LowestAround(v, n) ==
    Each(v, LAMBDA i : IF i < n THEN NA
                       ELSE Min({v[j] : j \in Window(i, n) \cup ({i + 1} \cap DOMAIN v)}))

Lowest(v, n)  == Each(v, LAMBDA i : IF i < n THEN NA ELSE Min({v[j] : j \in Window(i, n)}))
Highest(v, n) == Each(v, LAMBDA i : IF i < n THEN NA ELSE Max({v[j] : j \in Window(i, n)}))

Known(v, w, i) == i > 1 /\ NA \notin {v[i], w[i], v[i - 1], w[i - 1]}

\* Mutant of Crossover: a level instead of a crossing.
Above(v, w) == Each(v, LAMBDA i : Known(v, w, i) /\ v[i] > w[i])

Crossover(v, w) ==
    Each(v, LAMBDA i : Known(v, w, i) /\ v[i] > w[i] /\ v[i - 1] <= w[i - 1])
Crossunder(v, w) ==
    Each(v, LAMBDA i : Known(v, w, i) /\ v[i] < w[i] /\ v[i - 1] >= w[i - 1])

\* Mutant of TrailingStop: the stop follows the price back.
TrailingStopLoose(closes, loss) ==
    LET stop[i \in DOMAIN closes] ==
            LET base == IF i = 1 \/ loss[i - 1] = NA THEN 0 ELSE stop[i - 1] IN
            CASE loss[i] = NA                          -> NA
              [] loss[i] # NA /\ closes[i] > base      -> closes[i] - loss[i]
              [] OTHER                                 -> closes[i] + loss[i]
    IN  Each(closes, LAMBDA i : stop[i])

\* _trailing_stop: kept on its side of the price while two closes stay there,
\* thrown to the other side otherwise; it starts from 0.
TrailingStop(closes, loss) ==
    LET stop[i \in DOMAIN closes] ==
            LET base     == IF i = 1 \/ loss[i - 1] = NA THEN 0 ELSE stop[i - 1]
                stays(Op(_, _)) ==
                    i > 1 /\ Op(closes[i], base) /\ Op(closes[i - 1], base)
            IN  CASE loss[i] = NA -> NA
                  [] loss[i] # NA /\ stays(>) -> Max({base, closes[i] - loss[i]})
                  [] loss[i] # NA /\ stays(<) -> Min({base, closes[i] + loss[i]})
                  [] OTHER -> IF closes[i] > base THEN closes[i] - loss[i]
                                                  ELSE closes[i] + loss[i]
    IN  Each(closes, LAMBDA i : stop[i])

Hull(closes, cfg) ==
    CASE cfg.hullMode = "HMA"  -> HMA(closes, cfg.hullLen)
      [] cfg.hullMode = "EHMA" -> EHMA(closes, cfg.hullLen)
      [] cfg.hullMode = "THMA" -> THMA(closes, AtLeastOne(cfg.hullLen \div 2))

\* _hull_colors: compared with two bars before.
Colors(hull) ==
    Each(hull, LAMBDA i :
        IF i <= 2 \/ hull[i] = NA \/ hull[i - 2] = NA THEN NA
        ELSE IF hull[i] > hull[i - 2] THEN "green" ELSE "red")

Loss(bars, cfg) ==
    LET range == RMA(TrueRange(bars), cfg.atr) IN
    Each(bars, LAMBDA i : IF range[i] = NA THEN NA ELSE cfg.key * range[i])

ComputeSignals(bars, cfg) ==
    LET closes == Each(bars, LAMBDA i : bars[i].close)
        stop   == TrailingStop(closes, Loss(bars, cfg))
        buy    == Crossover(closes, stop)
        sell   == Crossunder(closes, stop)
        color  == Colors(Hull(closes, cfg))
        low    == Lowest(Each(bars, LAMBDA i : bars[i].low), cfg.slLen)
        high   == Highest(Each(bars, LAMBDA i : bars[i].high), cfg.slLen)
        flips(i, from, to) == i > 1 /\ color[i - 1] = from /\ color[i] = to
    IN  Each(bars, LAMBDA i :
            [buy |-> buy[i], sell |-> sell[i], hull |-> color[i],
             flipDown |-> flips(i, "green", "red"), flipUp |-> flips(i, "red", "green"),
             stop |-> stop[i], stopLow |-> low[i], stopHigh |-> high[i]])
==============================================================================
