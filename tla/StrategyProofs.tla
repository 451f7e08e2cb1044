---------------------------- MODULE StrategyProofs ----------------------------
(***************************************************************************)
(* What size_entry promises, for all settings that UtBotConfig accepts,    *)
(* all broker specifications, equities and stop distances; and what        *)
(* compute_signals promises, for all settings and all series of bars.      *)
(***************************************************************************)
EXTENDS StrategyCalls, SequenceTheorems, FiniteSetTheorems, WellFoundedInduction, TLAPS

------------------------------------------------------------------------------
(* Arithmetic that the provers find by themselves, once it is stated alone.  *)

\* The quotient is the largest whole number of divisors that fits.
LEMMA QuotientFits ==
    ASSUME NEW a \in Int, NEW b \in Nat \ {0}
    PROVE  a \div b \in Int /\ (a \div b) * b <= a /\ a < (a \div b) * b + b
OBVIOUS

\* Multiplication by a natural number is monotone.
LEMMA ProductMono ==
    ASSUME NEW x \in Int, NEW y \in Int, NEW r \in Nat, x <= y
    PROVE  x * r \in Int /\ y * r \in Int /\ x * r <= y * r
OBVIOUS

\* Division by a positive number is monotone.
LEMMA QuotientMono ==
    ASSUME NEW a \in Int, NEW b \in Int, NEW s \in Nat \ {0}, a <= b
    PROVE  a \div s <= b \div s
OBVIOUS

\* A larger divisor goes into a natural number no more often.
LEMMA QuotientAnti ==
    ASSUME NEW b \in Nat, NEW r \in Nat \ {0}, NEW s \in Nat \ {0}, r <= s
    PROVE  b \div s <= b \div r
OBVIOUS

\* What fits as often as f times is a quotient of at least f.
LEMMA QuotientAtLeast ==
    ASSUME NEW b \in Int, NEW r \in Nat \ {0}, NEW f \in Int, f * r <= b
    PROVE  f <= b \div r
OBVIOUS

\* A multiple leaves no remainder.
LEMMA MultipleIsWhole ==
    ASSUME NEW q \in Int, NEW s \in Nat \ {0}
    PROVE  (q * s) % s = 0
OBVIOUS

\* The product of positive numbers is positive.
LEMMA ProductPositive ==
    ASSUME NEW a \in Nat \ {0}, NEW b \in Nat \ {0}
    PROVE  a * b \in Nat \ {0}
OBVIOUS
------------------------------------------------------------------------------
(* The operators of Sizing.                                                  *)

\* _floor_to_step: a multiple of the step, no larger than the value, and in the
\* order of the values.
LEMMA FloorIsBelow ==
    ASSUME NEW value \in Int, NEW step \in Nat \ {0}
    PROVE  /\ FloorToStep(value, step) \in Int
           /\ FloorToStep(value, step) <= value
           /\ FloorToStep(value, step) % step = 0
<1>1. value \div step \in Int /\ (value \div step) * step <= value
  BY QuotientFits
<1>2. ((value \div step) * step) % step = 0
  BY <1>1, MultipleIsWhole
<1>3. (value \div step) * step \in Int
  BY <1>1
<1> QED BY <1>1, <1>2, <1>3, Zenon DEF FloorToStep

LEMMA FloorMono ==
    ASSUME NEW a \in Int, NEW b \in Int, NEW step \in Nat \ {0}, a <= b
    PROVE  FloorToStep(a, step) <= FloorToStep(b, step)
<1>1. a \div step \in Int /\ b \div step \in Int
  BY QuotientFits
<1>2. a \div step <= b \div step
  BY QuotientMono
<1> QED BY <1>1, <1>2, ProductMono DEF FloorToStep

\* _finalise: either nothing, or the floored volume with the flag it was given.
LEMMA FinaliseResult ==
    ASSUME NEW lots \in Int, NEW spec \in Specs, NEW confirm
    PROVE  LET out == Finalise(lots, spec, confirm) IN
           /\ out.lots \in Nat
           /\ out.lots # 0 => /\ out.lots = FloorToStep(lots, spec.step)
                              /\ out.lots >= spec.min
                              /\ out.confirm = confirm
<1>1. spec.step \in Nat \ {0} /\ spec.min \in Nat \ {0}
  BY DEF Specs
<1>2. FloorToStep(lots, spec.step) \in Int
  BY <1>1, FloorIsBelow
<1> QED BY <1>1, <1>2 DEF Finalise, Rejected

\* Of two volumes the larger one is not finalised to less.
LEMMA FinaliseMono ==
    ASSUME NEW a \in Int, NEW b \in Int, a <= b, NEW spec \in Specs,
           NEW f, NEW g, NEW less, NEW more,
           less = Finalise(a, spec, f), more = Finalise(b, spec, g)
    PROVE  less.lots <= more.lots
<1>1. spec.step \in Nat \ {0} /\ spec.min \in Nat \ {0}
  BY DEF Specs
<1>2. /\ FloorToStep(a, spec.step) \in Int
      /\ FloorToStep(b, spec.step) \in Int
      /\ FloorToStep(a, spec.step) <= FloorToStep(b, spec.step)
  BY <1>1, FloorIsBelow, FloorMono
<1> QED BY <1>1, <1>2 DEF Finalise, Rejected

\* The quantities of size_entry for a positive distance.
LEMMA Quantities ==
    ASSUME NEW cfg, Valid(cfg), NEW spec \in Specs, NEW equity \in Int,
           NEW distance \in Int, distance > 0
    PROVE  /\ Budget(cfg, equity) \in Nat
           /\ RiskPerLot(cfg, spec, distance) \in Nat \ {0}
           /\ FloorLots(cfg, spec) \in Nat \ {0}
           /\ Least(cfg.max, spec.max) \in Nat \ {0}
           /\ spec.step \in Nat \ {0}
           /\ spec.min \in Nat \ {0}
           /\ cfg.max \in Nat \ {0}
           /\ cfg.base \in Nat \ {0}
           /\ cfg.base <= cfg.max
<1>1. /\ cfg.pct \in Nat \ {0} /\ cfg.whole \in Nat \ {0}
      /\ cfg.max \in Nat \ {0} /\ cfg.base \in Nat \ {0} /\ cfg.base <= cfg.max
  BY DEF Valid, Configs
<1>2. /\ spec.contract \in Nat \ {0} /\ spec.max \in Nat \ {0}
      /\ spec.min \in Nat \ {0} /\ spec.step \in Nat \ {0}
  BY DEF Specs
<1>3. Budget(cfg, equity) \in Nat
  <2>1. equity * cfg.pct \in Int
    BY <1>1
  <2> QED BY <2>1 DEF Budget, Abs
<1>4. RiskPerLot(cfg, spec, distance) \in Nat \ {0}
  <2>1. distance * spec.contract \in Nat \ {0}
    BY <1>2, ProductPositive
  <2> QED BY <1>1, <2>1, ProductPositive DEF RiskPerLot
<1> QED BY <1>1, <1>2, <1>3, <1>4 DEF FloorLots, Greatest, Least

------------------------------------------------------------------------------
(* What SizeEntry gives.                                                     *)

\* The returns of size_entry, each under its condition.
LEMMA SizeCases ==
    ASSUME NEW cfg, NEW spec, NEW equity, NEW distance
    PROVE  LET out    == SizeEntry(cfg, spec, distance, equity)
               budget == Budget(cfg, equity)
               risk   == RiskPerLot(cfg, spec, distance)
               floor  == FloorLots(cfg, spec)
               cap    == Least(cfg.max, spec.max)
           IN
           /\ distance <= 0 => out = Rejected("NON_POSITIVE_RISK")
           /\ ~(distance <= 0) /\ cfg.mode = "FIXED" => out = Finalise(floor, spec, FALSE)
           /\ ~(distance <= 0) /\ cfg.mode # "FIXED" /\ budget < floor * risk
                => out = Finalise(floor, spec, TRUE)
           /\ ~(distance <= 0) /\ cfg.mode # "FIXED" /\ ~(budget < floor * risk)
                => out = Finalise(Least(budget \div risk, cap), spec, FALSE)
BY Zenon DEF SizeEntry

\* size_entry, RISK_PERCENT: an entry that needs no confirmation fits into the
\* budget at its own risk per lot.
LEMMA SizeWithinBudget ==
    ASSUME NEW cfg, Valid(cfg), NEW spec \in Specs, NEW equity \in Int,
           NEW distance \in Int, cfg.mode = "RISK_PERCENT",
           NEW out, out = SizeEntry(cfg, spec, distance, equity), ~out.confirm
    PROVE  out.lots * RiskPerLot(cfg, spec, distance) <= Budget(cfg, equity)
<1> PICK budget : budget = Budget(cfg, equity)
  OBVIOUS
<1> PICK risk : risk = RiskPerLot(cfg, spec, distance)
  OBVIOUS
<1> PICK floor : floor = FloorLots(cfg, spec)
  OBVIOUS
<1> PICK cap : cap = Least(cfg.max, spec.max)
  OBVIOUS
<1>1. budget \in Nat /\ risk \in Int
  <2>1. cfg.pct \in Nat \ {0} /\ cfg.whole \in Nat \ {0} /\ spec.contract \in Nat \ {0}
    BY DEF Valid, Configs, Specs
  <2>2. equity * cfg.pct \in Int /\ distance * spec.contract * cfg.whole \in Int
    BY <2>1
  <2> QED BY <2>2 DEF Budget, RiskPerLot, Abs
<1>2. CASE out.lots = 0
  <2>1. 0 * risk = 0
    BY <1>1
  <2> QED BY <1>1, <1>2, <2>1
<1>3. CASE out.lots # 0
  <2>1. distance > 0
    <3>1. distance <= 0 => out = Rejected("NON_POSITIVE_RISK")
      BY SizeCases
    <3> QED BY <1>3, <3>1 DEF Rejected
  <2>2. ~(distance <= 0) /\ cfg.mode # "FIXED"
    BY <2>1
  <2>3. risk \in Nat \ {0} /\ floor \in Nat \ {0} /\ cap \in Nat \ {0} /\ spec.step \in Nat \ {0}
    BY <2>1, Quantities
  <2>4. budget \div risk \in Int /\ (budget \div risk) * risk <= budget
    BY <1>1, <2>3, QuotientFits, SMTT(30)
  <2>5. CASE budget < floor * risk
    <3>1. out = Finalise(floor, spec, TRUE)
      BY <2>2, <2>5, SizeCases
    <3>2. out.confirm = TRUE
      <4>1. floor \in Int
        BY <2>3
      <4>2. Finalise(floor, spec, TRUE).lots # 0 => Finalise(floor, spec, TRUE).confirm = TRUE
        BY <4>1, FinaliseResult, ZenonT(60)
      <4> QED BY <1>3, <3>1, <4>2, Zenon
    <3> QED BY <3>2
  <2>6. CASE ~(budget < floor * risk)
    <3> PICK asked : asked = Least(budget \div risk, cap)
      OBVIOUS
    <3>1. out = Finalise(asked, spec, FALSE)
      BY <2>2, <2>6, SizeCases
    <3>2. asked \in Int /\ asked <= budget \div risk
      BY <2>3, <2>4 DEF Least
    <3>3. out.lots = FloorToStep(asked, spec.step)
      <4>1. asked \in Int
        BY <3>2
      <4>2. Finalise(asked, spec, FALSE).lots # 0 =>
                Finalise(asked, spec, FALSE).lots = FloorToStep(asked, spec.step)
        BY <4>1, FinaliseResult, ZenonT(60)
      <4> QED BY <1>3, <3>1, <4>2, ZenonT(60)
    <3>4. out.lots \in Int /\ out.lots <= asked
      BY <2>3, <3>2, <3>3, FloorIsBelow
    <3>5. out.lots <= budget \div risk
      BY <2>4, <3>2, <3>4
    <3>6. /\ out.lots * risk \in Int /\ (budget \div risk) * risk \in Int
          /\ out.lots * risk <= (budget \div risk) * risk
      BY <2>3, <2>4, <3>4, <3>5, ProductMono
    <3> QED BY <1>1, <2>4, <3>6
  <2> QED BY <2>5, <2>6
<1> QED BY <1>2, <1>3

\* size_entry: the volume is whole steps, no less than the broker's minimum, and
\* no more than max_lots where the minimum is none.
LEMMA SizeTradable ==
    ASSUME NEW cfg, Valid(cfg), NEW spec \in Specs, NEW equity \in Int,
           NEW distance \in Int,
           NEW out, out = SizeEntry(cfg, spec, distance, equity), out.lots # 0
    PROVE  /\ out.lots % spec.step = 0
           /\ out.lots >= spec.min
           /\ spec.min <= cfg.max => out.lots <= cfg.max
<1> PICK budget : budget = Budget(cfg, equity)
  OBVIOUS
<1> PICK risk : risk = RiskPerLot(cfg, spec, distance)
  OBVIOUS
<1> PICK floor : floor = FloorLots(cfg, spec)
  OBVIOUS
<1> PICK cap : cap = Least(cfg.max, spec.max)
  OBVIOUS
<1>1. distance > 0
  <2>1. distance <= 0 => out = Rejected("NON_POSITIVE_RISK")
    BY SizeCases
  <2> QED BY <2>1 DEF Rejected
<1>2. /\ budget \in Nat /\ risk \in Nat \ {0} /\ floor \in Nat \ {0} /\ cap \in Nat \ {0}
      /\ spec.step \in Nat \ {0} /\ spec.min \in Nat \ {0} /\ cfg.max \in Nat \ {0}
      /\ cfg.base \in Nat \ {0} /\ cfg.base <= cfg.max
  BY <1>1, Quantities
<1>3. budget \div risk \in Int
  BY <1>2, QuotientFits
<1>4. PICK asked \in {floor, Least(budget \div risk, cap)} :
        \E confirm : out = Finalise(asked, spec, confirm)
  <2>1. ~(distance <= 0)
    BY <1>1
  <2>2. \/ out = Finalise(floor, spec, FALSE)
        \/ out = Finalise(floor, spec, TRUE)
        \/ out = Finalise(Least(budget \div risk, cap), spec, FALSE)
    BY <2>1, SizeCases, Zenon
  <2> QED BY <2>2, Zenon
<1>5. asked \in Int /\ (spec.min <= cfg.max => asked <= cfg.max)
  <2>1. CASE asked = floor
    BY <1>2, <2>1 DEF FloorLots, Greatest
  <2>2. CASE asked = Least(budget \div risk, cap)
    <3>1. cap <= cfg.max
      BY <1>2 DEF Least, Specs
    <3>2. asked \in Int /\ asked <= cap
      BY <1>2, <1>3, <2>2 DEF Least
    <3> QED BY <1>2, <3>1, <3>2
  <2> QED BY <1>4, <2>1, <2>2
<1>6. out.lots = FloorToStep(asked, spec.step) /\ out.lots >= spec.min
  BY <1>4, <1>5, FinaliseResult
<1>7. out.lots \in Int /\ out.lots <= asked /\ out.lots % spec.step = 0
  BY <1>2, <1>5, <1>6, FloorIsBelow
<1> QED BY <1>2, <1>5, <1>6, <1>7

\* size_entry: a wider stop gets no more lots, as long as the floor is below the
\* caps.
LEMMA SizeMonotone ==
    ASSUME NEW cfg, Valid(cfg), NEW spec \in Specs, NEW equity \in Int,
           NEW distance \in Int, NEW wider \in Int, 0 < distance, distance <= wider,
           FloorLots(cfg, spec) <= Least(cfg.max, spec.max),
           NEW near, near = SizeEntry(cfg, spec, distance, equity),
           NEW far, far = SizeEntry(cfg, spec, wider, equity)
    PROVE  far.lots <= near.lots
<1> PICK budget : budget = Budget(cfg, equity)
  OBVIOUS
<1> PICK r : r = RiskPerLot(cfg, spec, distance)
  OBVIOUS
<1> PICK s : s = RiskPerLot(cfg, spec, wider)
  OBVIOUS
<1> PICK floor : floor = FloorLots(cfg, spec)
  OBVIOUS
<1> PICK cap : cap = Least(cfg.max, spec.max)
  OBVIOUS
<1>1. /\ budget \in Nat /\ r \in Nat \ {0} /\ s \in Nat \ {0}
      /\ floor \in Nat \ {0} /\ cap \in Nat \ {0} /\ floor <= cap
  BY Quantities
<1>2. r <= s
  <2>1. cfg.whole \in Nat /\ spec.contract \in Nat
    BY DEF Valid, Configs, Specs
  <2>2. /\ distance * spec.contract \in Int /\ wider * spec.contract \in Int
        /\ distance * spec.contract <= wider * spec.contract
    BY <2>1, ProductMono
  <2> QED BY <2>1, <2>2, ProductMono DEF RiskPerLot
<1>3. ~(distance <= 0) /\ ~(wider <= 0) /\ floor \in Int /\ floor <= floor
  BY <1>1
<1>4. CASE cfg.mode = "FIXED"
  <2>1. near = Finalise(floor, spec, FALSE) /\ far = Finalise(floor, spec, FALSE)
    BY <1>3, <1>4, SizeCases, Zenon
  <2> QED BY <1>3, <2>1, FinaliseMono, Zenon
<1>5. CASE cfg.mode # "FIXED"
  <2> PICK p : p = Least(budget \div r, cap)
    OBVIOUS
  <2> PICK q : q = Least(budget \div s, cap)
    OBVIOUS
  <2>1. /\ budget < floor * r => near = Finalise(floor, spec, TRUE)
        /\ ~(budget < floor * r) => near = Finalise(p, spec, FALSE)
    BY <1>3, <1>5, SizeCases, Zenon
  <2>2. /\ budget < floor * s => far = Finalise(floor, spec, TRUE)
        /\ ~(budget < floor * s) => far = Finalise(q, spec, FALSE)
    BY <1>3, <1>5, SizeCases, Zenon
  <2>3. budget \div r \in Int /\ budget \div s \in Int /\ budget \div s <= budget \div r
    <3>1. budget \div r \in Int /\ budget \div s \in Int
      BY <1>1, QuotientFits
    <3>2. budget \div s <= budget \div r
      BY <1>1, <1>2, QuotientAnti
    <3> QED BY <3>1, <3>2
  <2>4. p \in Int /\ q \in Int /\ q <= p
    BY <1>1, <2>3 DEF Least
  <2>5. floor * r \in Int /\ floor * s \in Int /\ floor * r <= floor * s
    <3>1. floor * r = r * floor /\ floor * s = s * floor
      BY <1>1
    <3> QED BY <1>1, <1>2, <3>1, ProductMono
  <2>6. CASE budget < floor * r
    <3>1. near = Finalise(floor, spec, TRUE) /\ far = Finalise(floor, spec, TRUE)
      <4>1. budget < floor * s
        BY <1>1, <2>5, <2>6
      <4> QED BY <2>1, <2>2, <2>6, <4>1, Zenon
    <3> QED BY <1>3, <3>1, FinaliseMono, Zenon
  <2>7. CASE ~(budget < floor * r) /\ budget < floor * s
    <3>1. near = Finalise(p, spec, FALSE) /\ far = Finalise(floor, spec, TRUE)
      BY <2>1, <2>2, <2>7, Zenon
    <3>2. floor * r <= budget
      BY <1>1, <2>5, <2>7
    <3>3. floor <= budget \div r
      BY <1>1, <3>2, QuotientAtLeast
    <3>4. floor <= p
      BY <1>1, <2>3, <3>3 DEF Least
    <3> QED BY <1>3, <2>4, <3>1, <3>4, FinaliseMono, Zenon
  <2>8. CASE ~(budget < floor * r) /\ ~(budget < floor * s)
    <3>1. near = Finalise(p, spec, FALSE) /\ far = Finalise(q, spec, FALSE)
      BY <2>1, <2>2, <2>8, Zenon
    <3> QED BY <2>4, <3>1, FinaliseMono, ZenonT(60)
  <2> QED BY <2>6, <2>7, <2>8
<1> QED BY <1>4, <1>5
------------------------------------------------------------------------------
(* Numbers in order, recursion over bars, and sums.                          *)

\* A nonempty set of numbers has a least one.
LEMMA LeastNumber ==
    ASSUME NEW S, S \subseteq Nat, S # {}
    PROVE  \E m \in S : \A n \in S : m <= n
<1> DEFINE R == StrictSubsetOrdering(Nat)
           T == {0..n : n \in S}
<1>1. T # {} /\ T \subseteq FiniteSubsetsOf(Nat)
  <2>1. ASSUME NEW n \in S
        PROVE  0..n \in FiniteSubsetsOf(Nat)
    <3>1. IsFiniteSet(0..n) /\ 0..n \subseteq Nat
      BY FS_Interval
    <3> QED BY <3>1 DEF FiniteSubsetsOf
  <2> QED BY <2>1
<1>2. IsWellFoundedOn(R, FiniteSubsetsOf(Nat))
  BY FS_StrictSubsetOrderingWellFounded
<1>3. PICK x \in T : \A y \in T : <<y, x>> \notin R
  BY <1>1, <1>2, WFMin
<1>4. PICK m \in S : x = 0..m
  OBVIOUS
<1>5. \A n \in S : m <= n
  <2> SUFFICES ASSUME NEW n \in S, n < m
               PROVE  FALSE
    OBVIOUS
  <2>1. 0..n \subseteq 0..m /\ 0..n # 0..m
    OBVIOUS
  <2>2. <<0..n, x>> \in R
    BY <1>4, <2>1 DEF StrictSubsetOrdering
  <2> QED BY <1>3, <2>2
<1> QED BY <1>5

\* f begins with start and goes from each value to the next by step.
Recursion(f, n, V, start, step) ==
    /\ f \in [0..n -> V]
    /\ f[0] = start
    /\ \A i \in 1..n : f[i] = step[<<i, f[i - 1]>>]

\* A step from each value to the next makes a function.
LEMMA RecursionIsDefined ==
    ASSUME NEW n \in Nat, NEW V, NEW start \in V, NEW step \in [(1..n) \X V -> V]
    PROVE  \E f : Recursion(f, n, V, start, step)
<1> USE DEF Recursion
<1> DEFINE Made(f, k) == Recursion(f, k, V, start, step)
           S == {k \in 0..n : ~ \E f : Made(f, k)}
<1>1. CASE \E f : Made(f, n)
  BY <1>1
<1>2. CASE ~ \E f : Made(f, n)
  <2>1. PICK m \in S : \A k \in S : m <= k
    <3> HIDE DEF Made
    <3>1. S \subseteq Nat /\ n \in S
      BY <1>2
    <3> HIDE DEF S
    <3> QED BY <3>1, LeastNumber
  <2>2. m \in 0..n /\ ~ \E f : Made(f, m)
    <3> HIDE DEF Made
    <3> QED OBVIOUS
  <2>3. m # 0
    <3> SUFFICES ASSUME m = 0 PROVE FALSE
      OBVIOUS
    <3>1. Made([i \in 0..0 |-> start], 0)
      OBVIOUS
    <3> HIDE DEF Made
    <3> QED BY <2>2, <3>1
  <2>4. m - 1 \in 0..n /\ m \in 1..n /\ m - 1 < m
    BY <2>2, <2>3
  <2>5. PICK f : Made(f, m - 1)
    <3> HIDE DEF Made
    <3> QED BY <2>1, <2>4
  <2>6. f \in [0 .. m - 1 -> V] /\ f[0] = start
    BY <2>5
  <2>7. \A i \in 1 .. m - 1 : f[i] = step[<<i, f[i - 1]>>]
    BY <2>5
  <2>8. PICK next : next = step[<<m, f[m - 1]>>]
    OBVIOUS
  <2>9. next \in V
    <3>1. f[m - 1] \in V
      BY <2>4, <2>6
    <3> QED BY <2>4, <2>8, <3>1
  <2> DEFINE g == [i \in 0..m |-> IF i = m THEN next ELSE f[i]]
  <2>10. g \in [0..m -> V]
    <3>1. \A i \in 0..m : i # m => f[i] \in V
      BY <2>4, <2>6
    <3> QED BY <2>9, <3>1
  <2>11. g[0] = start
    BY <2>4, <2>6
  <2>12. ASSUME NEW i \in 1..m PROVE g[i] = step[<<i, g[i - 1]>>]
    <3>0. i \in 0..m /\ i - 1 \in 0..m /\ i - 1 # m
      BY <2>4
    <3>1. CASE i = m
      BY <2>8, <3>0, <3>1
    <3>2. CASE i # m
      <4>1. i \in 1 .. m - 1
        BY <2>4, <3>2
      <4> QED BY <2>7, <3>0, <3>2, <4>1
    <3> QED BY <3>1, <3>2
  <2>13. Made(g, m)
    <3> HIDE DEF g
    <3> QED BY <2>10, <2>11, <2>12
  <2> QED BY <2>2, <2>13
<1> QED BY <1>1, <1>2

\* The member of s that a fold takes next.
Pick(s) == CHOOSE x \in s : TRUE

\* The next member to be added up is one.
LEMMA PickIsMember ==
    ASSUME NEW s, s # {}
    PROVE  Pick(s) \in s
BY DEF Pick

\* sum gives each subset of W the sum of its members' values, taken one by one.
Adds(sum, v, W) ==
    sum = [s \in SUBSET W |-> IF s = {} THEN 0 ELSE v[Pick(s)] + sum[s \ {Pick(s)}]]

\* Adding up the members of a finite set one by one defines a sum for each of its
\* subsets: the sums of subsets with at most k members are right after k rounds.
LEMMA SumIsDefined ==
    ASSUME NEW W, IsFiniteSet(W), NEW v, \A x \in W : v[x] \in Int
    PROVE  \E sum : Adds(sum, v, W)
<1> USE DEF Adds
<1> DEFINE V == [SUBSET W -> Int]
           Round(f) == [s \in SUBSET W |->
                           IF s = {} THEN 0 ELSE v[Pick(s)] + f[s \ {Pick(s)}]]
<1>1. ASSUME NEW f \in V PROVE Round(f) \in V
  <2> SUFFICES ASSUME NEW s \in SUBSET W, s # {}
               PROVE  v[Pick(s)] + f[s \ {Pick(s)}] \in Int
    OBVIOUS
  <2>1. Pick(s) \in W /\ s \ {Pick(s)} \in SUBSET W
    BY PickIsMember
  <2>2. f[s \ {Pick(s)}] \in Int /\ v[Pick(s)] \in Int
    BY <2>1
  <2> QED BY <2>2
<1>2. PICK n \in Nat : n = Cardinality(W) + 1
  BY FS_CardinalityType
<1>3. PICK F \in [0..n -> V] : F[0] = [s \in SUBSET W |-> 0] /\ \A i \in 1..n : F[i] = Round(F[i - 1])
  <2>1. PICK step : step = [p \in (1..n) \X V |-> Round(p[2])]
    OBVIOUS
  <2>2. PICK none : none = [s \in SUBSET W |-> 0]
    OBVIOUS
  <2>3. step \in [(1..n) \X V -> V] /\ none \in V
    <3>1. none \in V
      BY <2>2
    <3> HIDE DEF V, Round
    <3> QED BY <1>1, <2>1, <3>1
  <2>4. PICK F \in [0..n -> V] : F[0] = none /\ \A i \in 1..n : F[i] = step[<<i, F[i - 1]>>]
    <3> HIDE DEF V, Round
    <3>1. \E f : Recursion(f, n, V, none, step)
      BY <2>3, RecursionIsDefined
    <3> QED BY <3>1 DEF Recursion
  <2>5. ASSUME NEW i \in 1..n PROVE F[i] = Round(F[i - 1])
    <3> HIDE DEF V, Round
    <3>1. F[i - 1] \in V
      BY <2>4
    <3>2. F[i] = step[<<i, F[i - 1]>>] /\ <<i, F[i - 1]>> \in (1..n) \X V
      BY <2>4, <3>1
    <3> QED BY <2>1, <3>2
  <2> QED BY <2>2, <2>4, <2>5
<1>4. ASSUME NEW s \in SUBSET W
      PROVE  /\ Cardinality(s) \in Nat /\ Cardinality(s) < n
             /\ s # {} => /\ s \ {Pick(s)} \in SUBSET W
                          /\ Cardinality(s \ {Pick(s)}) \in Nat
                          /\ Cardinality(s \ {Pick(s)}) < Cardinality(s)
  <2>1. IsFiniteSet(s) /\ Cardinality(s) \in Nat /\ Cardinality(s) <= Cardinality(W)
    BY FS_Subset, FS_CardinalityType
  <2>2. Cardinality(W) \in Nat
    BY FS_CardinalityType
  <2>3. ASSUME s # {}
        PROVE  /\ Cardinality(s \ {Pick(s)}) = Cardinality(s) - 1
               /\ Cardinality(s) # 0
    <3>1. Pick(s) \in s
      BY <2>3, PickIsMember
    <3> QED BY <2>1, <2>3, <3>1, FS_RemoveElement, FS_EmptySet
  <2> QED BY <1>2, <2>1, <2>2, <2>3
<1> DEFINE Open == {k \in 1..n : \E s \in SUBSET W : Cardinality(s) < k /\ F[k][s] # F[k - 1][s]}
<1>5. Open = {}
  <2> SUFFICES ASSUME Open # {} PROVE FALSE
    OBVIOUS
  <2>1. PICK k \in Open : \A j \in Open : k <= j
    <3>1. Open \subseteq Nat
      OBVIOUS
    <3> HIDE DEF Open
    <3> QED BY <3>1, LeastNumber
  <2>2. PICK s \in SUBSET W : Cardinality(s) < k /\ F[k][s] # F[k - 1][s]
    BY <2>1
  <2>3. k \in 1..n
    BY <2>1
  <2>4. F[k] = Round(F[k - 1])
    BY <1>3, <2>3
  <2>5. s # {}
    <3> SUFFICES ASSUME s = {} PROVE FALSE
      OBVIOUS
    <3>1. F[k][s] = 0
      BY <2>4
    <3>2. F[k - 1][s] = 0
      <4>1. CASE k = 1
        BY <1>3, <4>1
      <4>2. CASE k # 1
        <5>1. k - 1 \in 1..n /\ k - 2 = (k - 1) - 1
          BY <2>3, <4>2
        <5>2. F[k - 1] = Round(F[k - 2])
          BY <1>3, <5>1
        <5> QED BY <5>2
      <4> QED BY <4>1, <4>2
    <3> QED BY <2>2, <3>1, <3>2
  <2> PICK r : r = s \ {Pick(s)}
    OBVIOUS
  <2>6. r \in SUBSET W /\ Cardinality(r) \in Nat /\ Cardinality(r) < Cardinality(s)
    BY <1>4, <2>5
  <2>7. Cardinality(s) \in Nat
    BY <1>4
  <2>8. k # 1
    BY <2>2, <2>6, <2>7
  <2>9. k - 1 \in 1..n /\ k - 2 = (k - 1) - 1 /\ k - 1 < k
    BY <2>3, <2>8
  <2>10. F[k - 1] = Round(F[k - 2])
    BY <1>3, <2>9
  <2>11. F[k][s] = v[Pick(s)] + F[k - 1][r] /\ F[k - 1][s] = v[Pick(s)] + F[k - 2][r]
    BY <2>4, <2>5, <2>10
  <2>12. F[k - 1][r] = F[k - 2][r]
    <3>1. k - 1 \notin Open
      BY <2>1, <2>3, <2>9
    <3>2. Cardinality(r) < k - 1
      BY <2>2, <2>3, <2>6, <2>7
    <3> QED BY <2>6, <2>9, <3>1, <3>2
  <2> QED BY <2>2, <2>11, <2>12
<1>6. F[n] = F[n - 1] /\ F[n] = Round(F[n - 1]) /\ F[n] \in V
  <2>1. n \in 1..n /\ n - 1 \in 0..n
    BY <1>2, FS_CardinalityType
  <2>2. F[n] = Round(F[n - 1])
    BY <1>3, <2>1
  <2>3. F[n] \in V /\ F[n - 1] \in V
    <3> HIDE DEF V
    <3> QED BY <2>1
  <2>4. \A s \in SUBSET W : F[n][s] = F[n - 1][s]
    BY <1>4, <1>5, <2>1
  <2> QED BY <2>2, <2>3, <2>4
<1> QED
  <2>1. F[n] \in V /\ F[n] = Round(F[n])
    <3> HIDE DEF V, Round
    <3> QED BY <1>6
  <2> PICK sum : sum = F[n]
    OBVIOUS
  <2>2. sum \in V /\ sum = Round(sum)
    <3> HIDE DEF V, Round
    <3> QED BY <2>1
  <2>3. Adds(sum, v, W)
    BY <2>2
  <2> HIDE DEF Adds
  <2> QED BY <2>3

\* Induction over the numbers from 1 to n, in set form.
LEMMA CountingUp ==
    ASSUME NEW n \in Nat, NEW Good,
           ASSUME NEW i \in 1..n, \A j \in 1 .. i - 1 : j \in Good
           PROVE  i \in Good
    PROVE  \A i \in 1..n : i \in Good
<1> DEFINE Bad == {i \in 1..n : i \notin Good}
<1>1. ASSUME Bad # {} PROVE FALSE
  <2>1. PICK i \in Bad : \A j \in Bad : i <= j
    <3>1. Bad \subseteq Nat
      OBVIOUS
    <3> HIDE DEF Bad
    <3> QED BY <1>1, <3>1, LeastNumber
  <2>2. i \in 1..n /\ i \notin Good
    BY <2>1
  <2>3. \A j \in 1 .. i - 1 : j \in Good
    BY <2>1, <2>2
  <2> QED BY <2>2, <2>3
<1> QED BY <1>1

\* Induction over the subsets of a finite set, one member at a time.
LEMMA AddingUp ==
    ASSUME NEW W, IsFiniteSet(W), NEW Good, {} \in Good,
           ASSUME NEW s \in SUBSET W, s # {}, s \ {Pick(s)} \in Good
           PROVE  s \in Good
    PROVE  \A s \in SUBSET W : s \in Good
<1> DEFINE Sizes == {k \in Nat : \E s \in SUBSET W : s \notin Good /\ Cardinality(s) = k}
<1>1. ASSUME Sizes # {} PROVE FALSE
  <2>1. PICK k \in Sizes : \A j \in Sizes : k <= j
    <3>1. Sizes \subseteq Nat
      OBVIOUS
    <3> HIDE DEF Sizes
    <3> QED BY <1>1, <3>1, LeastNumber
  <2>2. PICK s \in SUBSET W : s \notin Good /\ Cardinality(s) = k
    BY <2>1
  <2>3. s # {}
    BY <2>2
  <2> PICK r : r = s \ {Pick(s)}
    OBVIOUS
  <2>4. r \in SUBSET W /\ Cardinality(r) \in Nat /\ Cardinality(r) < k
    <3>1. Pick(s) \in s
      BY <2>3, PickIsMember
    <3>2. IsFiniteSet(s) /\ Cardinality(s) \in Nat
      BY FS_Subset, FS_CardinalityType
    <3>3. Cardinality(r) = Cardinality(s) - 1 /\ Cardinality(s) # 0
      BY <2>3, <3>1, <3>2, FS_RemoveElement, FS_EmptySet
    <3>4. IsFiniteSet(r) /\ Cardinality(r) \in Nat
      BY <3>2, FS_Subset, FS_CardinalityType
    <3> QED BY <2>2, <3>2, <3>3, <3>4
  <2>5. k \in Nat
    BY <2>1
  <2>6. r \in Good
    <3> SUFFICES ASSUME r \notin Good PROVE FALSE
      OBVIOUS
    <3>1. Cardinality(r) \in Sizes
      BY <2>4
    <3>2. k <= Cardinality(r)
      BY <2>1, <3>1
    <3> QED BY <2>4, <2>5, <3>2
  <2> QED BY <2>2, <2>3, <2>6
<1>2. ASSUME NEW s \in SUBSET W PROVE Cardinality(s) \in Nat
  BY FS_Subset, FS_CardinalityType
<1> QED BY <1>1, <1>2

\* The sum of numbers is a number.
LEMMA SumIsNumber ==
    ASSUME NEW W, IsFiniteSet(W), NEW v, \A x \in W : v[x] \in Int,
           NEW sum, Adds(sum, v, W)
    PROVE  \A s \in SUBSET W : sum[s] \in Int
<1> DEFINE Good == {s \in SUBSET W : sum[s] \in Int}
<1>1. {} \in Good
  BY DEF Adds
<1>2. ASSUME NEW s \in SUBSET W, s # {}, s \ {Pick(s)} \in Good
      PROVE  s \in Good
  <2>1. Pick(s) \in W /\ sum[s \ {Pick(s)}] \in Int
    BY <1>2, PickIsMember
  <2>2. sum[s] = v[Pick(s)] + sum[s \ {Pick(s)}]
    BY <1>2 DEF Adds
  <2> QED BY <2>1, <2>2
<1>3. \A s \in SUBSET W : s \in Good
  <2> HIDE DEF Good
  <2> QED BY <1>1, <1>2, AddingUp
<1> QED BY <1>3

\* The sum of numbers from 0 to most is at most most for each of them.
LEMMA SumIsBounded ==
    ASSUME NEW W, IsFiniteSet(W), NEW v, NEW most \in Nat, \A x \in W : v[x] \in 0..most,
           NEW sum, Adds(sum, v, W)
    PROVE  \A s \in SUBSET W : sum[s] \in Nat /\ sum[s] <= most * Cardinality(s)
<1> DEFINE Good == {s \in SUBSET W : sum[s] \in Nat /\ sum[s] <= most * Cardinality(s)}
<1>1. {} \in Good
  <2>1. Cardinality({}) = 0 /\ most * 0 = 0
    BY FS_EmptySet
  <2>2. sum[{}] = 0
    BY DEF Adds
  <2> QED BY <2>1, <2>2
<1>2. ASSUME NEW s \in SUBSET W, s # {}, s \ {Pick(s)} \in Good
      PROVE  s \in Good
  <2> PICK r : r = s \ {Pick(s)}
    OBVIOUS
  <2> PICK x : x = Pick(s)
    OBVIOUS
  <2>1. x \in s /\ x \in W /\ v[x] \in 0..most
    BY <1>2, PickIsMember
  <2>2. sum[s] = v[x] + sum[r]
    BY <1>2 DEF Adds
  <2>3. sum[r] \in Nat /\ sum[r] <= most * Cardinality(r)
    BY <1>2
  <2>4. Cardinality(s) \in Nat /\ Cardinality(r) \in Nat /\ Cardinality(s) = Cardinality(r) + 1
    <3>1. IsFiniteSet(s) /\ Cardinality(s) \in Nat
      BY FS_Subset, FS_CardinalityType
    <3>2. IsFiniteSet(r) /\ Cardinality(r) \in Nat
      BY <3>1, FS_Subset, FS_CardinalityType
    <3>3. Cardinality(r) = Cardinality(s) - 1
      BY <2>1, <3>1, FS_RemoveElement
    <3> QED BY <3>1, <3>2, <3>3
  <2>5. most * Cardinality(s) = most * Cardinality(r) + most
    <3> PICK k \in Nat : k = Cardinality(r)
      BY <2>4
    <3>1. most * (k + 1) = most * k + most
      OBVIOUS
    <3> QED BY <2>4, <3>1
  <2>6. sum[s] \in Nat /\ sum[s] <= most * Cardinality(s)
    <3> PICK m \in Int : m = most * Cardinality(r)
      BY <2>4
    <3>1. sum[r] <= m /\ most * Cardinality(s) = m + most
      BY <2>3, <2>5
    <3> QED BY <2>1, <2>2, <2>3, <3>1
  <2> QED BY <2>6
<1>3. \A s \in SUBSET W : s \in Good
  <2> HIDE DEF Good
  <2> QED BY <1>1, <1>2, AddingUp
<1> QED BY <1>3

\* The same value for every member of W.
Same(v, w, W) == \A x \in W : v[x] = w[x]

\* Equal values have equal sums.
LEMMA SumIsDetermined ==
    ASSUME NEW W, IsFiniteSet(W), NEW v, NEW w, Same(v, w, W),
           NEW sum, Adds(sum, v, W), NEW other, Adds(other, w, W)
    PROVE  sum[W] = other[W]
<1> DEFINE Good == {s \in SUBSET W : sum[s] = other[s]}
<1>1. {} \in Good
  BY DEF Adds
<1>2. ASSUME NEW s \in SUBSET W, s # {}, s \ {Pick(s)} \in Good
      PROVE  s \in Good
  <2>1. v[Pick(s)] = w[Pick(s)] /\ sum[s \ {Pick(s)}] = other[s \ {Pick(s)}]
    BY <1>2, PickIsMember DEF Same
  <2>2. /\ sum[s] = v[Pick(s)] + sum[s \ {Pick(s)}]
        /\ other[s] = w[Pick(s)] + other[s \ {Pick(s)}]
    BY <1>2 DEF Adds
  <2> QED BY <2>1, <2>2
<1>3. \A s \in SUBSET W : s \in Good
  <2> HIDE DEF Good
  <2> QED BY <1>1, <1>2, AddingUp
<1> QED BY <1>3

------------------------------------------------------------------------------
(* The averages of UtSignals.                                                *)

\* What a series has for a bar: a number or None.
Number == Int \cup {NA}

\* Each: as many values as there are bars, each the one Op gives.
LEMMA EachIs ==
    ASSUME NEW n \in Nat, NEW S, NEW F \in [1..n -> S]
    PROVE  /\ SubSeq(F, 1, n) \in Seq(S)
           /\ Len(SubSeq(F, 1, n)) = n
           /\ DOMAIN SubSeq(F, 1, n) = 1..n
           /\ \A i \in 1..n : SubSeq(F, 1, n)[i] = F[i]
BY SubSeqProperties

\* The folds over windows are sums.
LEMMA FoldIsSum ==
    ASSUME NEW W, IsFiniteSet(W), NEW v, \A x \in W : v[x] \in Int
    PROVE  \E sum : Adds(sum, v, W) /\ FoldFunctionOnSet(+, 0, v, W) = sum[W]
<1> DEFINE Fits(sum) ==
             sum = [s \in SUBSET W |->
                       IF s = {} THEN 0
                       ELSE v[CHOOSE x \in s : TRUE] + sum[s \ {CHOOSE x \in s : TRUE}]]
           iter == CHOOSE sum : Fits(sum)
<1>1. FoldFunctionOnSet(+, 0, v, W) = iter[W]
  BY DEF FoldFunctionOnSet, MapThenFoldSet
<1>2. ASSUME NEW sum PROVE Adds(sum, v, W) <=> Fits(sum)
  BY DEF Adds, Pick
<1>3. \E sum : Adds(sum, v, W)
  BY SumIsDefined
<1>4. Adds(iter, v, W)
  <2> HIDE DEF Fits
  <2> QED BY <1>2, <1>3
<1> QED BY <1>1, <1>4

\* wma: the window that ends at bar i, each bar times its weight, and their sum.
Weighted(v, n, i)    == [k \in 0 .. n - 1 |-> (n - k) * v[i - k]]
WeightedSum(v, n, i) == MapThenSumSet(LAMBDA k : (n - k) * v[i - k], 0 .. n - 1)

\* wma's fold is a sum of the weighted bars.
LEMMA WeightedFoldIsSum ==
    ASSUME NEW n \in Nat \ {0}, NEW i \in Int, NEW v, \A k \in 0 .. n - 1 : v[i - k] \in Int
    PROVE  \E sum : /\ Adds(sum, Weighted(v, n, i), 0 .. n - 1)
                    /\ WeightedSum(v, n, i) = sum[0 .. n - 1]
<1> PICK values : values = Weighted(v, n, i)
  OBVIOUS
<1>0. values = [k \in 0 .. n - 1 |-> (n - k) * v[i - k]]
  BY DEF Weighted
<1> PICK W : W = 0 .. n - 1
  OBVIOUS
<1> DEFINE Fits(sum) ==
             sum = [s \in SUBSET W |->
                       IF s = {} THEN 0
                       ELSE (n - (CHOOSE x \in s : TRUE)) * v[i - (CHOOSE x \in s : TRUE)]
                                + sum[s \ {CHOOSE x \in s : TRUE}]]
           iter == CHOOSE sum : Fits(sum)
<1>1. WeightedSum(v, n, i) = iter[W]
  BY DEF WeightedSum, MapThenSumSet, MapThenFoldSet
<1>2. ASSUME NEW sum PROVE Adds(sum, values, W) <=> Fits(sum)
  <2>1. ASSUME NEW s \in SUBSET W, s # {}
        PROVE  values[Pick(s)] = (n - Pick(s)) * v[i - Pick(s)]
    BY <1>0, <2>1, PickIsMember
  <2>2. [s \in SUBSET W |-> IF s = {} THEN 0 ELSE values[Pick(s)] + sum[s \ {Pick(s)}]]
          = [s \in SUBSET W |-> IF s = {} THEN 0
                               ELSE (n - Pick(s)) * v[i - Pick(s)] + sum[s \ {Pick(s)}]]
    BY <2>1
  <2> QED BY <2>2, Zenon DEF Adds, Pick
<1>3. \E sum : Adds(sum, values, W)
  <2>1. IsFiniteSet(W)
    BY FS_Interval
  <2>2. \A x \in W : values[x] \in Int
    BY <1>0
  <2> QED BY <2>1, <2>2, SumIsDefined
<1>4. Adds(iter, values, W)
  <2> HIDE DEF Fits
  <2> QED BY <1>2, <1>3
<1> QED BY <1>1, <1>4

\* A window that is full holds numbers, and they lie among the first i.
LEMMA WindowIs ==
    ASSUME NEW v \in Seq(Number), NEW n \in Nat \ {0}, NEW i \in 1..Len(v), i >= n
    PROVE  /\ IsFiniteSet(Window(i, n)) /\ Cardinality(Window(i, n)) = n
           /\ Window(i, n) \subseteq 1..i
           /\ Full(v, i, n) => \A j \in Window(i, n) : v[j] \in Int
<1>1. i + 1 - n \in Int /\ i \in Int /\ i + 1 - n >= 1
  OBVIOUS
<1>2. IsFiniteSet(Window(i, n)) /\ Cardinality(Window(i, n)) = i - (i + 1 - n) + 1
  BY <1>1, FS_Interval DEF Window
<1>3. Window(i, n) \subseteq 1..i
  BY <1>1 DEF Window
<1>4. \A j \in 1..i : v[j] \in Number
  OBVIOUS
<1> QED BY <1>1, <1>2, <1>3, <1>4 DEF Full, Number

\* sma, for bar i.
SMAAt(v, n, i) ==
    IF Full(v, i, n) THEN FoldFunctionOnSet(+, 0, v, Window(i, n)) \div n ELSE NA

\* sma: the average of a full window of numbers is a number.
LEMMA SMAIs ==
    ASSUME NEW v \in Seq(Number), NEW n \in Nat \ {0}
    PROVE  /\ SMA(v, n) \in Seq(Number) /\ Len(SMA(v, n)) = Len(v)
           /\ \A i \in 1..Len(v) : SMA(v, n)[i] = SMAAt(v, n, i)
<1>1. ASSUME NEW i \in 1..Len(v) PROVE SMAAt(v, n, i) \in Number
  <2>1. CASE Full(v, i, n)
    <3> PICK W : W = Window(i, n)
      OBVIOUS
    <3>1. IsFiniteSet(W) /\ \A j \in W : v[j] \in Int
      BY <2>1, WindowIs DEF Full
    <3>2. PICK sum : Adds(sum, v, W) /\ FoldFunctionOnSet(+, 0, v, W) = sum[W]
      BY <3>1, FoldIsSum
    <3>3. sum[W] \in Int
      BY <3>1, <3>2, SumIsNumber
    <3>4. SMAAt(v, n, i) = sum[W] \div n
      BY <2>1, <3>2 DEF SMAAt
    <3> QED BY <3>3, <3>4 DEF Number
  <2>2. CASE ~Full(v, i, n)
    BY <2>2 DEF SMAAt, Number
  <2> QED BY <2>1, <2>2
<1> PICK F : F = [i \in 1..Len(v) |-> SMAAt(v, n, i)]
  OBVIOUS
<1>2. F \in [1..Len(v) -> Number]
  BY <1>1
<1>3. SMA(v, n) = SubSeq(F, 1, Len(v))
  <2>1. F = [i \in DOMAIN v |-> SMAAt(v, n, i)]
    OBVIOUS
  <2> QED BY <2>1, Zenon DEF SMA, Each, SMAAt
<1>4. Len(v) \in Nat
  OBVIOUS
<1> QED BY <1>2, <1>3, <1>4, EachIs

\* _recursive_average: what comes after previous.
AverageAt(v, n, a, b, i, previous) ==
    CASE previous = NA               -> SMA(v, n)[i]
      [] previous # NA /\ v[i] = NA  -> NA
      [] OTHER                       -> (a * v[i] + (b - a) * previous) \div b

\* _recursive_average: its recursion is defined, and gives numbers.
LEMMA RecursiveAverageIs ==
    ASSUME NEW v \in Seq(Number), NEW n \in Nat \ {0}, NEW a \in Int, NEW b \in Nat \ {0},
           NEW avg, avg = RecursiveAverage(v, n, a, b)
    PROVE  /\ avg \in Seq(Number) /\ Len(avg) = Len(v)
           /\ \A i \in 1..Len(v) :
                 avg[i] = AverageAt(v, n, a, b, i, IF i = 1 THEN NA ELSE avg[i - 1])
<1> PICK N \in Nat : N = Len(v)
  OBVIOUS
<1> DEFINE Fits(g) ==
             g = [i \in DOMAIN v |->
                     LET previous == IF i = 1 THEN NA ELSE g[i - 1] IN
                     CASE previous = NA               -> SMA(v, n)[i]
                       [] previous # NA /\ v[i] = NA  -> NA
                       [] OTHER                       -> (a * v[i] + (b - a) * previous) \div b]
           Goes(g) == g = [i \in 1..N |-> AverageAt(v, n, a, b, i, IF i = 1 THEN NA ELSE g[i - 1])]
           average == CHOOSE g : Fits(g)
<1>1. avg = SubSeq([i \in 1..N |-> average[i]], 1, N)
  BY DEF RecursiveAverage, Each
<1>2. ASSUME NEW g PROVE Fits(g) <=> Goes(g)
  BY DEF AverageAt
<1>3. ASSUME NEW i \in 1..N, NEW p \in Number
      PROVE  AverageAt(v, n, a, b, i, p) \in Number
  <2>1. SMA(v, n)[i] \in Number /\ v[i] \in Number
    BY SMAIs
  <2>2. CASE p # NA /\ v[i] # NA
    <3>1. p \in Int /\ v[i] \in Int
      BY <2>1, <2>2 DEF Number
    <3>2. (a * v[i] + (b - a) * p) \in Int
      BY <3>1
    <3>3. (a * v[i] + (b - a) * p) \div b \in Int
      BY <3>2
    <3> QED BY <2>2, <3>3 DEF AverageAt, Number
  <2>3. CASE ~(p # NA /\ v[i] # NA)
    BY <2>1, <2>3 DEF AverageAt, Number
  <2> QED BY <2>2, <2>3
<1>4. \E g : Goes(g)
  <2> PICK step : step = [q \in (1..N) \X Number |->
                             AverageAt(v, n, a, b, q[1], IF q[1] = 1 THEN NA ELSE q[2])]
    OBVIOUS
  <2>1. NA \in Number
    BY DEF Number
  <2>2. step \in [(1..N) \X Number -> Number]
    BY <1>3, <2>1
  <2>3. PICK f : Recursion(f, N, Number, NA, step)
    BY <2>1, <2>2, RecursionIsDefined
  <2> PICK g : g = [i \in 1..N |-> f[i]]
    OBVIOUS
  <2>4. ASSUME NEW i \in 1..N
        PROVE  g[i] = AverageAt(v, n, a, b, i, IF i = 1 THEN NA ELSE g[i - 1])
    <3>1. f[i - 1] \in Number /\ f[i] = step[<<i, f[i - 1]>>]
      <4>1. i - 1 \in 0..N /\ f \in [0..N -> Number]
        BY <2>3 DEF Recursion
      <4> QED BY <2>3, <4>1 DEF Recursion
    <3>2. f[i] = AverageAt(v, n, a, b, i, IF i = 1 THEN NA ELSE f[i - 1])
      BY <3>1
    <3>3. i # 1 => f[i - 1] = g[i - 1]
      OBVIOUS
    <3>4. CASE i = 1
      BY <3>2, <3>4
    <3>5. CASE i # 1
      BY <3>2, <3>3, <3>5
    <3> QED BY <3>4, <3>5
  <2>5. Goes(g)
    BY <2>4
  <2> HIDE DEF Fits, Goes
  <2> QED BY <2>5
<1>5. Goes(average)
  <2> HIDE DEF Fits, Goes
  <2> QED BY <1>2, <1>4
<1> HIDE DEF average
<1>6. \A i \in 1..N : average[i] \in Number
  <2> DEFINE Good == {i \in 1..N : average[i] \in Number}
  <2>1. ASSUME NEW i \in 1..N, \A j \in 1 .. i - 1 : j \in Good
        PROVE  i \in Good
    <3> PICK p : p = IF i = 1 THEN NA ELSE average[i - 1]
      OBVIOUS
    <3>1. p \in Number
      BY <2>1 DEF Number
    <3>2. average[i] = AverageAt(v, n, a, b, i, p)
      BY <1>5
    <3> QED BY <1>3, <3>1, <3>2
  <2>2. \A i \in 1..N : i \in Good
    <3> HIDE DEF Good
    <3> QED BY <2>1, CountingUp
  <2> QED BY <2>2
<1>7. /\ avg \in Seq(Number) /\ Len(avg) = N
      /\ \A i \in 1..N : avg[i] = average[i]
  <2> PICK F : F = [i \in 1..N |-> average[i]]
    OBVIOUS
  <2>1. F \in [1..N -> Number]
    BY <1>6
  <2> QED BY <1>1, <2>1, EachIs
<1>8. ASSUME NEW i \in 1..N
      PROVE  avg[i] = AverageAt(v, n, a, b, i, IF i = 1 THEN NA ELSE avg[i - 1])
  <2>1. average[i] = AverageAt(v, n, a, b, i, IF i = 1 THEN NA ELSE average[i - 1])
    BY <1>5
  <2>2. i # 1 => avg[i - 1] = average[i - 1]
    BY <1>7
  <2>3. CASE i = 1
    BY <1>7, <2>1, <2>3
  <2>4. CASE i # 1
    BY <1>7, <2>1, <2>2, <2>4
  <2> QED BY <2>3, <2>4
<1> QED BY <1>7, <1>8

\* pine_round(sqrt(n)): the least r whose square is rounded up to n is the root.
LEMMA RoundedRootIs ==
    ASSUME NEW n \in Nat \ {0}
    PROVE  RoundedRoot(n) \in Nat \ {0}
<1> DEFINE S == {r \in Nat : n <= r * r + r}
<1>1. n \in S
  <2>1. n * n \in Nat
    OBVIOUS
  <2>2. n <= n * n + n
    BY <2>1
  <2> QED BY <2>2
<1>2. PICK r \in S : \A q \in S : r <= q
  <2>1. S \subseteq Nat
    OBVIOUS
  <2> HIDE DEF S
  <2> QED BY <1>1, <2>1, LeastNumber
<1>3. r \in Nat /\ n <= r * r + r /\ r <= n
  BY <1>1, <1>2
<1>4. r # 0
  BY <1>3
<1>5. r * r - r < n
  <2>1. r - 1 \in Nat /\ r - 1 \notin S
    BY <1>2, <1>3, <1>4
  <2>2. ~(n <= (r - 1) * (r - 1) + (r - 1))
    BY <2>1
  <2>3. (r - 1) * (r - 1) + (r - 1) = r * r - r
    BY <1>3
  <2>4. r * r \in Int
    BY <1>3
  <2> QED BY <1>3, <2>2, <2>3, <2>4
<1>6. \E q \in 1..n : q * q - q < n /\ n <= q * q + q
  BY <1>3, <1>4, <1>5
<1>7. RoundedRoot(n) \in 1..n
  BY <1>6 DEF RoundedRoot
<1> QED BY <1>7

\* The lengths of hma, ehma and thma's averages are positive.
LEMMA AtLeastOneIs ==
    ASSUME NEW n \in Nat \ {0}
    PROVE  AtLeastOne(n \div 2) \in Nat \ {0} /\ AtLeastOne(n \div 3) \in Nat \ {0}
BY DEF AtLeastOne

\* wma, for bar i.
WMAAt(v, n, i) ==
    IF Full(v, i, n)
    THEN WeightedSum(v, n, i) \div ((n * (n + 1)) \div 2)
    ELSE NA

\* The weights of a full window have numbers to weigh.
LEMMA WeightsHaveNumbers ==
    ASSUME NEW v \in Seq(Number), NEW n \in Nat \ {0}, NEW i \in 1..Len(v), Full(v, i, n)
    PROVE  \A k \in 0 .. n - 1 : v[i - k] \in Int /\ i - k \in 1..i
<1>1. i >= n /\ \A j \in i + 1 - n .. i : v[j] # NA
  BY DEF Full, Window
<1> SUFFICES ASSUME NEW k \in 0 .. n - 1 PROVE v[i - k] \in Int /\ i - k \in 1..i
  OBVIOUS
<1>2. i - k \in i + 1 - n .. i /\ i - k \in 1..i /\ i - k \in 1..Len(v)
  BY <1>1
<1>3. v[i - k] \in Number
  BY <1>2
<1> QED BY <1>1, <1>2, <1>3 DEF Number

\* wma: the weighted average of a full window of numbers is a number.
LEMMA WMAIs ==
    ASSUME NEW v \in Seq(Number), NEW n \in Nat \ {0}
    PROVE  /\ WMA(v, n) \in Seq(Number) /\ Len(WMA(v, n)) = Len(v)
           /\ \A i \in 1..Len(v) : WMA(v, n)[i] = WMAAt(v, n, i)
<1>1. ASSUME NEW i \in 1..Len(v) PROVE WMAAt(v, n, i) \in Number
  <2>1. CASE Full(v, i, n)
    <3> PICK values : values = Weighted(v, n, i)
      OBVIOUS
    <3>1. \A k \in 0 .. n - 1 : v[i - k] \in Int
      BY <2>1, WeightsHaveNumbers
    <3>2. PICK sum : /\ Adds(sum, values, 0 .. n - 1)
                     /\ WeightedSum(v, n, i) = sum[0 .. n - 1]
      <4>1. i \in Int
        OBVIOUS
      <4> QED BY <3>1, <4>1, WeightedFoldIsSum
    <3>3. sum[0 .. n - 1] \in Int
      <4>1. \A x \in 0 .. n - 1 : values[x] \in Int
        BY <3>1 DEF Weighted
      <4>2. IsFiniteSet(0 .. n - 1)
        BY FS_Interval
      <4>3. \A s \in SUBSET (0 .. n - 1) : sum[s] \in Int
        BY <3>2, <4>1, <4>2, SumIsNumber
      <4> QED BY <4>3
    <3>4. (n * (n + 1)) \div 2 \in Nat \ {0}
      <4>1. n * (n + 1) = n * n + n /\ n * n \in Nat /\ n * n >= 1 /\ n >= 1
        OBVIOUS
      <4> QED BY <4>1
    <3>5. WMAAt(v, n, i) = sum[0 .. n - 1] \div ((n * (n + 1)) \div 2)
      BY <2>1, <3>2 DEF WMAAt
    <3> QED BY <3>3, <3>4, <3>5 DEF Number
  <2>2. CASE ~Full(v, i, n)
    BY <2>2 DEF WMAAt, Number
  <2> QED BY <2>1, <2>2
<1> PICK F : F = [i \in 1..Len(v) |-> WMAAt(v, n, i)]
  OBVIOUS
<1>2. F \in [1..Len(v) -> Number]
  BY <1>1
<1>3. WMA(v, n) = SubSeq(F, 1, Len(v))
  <2>1. F = [i \in DOMAIN v |-> WMAAt(v, n, i)]
    OBVIOUS
  <2> QED BY <2>1, Zenon DEF WMA, Each, WMAAt, WeightedSum
<1>4. Len(v) \in Nat
  OBVIOUS
<1> QED BY <1>2, <1>3, <1>4, EachIs
------------------------------------------------------------------------------
(* What a series says of a bar depends on the bars up to it.                 *)

\* The series agree on the first m bars.
Agree(v, w, m) ==
    m \in Nat /\ m <= Len(v) /\ m <= Len(w) /\ \A i \in 1..m : v[i] = w[i]

\* Whether a window is full depends on the bars up to it.
LEMMA FullAgrees ==
    ASSUME NEW v \in Seq(Number), NEW w \in Seq(Number), NEW m, Agree(v, w, m),
           NEW n \in Nat \ {0}, NEW i \in 1..m
    PROVE  Full(v, i, n) <=> Full(w, i, n)
<1>1. ASSUME i >= n PROVE \A j \in Window(i, n) : j \in 1..m
  BY <1>1 DEF Window, Agree
<1> QED BY <1>1 DEF Full, Agree

\* sma looks at no later bar.
LEMMA SMAAgrees ==
    ASSUME NEW v \in Seq(Number), NEW w \in Seq(Number), NEW m, Agree(v, w, m),
           NEW n \in Nat \ {0}
    PROVE  Agree(SMA(v, n), SMA(w, n), m)
<1>1. m \in Nat /\ m <= Len(v) /\ m <= Len(w)
  BY DEF Agree
<1>2. ASSUME NEW i \in 1..m PROVE SMAAt(v, n, i) = SMAAt(w, n, i)
  <2>1. i \in 1..Len(v) /\ i \in 1..Len(w)
    BY <1>1
  <2>2. Full(v, i, n) <=> Full(w, i, n)
    BY FullAgrees
  <2>3. CASE Full(v, i, n)
    <3> PICK W : W = Window(i, n)
      OBVIOUS
    <3>1. i >= n
      BY <2>3 DEF Full
    <3>2. /\ IsFiniteSet(W) /\ W \subseteq 1..i
          /\ \A j \in W : v[j] \in Int
          /\ \A j \in W : w[j] \in Int
      BY <2>1, <2>2, <2>3, <3>1, WindowIs
    <3>3. \A j \in W : v[j] = w[j]
      BY <1>1, <3>2 DEF Agree
    <3>4. PICK sum : Adds(sum, v, W) /\ FoldFunctionOnSet(+, 0, v, W) = sum[W]
      BY <3>2, FoldIsSum
    <3>5. PICK other : Adds(other, w, W) /\ FoldFunctionOnSet(+, 0, w, W) = other[W]
      BY <3>2, FoldIsSum
    <3>6. sum[W] = other[W]
      <4>1. IsFiniteSet(W) /\ Adds(sum, v, W) /\ Adds(other, w, W)
        BY <3>2, <3>4, <3>5
      <4>2. Same(v, w, W)
        BY <3>3 DEF Same
      <4> QED BY <4>1, <4>2, SumIsDetermined
    <3>7. SMAAt(v, n, i) = sum[W] \div n
      BY <2>3, <3>4 DEF SMAAt
    <3>8. SMAAt(w, n, i) = other[W] \div n
      BY <2>2, <2>3, <3>5 DEF SMAAt
    <3> QED BY <3>6, <3>7, <3>8
  <2>4. CASE ~Full(v, i, n)
    BY <2>2, <2>4 DEF SMAAt
  <2> QED BY <2>3, <2>4
<1>3. ASSUME NEW i \in 1..m PROVE SMA(v, n)[i] = SMA(w, n)[i]
  <2>1. i \in 1..Len(v) /\ i \in 1..Len(w)
    BY <1>1
  <2> QED BY <1>2, <2>1, SMAIs
<1> QED BY <1>1, <1>3, SMAIs DEF Agree

\* wma looks at no later bar.
LEMMA WMAAgrees ==
    ASSUME NEW v \in Seq(Number), NEW w \in Seq(Number), NEW m, Agree(v, w, m),
           NEW n \in Nat \ {0}
    PROVE  Agree(WMA(v, n), WMA(w, n), m)
<1>1. m \in Nat /\ m <= Len(v) /\ m <= Len(w)
  BY DEF Agree
<1>2. ASSUME NEW i \in 1..m PROVE WMAAt(v, n, i) = WMAAt(w, n, i)
  <2>1. i \in 1..Len(v) /\ i \in 1..Len(w) /\ i \in Int
    BY <1>1
  <2>2. Full(v, i, n) <=> Full(w, i, n)
    BY FullAgrees
  <2>3. CASE Full(v, i, n)
    <3> PICK W : W = 0 .. n - 1
      OBVIOUS
    <3>1. /\ \A k \in W : v[i - k] \in Int /\ i - k \in 1..i
          /\ \A k \in W : w[i - k] \in Int
      BY <2>1, <2>2, <2>3, WeightsHaveNumbers
    <3> PICK values : values = Weighted(v, n, i)
      OBVIOUS
    <3> PICK others : others = Weighted(w, n, i)
      OBVIOUS
    <3>2. \A k \in W : values[k] = others[k]
      <4> SUFFICES ASSUME NEW k \in W PROVE v[i - k] = w[i - k]
        BY DEF Weighted
      <4>1. i - k \in 1..m
        BY <1>1, <3>1
      <4> QED BY <4>1 DEF Agree
    <3>3. PICK sum : /\ Adds(sum, values, 0 .. n - 1)
                     /\ WeightedSum(v, n, i) = sum[0 .. n - 1]
      BY <2>1, <3>1, WeightedFoldIsSum
    <3>4. PICK other : /\ Adds(other, others, 0 .. n - 1)
                       /\ WeightedSum(w, n, i) = other[0 .. n - 1]
      BY <2>1, <3>1, WeightedFoldIsSum
    <3>5. sum[W] = other[W]
      <4>1. IsFiniteSet(W) /\ Adds(sum, values, W) /\ Adds(other, others, W)
        BY <3>3, <3>4, FS_Interval
      <4>2. Same(values, others, W)
        BY <3>2 DEF Same
      <4> QED BY <4>1, <4>2, SumIsDetermined
    <3>6. WMAAt(v, n, i) = sum[W] \div ((n * (n + 1)) \div 2)
      BY <2>3, <3>3 DEF WMAAt
    <3>7. WMAAt(w, n, i) = other[W] \div ((n * (n + 1)) \div 2)
      BY <2>2, <2>3, <3>4 DEF WMAAt
    <3> QED BY <3>5, <3>6, <3>7, Zenon
  <2>4. CASE ~Full(v, i, n)
    BY <2>2, <2>4 DEF WMAAt
  <2> QED BY <2>3, <2>4
<1>3. ASSUME NEW i \in 1..m PROVE WMA(v, n)[i] = WMA(w, n)[i]
  <2>1. i \in 1..Len(v) /\ i \in 1..Len(w)
    BY <1>1
  <2> QED BY <1>2, <2>1, WMAIs
<1> QED BY <1>1, <1>3, WMAIs DEF Agree

\* rma and ema look at no later bar: nor does their seed, nor what they recur on.
LEMMA RecursiveAverageAgrees ==
    ASSUME NEW v \in Seq(Number), NEW w \in Seq(Number), NEW m, Agree(v, w, m),
           NEW n \in Nat \ {0}, NEW a \in Int, NEW b \in Nat \ {0}
    PROVE  Agree(RecursiveAverage(v, n, a, b), RecursiveAverage(w, n, a, b), m)
<1> PICK f : f = RecursiveAverage(v, n, a, b)
  OBVIOUS
<1> PICK g : g = RecursiveAverage(w, n, a, b)
  OBVIOUS
<1>1. m \in Nat /\ m <= Len(v) /\ m <= Len(w)
  BY DEF Agree
<1>2. /\ f \in Seq(Number) /\ Len(f) = Len(v)
      /\ \A i \in 1..Len(v) : f[i] = AverageAt(v, n, a, b, i, IF i = 1 THEN NA ELSE f[i - 1])
  BY RecursiveAverageIs
<1>3. /\ g \in Seq(Number) /\ Len(g) = Len(w)
      /\ \A i \in 1..Len(w) : g[i] = AverageAt(w, n, a, b, i, IF i = 1 THEN NA ELSE g[i - 1])
  BY RecursiveAverageIs
<1> DEFINE Good == {i \in 1..m : f[i] = g[i]}
<1>4. ASSUME NEW i \in 1..m, \A j \in 1 .. i - 1 : j \in Good
      PROVE  i \in Good
  <2> PICK p : p = IF i = 1 THEN NA ELSE f[i - 1]
    OBVIOUS
  <2> PICK q : q = IF i = 1 THEN NA ELSE g[i - 1]
    OBVIOUS
  <2>1. i \in 1..Len(v) /\ i \in 1..Len(w)
    BY <1>1
  <2>2. p = q
    <3>1. i # 1 => i - 1 \in 1 .. i - 1
      OBVIOUS
    <3> QED BY <1>4, <3>1
  <2>3. SMA(v, n)[i] = SMA(w, n)[i] /\ v[i] = w[i]
    BY SMAAgrees DEF Agree
  <2>4. AverageAt(v, n, a, b, i, p) = AverageAt(w, n, a, b, i, q)
    BY <2>2, <2>3 DEF AverageAt
  <2>5. f[i] = AverageAt(v, n, a, b, i, p) /\ g[i] = AverageAt(w, n, a, b, i, q)
    BY <1>2, <1>3, <2>1
  <2> QED BY <2>4, <2>5
<1>5. \A i \in 1..m : i \in Good
  <2> HIDE DEF Good
  <2> QED BY <1>1, <1>4, CountingUp
<1> QED BY <1>1, <1>2, <1>3, <1>5 DEF Agree

\* The same without a word about what F gives.
LEMMA EachHas ==
    ASSUME NEW n \in Nat, NEW F, F = [i \in 1..n |-> F[i]]
    PROVE  /\ Len(SubSeq(F, 1, n)) = n
           /\ DOMAIN SubSeq(F, 1, n) = 1..n
           /\ \A i \in 1..n : SubSeq(F, 1, n)[i] = F[i]
<1> PICK S : S = {F[i] : i \in 1..n}
  OBVIOUS
<1>1. F \in [1..n -> S]
  OBVIOUS
<1> QED BY <1>1, EachIs

\* The fast moving average twice, minus the slow one.
LEMMA DoubleMinusFullIs ==
    ASSUME NEW half \in Seq(Number), NEW whole \in Seq(Number), Len(whole) = Len(half),
           NEW d, d = DoubleMinusFull(half, whole)
    PROVE  /\ d \in Seq(Number) /\ Len(d) = Len(half)
           /\ \A i \in 1..Len(half) :
                 d[i] = IF NA \in {half[i], whole[i]} THEN NA ELSE 2 * half[i] - whole[i]
<1> PICK F : F = [i \in 1..Len(half) |->
                     IF NA \in {half[i], whole[i]} THEN NA ELSE 2 * half[i] - whole[i]]
  OBVIOUS
<1>1. F \in [1..Len(half) -> Number]
  <2> SUFFICES ASSUME NEW i \in 1..Len(half), NA \notin {half[i], whole[i]}
               PROVE  2 * half[i] - whole[i] \in Int
    BY DEF Number
  <2>1. half[i] \in Int /\ whole[i] \in Int
    BY DEF Number
  <2> QED BY <2>1
<1>2. d = SubSeq(F, 1, Len(half))
  <2>1. F = [i \in DOMAIN half |->
                IF NA \in {half[i], whole[i]} THEN NA ELSE 2 * half[i] - whole[i]]
    OBVIOUS
  <2> QED BY <2>1, Zenon DEF DoubleMinusFull, Each
<1>3. Len(half) \in Nat
  OBVIOUS
<1> QED BY <1>1, <1>2, <1>3, EachIs

\* Nor does the difference of two averages.
LEMMA DoubleMinusFullAgrees ==
    ASSUME NEW half \in Seq(Number), NEW whole \in Seq(Number), Len(whole) = Len(half),
           NEW half2 \in Seq(Number), NEW whole2 \in Seq(Number), Len(whole2) = Len(half2),
           NEW m, Agree(half, half2, m), Agree(whole, whole2, m)
    PROVE  Agree(DoubleMinusFull(half, whole), DoubleMinusFull(half2, whole2), m)
<1> PICK d : d = DoubleMinusFull(half, whole)
  OBVIOUS
<1> PICK e : e = DoubleMinusFull(half2, whole2)
  OBVIOUS
<1>1. m \in Nat /\ m <= Len(half) /\ m <= Len(half2)
  BY DEF Agree
<1>2. Len(d) = Len(half) /\ Len(e) = Len(half2)
  BY DoubleMinusFullIs
<1>3. ASSUME NEW i \in 1..m PROVE d[i] = e[i]
  <2>1. i \in 1..Len(half) /\ i \in 1..Len(half2)
    BY <1>1
  <2>2. half[i] = half2[i] /\ whole[i] = whole2[i]
    BY DEF Agree
  <2>3. d[i] = IF NA \in {half[i], whole[i]} THEN NA ELSE 2 * half[i] - whole[i]
    BY <2>1, DoubleMinusFullIs
  <2>4. e[i] = IF NA \in {half2[i], whole2[i]} THEN NA ELSE 2 * half2[i] - whole2[i]
    BY <2>1, DoubleMinusFullIs
  <2> QED BY <2>2, <2>3, <2>4
<1> QED BY <1>1, <1>2, <1>3 DEF Agree

\* thma: what its last average is taken of.
TripleMinusBoth(v, third, half, whole) ==
    Each(v, LAMBDA i :
        IF NA \in {third[i], half[i], whole[i]} THEN NA
        ELSE 3 * third[i] - half[i] - whole[i])

\* It is a number wherever the three averages are.
LEMMA TripleMinusBothIs ==
    ASSUME NEW v \in Seq(Number), NEW third \in Seq(Number), NEW half \in Seq(Number),
           NEW whole \in Seq(Number),
           Len(third) = Len(v), Len(half) = Len(v), Len(whole) = Len(v),
           NEW t, t = TripleMinusBoth(v, third, half, whole)
    PROVE  /\ t \in Seq(Number) /\ Len(t) = Len(v)
           /\ \A i \in 1..Len(v) :
                 t[i] = IF NA \in {third[i], half[i], whole[i]} THEN NA
                        ELSE 3 * third[i] - half[i] - whole[i]
<1> PICK F : F = [i \in 1..Len(v) |->
                     IF NA \in {third[i], half[i], whole[i]} THEN NA
                     ELSE 3 * third[i] - half[i] - whole[i]]
  OBVIOUS
<1>1. F \in [1..Len(v) -> Number]
  <2> SUFFICES ASSUME NEW i \in 1..Len(v), NA \notin {third[i], half[i], whole[i]}
               PROVE  3 * third[i] - half[i] - whole[i] \in Int
    BY DEF Number
  <2>1. third[i] \in Int /\ half[i] \in Int /\ whole[i] \in Int
    BY DEF Number
  <2> QED BY <2>1
<1>2. t = SubSeq(F, 1, Len(v))
  <2>1. F = [i \in DOMAIN v |->
                IF NA \in {third[i], half[i], whole[i]} THEN NA
                ELSE 3 * third[i] - half[i] - whole[i]]
    OBVIOUS
  <2> QED BY <2>1, Zenon DEF TripleMinusBoth, Each
<1>3. Len(v) \in Nat
  OBVIOUS
<1> QED BY <1>1, <1>2, <1>3, EachIs

\* It looks at no later bar of theirs.
LEMMA TripleMinusBothAgrees ==
    ASSUME NEW v \in Seq(Number), NEW third \in Seq(Number), NEW half \in Seq(Number),
           NEW whole \in Seq(Number),
           Len(third) = Len(v), Len(half) = Len(v), Len(whole) = Len(v),
           NEW v2 \in Seq(Number), NEW third2 \in Seq(Number), NEW half2 \in Seq(Number),
           NEW whole2 \in Seq(Number),
           Len(third2) = Len(v2), Len(half2) = Len(v2), Len(whole2) = Len(v2),
           NEW m, Agree(third, third2, m), Agree(half, half2, m), Agree(whole, whole2, m)
    PROVE  Agree(TripleMinusBoth(v, third, half, whole),
                 TripleMinusBoth(v2, third2, half2, whole2), m)
<1> PICK d : d = TripleMinusBoth(v, third, half, whole)
  OBVIOUS
<1> PICK e : e = TripleMinusBoth(v2, third2, half2, whole2)
  OBVIOUS
<1>1. m \in Nat /\ m <= Len(v) /\ m <= Len(v2)
  BY DEF Agree
<1>2. Len(d) = Len(v) /\ Len(e) = Len(v2)
  BY TripleMinusBothIs
<1>3. ASSUME NEW i \in 1..m PROVE d[i] = e[i]
  <2>1. i \in 1..Len(v) /\ i \in 1..Len(v2)
    BY <1>1
  <2>2. third[i] = third2[i] /\ half[i] = half2[i] /\ whole[i] = whole2[i]
    BY DEF Agree
  <2>3. d[i] = IF NA \in {third[i], half[i], whole[i]} THEN NA
               ELSE 3 * third[i] - half[i] - whole[i]
    BY <2>1, TripleMinusBothIs
  <2>4. e[i] = IF NA \in {third2[i], half2[i], whole2[i]} THEN NA
               ELSE 3 * third2[i] - half2[i] - whole2[i]
    BY <2>1, TripleMinusBothIs
  <2> QED BY <2>2, <2>3, <2>4
<1> QED BY <1>1, <1>2, <1>3 DEF Agree
------------------------------------------------------------------------------
(* The hull's averages of averages.                                          *)

\* A series of numbers made from v, bar by bar.
Follows(f, v) == f \in Seq(Number) /\ Len(f) = Len(v)

\* ema gives a number or NA for every bar.
LEMMA EMAIs ==
    ASSUME NEW v \in Seq(Number), NEW n \in Nat \ {0}
    PROVE  Follows(EMA(v, n), v)
<1>1. 2 \in Int /\ n + 1 \in Nat \ {0}
  OBVIOUS
<1> QED BY <1>1, RecursiveAverageIs DEF EMA, Follows

\* ema looks at no later bar.
LEMMA EMAAgrees ==
    ASSUME NEW v \in Seq(Number), NEW w \in Seq(Number), NEW m, Agree(v, w, m),
           NEW n \in Nat \ {0}
    PROVE  Agree(EMA(v, n), EMA(w, n), m)
<1>1. 2 \in Int /\ n + 1 \in Nat \ {0}
  OBVIOUS
<1> QED BY <1>1, RecursiveAverageAgrees DEF EMA

\* hma gives a number or NA for every bar.
LEMMA HMAIs ==
    ASSUME NEW v \in Seq(Number), NEW n \in Nat \ {0}
    PROVE  Follows(HMA(v, n), v)
<1> PICK half : half = WMA(v, AtLeastOne(n \div 2))
  OBVIOUS
<1> PICK whole : whole = WMA(v, n)
  OBVIOUS
<1> PICK d : d = DoubleMinusFull(half, whole)
  OBVIOUS
<1>1. Follows(half, v) /\ Follows(whole, v)
  BY AtLeastOneIs, WMAIs DEF Follows
<1>2. Follows(d, v)
  BY <1>1, DoubleMinusFullIs DEF Follows
<1> QED BY <1>2, RoundedRootIs, WMAIs DEF Follows, HMA

\* hma looks at no later bar.
LEMMA HMAAgrees ==
    ASSUME NEW v \in Seq(Number), NEW w \in Seq(Number), NEW m, Agree(v, w, m),
           NEW n \in Nat \ {0}
    PROVE  Agree(HMA(v, n), HMA(w, n), m)
<1> PICK h \in Nat \ {0} : h = AtLeastOne(n \div 2)
  BY AtLeastOneIs
<1> PICK r \in Nat \ {0} : r = RoundedRoot(n)
  BY RoundedRootIs
<1> DEFINE D(x) == DoubleMinusFull(WMA(x, h), WMA(x, n))
<1>1. Follows(WMA(v, h), v) /\ Follows(WMA(v, n), v) /\ Follows(WMA(w, h), w) /\ Follows(WMA(w, n), w)
  BY WMAIs DEF Follows
<1>2. Agree(WMA(v, h), WMA(w, h), m) /\ Agree(WMA(v, n), WMA(w, n), m)
  BY WMAAgrees
<1>3. Follows(D(v), v) /\ Follows(D(w), w)
  BY <1>1, DoubleMinusFullIs DEF Follows
<1>4. Agree(D(v), D(w), m)
  BY <1>1, <1>2, DoubleMinusFullAgrees DEF Follows
<1>5. HMA(v, n) = WMA(D(v), r) /\ HMA(w, n) = WMA(D(w), r)
  BY DEF HMA
<1> HIDE DEF D
<1> QED BY <1>3, <1>4, <1>5, WMAAgrees DEF Follows

\* ehma gives a number or NA for every bar.
LEMMA EHMAIs ==
    ASSUME NEW v \in Seq(Number), NEW n \in Nat \ {0}
    PROVE  Follows(EHMA(v, n), v)
<1> PICK half : half = EMA(v, AtLeastOne(n \div 2))
  OBVIOUS
<1> PICK whole : whole = EMA(v, n)
  OBVIOUS
<1> PICK d : d = DoubleMinusFull(half, whole)
  OBVIOUS
<1>1. Follows(half, v) /\ Follows(whole, v)
  BY AtLeastOneIs, EMAIs
<1>2. Follows(d, v)
  BY <1>1, DoubleMinusFullIs DEF Follows
<1> QED BY <1>2, RoundedRootIs, EMAIs DEF Follows, EHMA

\* ehma looks at no later bar.
LEMMA EHMAAgrees ==
    ASSUME NEW v \in Seq(Number), NEW w \in Seq(Number), NEW m, Agree(v, w, m),
           NEW n \in Nat \ {0}
    PROVE  Agree(EHMA(v, n), EHMA(w, n), m)
<1> PICK h \in Nat \ {0} : h = AtLeastOne(n \div 2)
  BY AtLeastOneIs
<1> PICK r \in Nat \ {0} : r = RoundedRoot(n)
  BY RoundedRootIs
<1> DEFINE D(x) == DoubleMinusFull(EMA(x, h), EMA(x, n))
<1>1. Follows(EMA(v, h), v) /\ Follows(EMA(v, n), v) /\ Follows(EMA(w, h), w) /\ Follows(EMA(w, n), w)
  BY EMAIs
<1>2. Agree(EMA(v, h), EMA(w, h), m) /\ Agree(EMA(v, n), EMA(w, n), m)
  BY EMAAgrees
<1>3. Follows(D(v), v) /\ Follows(D(w), w)
  BY <1>1, DoubleMinusFullIs DEF Follows
<1>4. Agree(D(v), D(w), m)
  BY <1>1, <1>2, DoubleMinusFullAgrees DEF Follows
<1>5. EHMA(v, n) = EMA(D(v), r) /\ EHMA(w, n) = EMA(D(w), r)
  BY DEF EHMA
<1> HIDE DEF D
<1> QED BY <1>3, <1>4, <1>5, EMAAgrees DEF Follows

\* thma: its three averages.
Triple(v, n) ==
    TripleMinusBoth(v, WMA(v, AtLeastOne(n \div 3)), WMA(v, AtLeastOne(n \div 2)), WMA(v, n))

\* They have a number or NA for every bar.
LEMMA TripleIs ==
    ASSUME NEW v \in Seq(Number), NEW n \in Nat \ {0}
    PROVE  Follows(Triple(v, n), v)
<1> PICK third : third = WMA(v, AtLeastOne(n \div 3))
  OBVIOUS
<1> PICK half : half = WMA(v, AtLeastOne(n \div 2))
  OBVIOUS
<1> PICK whole : whole = WMA(v, n)
  OBVIOUS
<1>1. Follows(third, v) /\ Follows(half, v) /\ Follows(whole, v)
  BY AtLeastOneIs, WMAIs DEF Follows
<1> QED BY <1>1, TripleMinusBothIs DEF Follows, Triple

\* They look at no later bar.
LEMMA TripleAgrees ==
    ASSUME NEW v \in Seq(Number), NEW w \in Seq(Number), NEW m, Agree(v, w, m),
           NEW n \in Nat \ {0}
    PROVE  Agree(Triple(v, n), Triple(w, n), m)
<1> PICK t \in Nat \ {0} : t = AtLeastOne(n \div 3)
  BY AtLeastOneIs
<1> PICK h \in Nat \ {0} : h = AtLeastOne(n \div 2)
  BY AtLeastOneIs
<1>1. /\ Follows(WMA(v, t), v) /\ Follows(WMA(v, h), v) /\ Follows(WMA(v, n), v)
      /\ Follows(WMA(w, t), w) /\ Follows(WMA(w, h), w) /\ Follows(WMA(w, n), w)
  BY WMAIs DEF Follows
<1>2. /\ Agree(WMA(v, t), WMA(w, t), m) /\ Agree(WMA(v, h), WMA(w, h), m)
      /\ Agree(WMA(v, n), WMA(w, n), m)
  BY WMAAgrees
<1>3. Agree(TripleMinusBoth(v, WMA(v, t), WMA(v, h), WMA(v, n)),
            TripleMinusBoth(w, WMA(w, t), WMA(w, h), WMA(w, n)), m)
  BY <1>1, <1>2, TripleMinusBothAgrees DEF Follows
<1> QED BY <1>3 DEF Triple

\* thma gives a number or NA for every bar.
LEMMA THMAIs ==
    ASSUME NEW v \in Seq(Number), NEW n \in Nat \ {0}
    PROVE  THMA(v, n) = WMA(Triple(v, n), n) /\ Follows(THMA(v, n), v)
<1>1. THMA(v, n) = WMA(Triple(v, n), n)
  BY Zenon DEF THMA, Triple, TripleMinusBoth
<1> QED BY <1>1, TripleIs, WMAIs DEF Follows

\* thma looks at no later bar.
LEMMA THMAAgrees ==
    ASSUME NEW v \in Seq(Number), NEW w \in Seq(Number), NEW m, Agree(v, w, m),
           NEW n \in Nat \ {0}
    PROVE  Agree(THMA(v, n), THMA(w, n), m)
<1>1. Follows(Triple(v, n), v) /\ Follows(Triple(w, n), w)
  BY TripleIs
<1>2. Agree(Triple(v, n), Triple(w, n), m)
  BY TripleAgrees
<1>3. Agree(WMA(Triple(v, n), n), WMA(Triple(w, n), n), m)
  BY <1>1, <1>2, WMAAgrees DEF Follows
<1> QED BY <1>3, THMAIs

\* hull_series in each of its modes.
LEMMA HullIs ==
    ASSUME NEW v \in Seq(Number), NEW cfg \in Settings
    PROVE  Follows(Hull(v, cfg), v)
<1>1. cfg.hullLen \in Nat \ {0} /\ cfg.hullMode \in {"HMA", "EHMA", "THMA"}
  BY DEF Settings, HullMode
<1>2. AtLeastOne(cfg.hullLen \div 2) \in Nat \ {0}
  BY <1>1, AtLeastOneIs
<1> QED BY <1>1, <1>2, HMAIs, EHMAIs, THMAIs DEF Hull

\* hull_series looks at no later bar in any of its modes.
LEMMA HullAgrees ==
    ASSUME NEW v \in Seq(Number), NEW w \in Seq(Number), NEW m, Agree(v, w, m),
           NEW cfg \in Settings
    PROVE  Agree(Hull(v, cfg), Hull(w, cfg), m)
<1>1. cfg.hullLen \in Nat \ {0} /\ cfg.hullMode \in {"HMA", "EHMA", "THMA"}
  BY DEF Settings, HullMode
<1>2. AtLeastOne(cfg.hullLen \div 2) \in Nat \ {0}
  BY <1>1, AtLeastOneIs
<1> QED BY <1>1, <1>2, HMAAgrees, EHMAAgrees, THMAAgrees DEF Hull
------------------------------------------------------------------------------
(* The range, the loss distance and the trailing stop.                       *)

\* What compute_signals is given.
Bars == Seq([close : Int, high : Int, low : Int])

\* The larger and the smaller of two numbers.
LEMMA TwoAreOrdered ==
    ASSUME NEW a \in Int, NEW b \in Int
    PROVE  /\ Max({a, b}) \in Int /\ Max({a, b}) >= a /\ Max({a, b}) >= b
           /\ Max({a, b}) \in {a, b}
           /\ Min({a, b}) \in Int /\ Min({a, b}) <= a /\ Min({a, b}) <= b
           /\ Min({a, b}) \in {a, b}
<1>1. \E x \in {a, b} : \A y \in {a, b} : x >= y
  BY a >= b \/ b >= a
<1>2. \E x \in {a, b} : \A y \in {a, b} : x <= y
  BY a >= b \/ b >= a
<1>3. Max({a, b}) \in {a, b} /\ \A y \in {a, b} : Max({a, b}) >= y
  BY <1>1 DEF Max
<1>4. Min({a, b}) \in {a, b} /\ \A y \in {a, b} : Min({a, b}) <= y
  BY <1>2 DEF Min
<1> QED BY <1>3, <1>4

\* The prices of a bar are numbers.
LEMMA BarsAre ==
    ASSUME NEW bars \in Bars, NEW j \in 1..Len(bars)
    PROVE  bars[j].high \in Int /\ bars[j].low \in Int /\ bars[j].close \in Int
<1>1. bars[j] \in [close : Int, high : Int, low : Int]
  BY ElementOfSeq DEF Bars
<1> QED BY <1>1

\* true_range, for bar i.
RangeAt(bars, i) ==
    LET h == bars[i].high
        l == bars[i].low
        before == IF i = 1 THEN l ELSE bars[i - 1].close
    IN  Max({h, before}) - Min({l, before})

\* true_range: no bar's range is negative.
LEMMA TrueRangeIs ==
    ASSUME NEW bars \in Bars
    PROVE  /\ Follows(TrueRange(bars), bars)
           /\ \A i \in 1..Len(bars) :
                 TrueRange(bars)[i] \in Nat /\ TrueRange(bars)[i] = RangeAt(bars, i)
<1>1. ASSUME NEW i \in 1..Len(bars) PROVE RangeAt(bars, i) \in Nat
  <2>0. \A j \in 1..Len(bars) : bars[j].high \in Int /\ bars[j].low \in Int /\ bars[j].close \in Int
    BY BarsAre
  <2> PICK h \in Int : h = bars[i].high
    BY <2>0
  <2> PICK l \in Int : l = bars[i].low
    BY <2>0
  <2> PICK before \in Int : before = IF i = 1 THEN l ELSE bars[i - 1].close
    <3>1. i # 1 => i - 1 \in 1..Len(bars)
      BY DEF Bars
    <3> QED BY <2>0, <3>1
  <2>1. Max({h, before}) \in Int /\ Min({l, before}) \in Int
        /\ Max({h, before}) >= before /\ Min({l, before}) <= before
    BY TwoAreOrdered
  <2>2. RangeAt(bars, i) = Max({h, before}) - Min({l, before})
    BY DEF RangeAt
  <2> QED BY <2>1, <2>2
<1> PICK F : F = [i \in 1..Len(bars) |-> RangeAt(bars, i)]
  OBVIOUS
<1>2. F \in [1..Len(bars) -> Nat]
  BY <1>1
<1>3. TrueRange(bars) = SubSeq(F, 1, Len(bars))
  <2>1. F = [i \in DOMAIN bars |-> RangeAt(bars, i)]
    BY DEF Bars
  <2> QED BY <2>1, Zenon DEF TrueRange, Each, RangeAt
<1>4. Len(bars) \in Nat
  BY DEF Bars
<1>5. TrueRange(bars) \in Seq(Nat) /\ Len(TrueRange(bars)) = Len(bars)
      /\ \A i \in 1..Len(bars) : TrueRange(bars)[i] = F[i]
  BY <1>2, <1>3, <1>4, EachIs
<1>6. TrueRange(bars) \in Seq(Number)
  <2>1. Nat \subseteq Number
    BY DEF Number
  <2> QED BY <1>5, <2>1
<1> QED BY <1>1, <1>5, <1>6 DEF Follows

\* true_range looks at the bar and the one before.
LEMMA TrueRangeAgrees ==
    ASSUME NEW bars \in Bars, NEW other \in Bars, NEW m, Agree(bars, other, m)
    PROVE  Agree(TrueRange(bars), TrueRange(other), m)
<1>1. m \in Nat /\ m <= Len(bars) /\ m <= Len(other)
  BY DEF Agree
<1>2. ASSUME NEW i \in 1..m PROVE TrueRange(bars)[i] = TrueRange(other)[i]
  <2>1. bars[i] = other[i] /\ (i # 1 => bars[i - 1] = other[i - 1])
    BY <1>1 DEF Agree
  <2>2. RangeAt(bars, i) = RangeAt(other, i)
    BY <2>1 DEF RangeAt
  <2>3. i \in 1..Len(bars) /\ i \in 1..Len(other)
    BY <1>1
  <2> QED BY <2>2, <2>3, TrueRangeIs
<1> QED BY <1>1, <1>2, TrueRangeIs DEF Agree, Follows

\* The loss distance of bar i.
LossAt(bars, cfg, i) ==
    IF RMA(TrueRange(bars), cfg.atr)[i] = NA THEN NA
    ELSE cfg.key * RMA(TrueRange(bars), cfg.atr)[i]

\* rma gives a number or NA for every bar.
LEMMA RMAIs ==
    ASSUME NEW v \in Seq(Number), NEW n \in Nat \ {0}
    PROVE  Follows(RMA(v, n), v)
BY RecursiveAverageIs DEF RMA, Follows

\* The loss distance is ut_key times the smoothed range, or NA with it.
LEMMA LossIs ==
    ASSUME NEW bars \in Bars, NEW cfg \in Settings
    PROVE  /\ Follows(Loss(bars, cfg), bars)
           /\ \A i \in 1..Len(bars) : Loss(bars, cfg)[i] = LossAt(bars, cfg, i)
<1> PICK range : range = RMA(TrueRange(bars), cfg.atr)
  OBVIOUS
<1>1. Follows(range, bars)
  <2>1. cfg.atr \in Nat \ {0}
    BY DEF Settings
  <2> QED BY <2>1, TrueRangeIs, RMAIs DEF Follows
<1> PICK F : F = [i \in 1..Len(bars) |-> LossAt(bars, cfg, i)]
  OBVIOUS
<1>2. F \in [1..Len(bars) -> Number]
  <2> SUFFICES ASSUME NEW i \in 1..Len(bars)
               PROVE  LossAt(bars, cfg, i) \in Number
    OBVIOUS
  <2>1. range[i] \in Int \cup {NA} /\ cfg.key \in Nat
    BY <1>1 DEF Follows, Number, Settings
  <2>2. range[i] \in Int => cfg.key * range[i] \in Int
    BY <2>1
  <2> QED BY <2>1, <2>2 DEF LossAt, Number
<1>3. Loss(bars, cfg) = SubSeq(F, 1, Len(bars))
  <2>1. F = [i \in DOMAIN bars |-> LossAt(bars, cfg, i)]
    BY DEF Bars
  <2> QED BY <2>1, Zenon DEF Loss, Each, LossAt
<1>4. Len(bars) \in Nat
  BY DEF Bars
<1> QED BY <1>2, <1>3, <1>4, EachIs DEF Follows

\* The loss distance looks at no later bar.
LEMMA LossAgrees ==
    ASSUME NEW bars \in Bars, NEW other \in Bars, NEW m, Agree(bars, other, m),
           NEW cfg \in Settings
    PROVE  Agree(Loss(bars, cfg), Loss(other, cfg), m)
<1>1. m \in Nat /\ m <= Len(bars) /\ m <= Len(other)
  BY DEF Agree
<1>2. Agree(RMA(TrueRange(bars), cfg.atr), RMA(TrueRange(other), cfg.atr), m)
  <2>1. cfg.atr \in Nat \ {0} /\ 1 \in Int
    BY DEF Settings
  <2> QED BY <2>1, TrueRangeIs, TrueRangeAgrees, RecursiveAverageAgrees DEF Follows, RMA
<1>3. ASSUME NEW i \in 1..m PROVE Loss(bars, cfg)[i] = Loss(other, cfg)[i]
  <2>1. LossAt(bars, cfg, i) = LossAt(other, cfg, i)
    BY <1>2 DEF LossAt, Agree
  <2>2. i \in 1..Len(bars) /\ i \in 1..Len(other)
    BY <1>1
  <2> QED BY <2>1, <2>2, LossIs
<1> QED BY <1>1, <1>3, LossIs DEF Agree, Follows

\* _trailing_stop: the stop of bar i, when the one before was base.
StopAt(closes, loss, i, base) ==
    LET stays(Op(_, _)) == i > 1 /\ Op(closes[i], base) /\ Op(closes[i - 1], base)
    IN  CASE loss[i] = NA -> NA
          [] loss[i] # NA /\ stays(>) -> Max({base, closes[i] - loss[i]})
          [] loss[i] # NA /\ stays(<) -> Min({base, closes[i] + loss[i]})
          [] OTHER -> IF closes[i] > base THEN closes[i] - loss[i] ELSE closes[i] + loss[i]

\* _trailing_stop: what the stop of bar i starts from.
BaseOf(loss, i, previous) == IF i = 1 \/ loss[i - 1] = NA THEN 0 ELSE previous

\* A stop is a number where the loss distance is one.
LEMMA StopAtIs ==
    ASSUME NEW closes, NEW loss, NEW i \in Nat, NEW base \in Int,
           closes[i] \in Int, loss[i] \in Number
    PROVE  StopAt(closes, loss, i, base) \in Number
           /\ (loss[i] # NA => StopAt(closes, loss, i, base) \in Int)
<1>1. CASE loss[i] = NA
  BY <1>1 DEF StopAt, Number
<1>2. CASE loss[i] # NA
  <2> PICK l \in Int : l = loss[i]
    BY <1>2 DEF Number
  <2> PICK c \in Int : c = closes[i]
    OBVIOUS
  <2>1. c - l \in Int /\ c + l \in Int
    OBVIOUS
  <2>2. Max({base, c - l}) \in Int /\ Min({base, c + l}) \in Int
    BY <2>1, TwoAreOrdered
  <2>3. StopAt(closes, loss, i, base) \in Int
    BY <1>2, <2>1, <2>2 DEF StopAt
  <2> QED BY <2>3 DEF Number
<1> QED BY <1>1, <1>2

\* _trailing_stop: its recursion is defined, and each stop follows from the last.
LEMMA TrailingStopIs ==
    ASSUME NEW closes \in Seq(Int), NEW loss \in Seq(Number), Len(loss) = Len(closes),
           NEW trail, trail = TrailingStop(closes, loss)
    PROVE  /\ Follows(trail, closes)
           /\ \A i \in 1..Len(closes) :
                 /\ trail[i] = StopAt(closes, loss, i, BaseOf(loss, i, trail[i - 1]))
                 /\ BaseOf(loss, i, trail[i - 1]) \in Int
                 /\ loss[i] # NA => trail[i] \in Int
<1> PICK N \in Nat : N = Len(closes)
  OBVIOUS
<1> DEFINE Fits(g) ==
             g = [i \in DOMAIN closes |->
                     LET base     == IF i = 1 \/ loss[i - 1] = NA THEN 0 ELSE g[i - 1]
                         stays(Op(_, _)) ==
                             i > 1 /\ Op(closes[i], base) /\ Op(closes[i - 1], base)
                     IN  CASE loss[i] = NA -> NA
                           [] loss[i] # NA /\ stays(>) -> Max({base, closes[i] - loss[i]})
                           [] loss[i] # NA /\ stays(<) -> Min({base, closes[i] + loss[i]})
                           [] OTHER -> IF closes[i] > base THEN closes[i] - loss[i]
                                                           ELSE closes[i] + loss[i]]
           Goes(g) == g = [i \in 1..N |-> StopAt(closes, loss, i, BaseOf(loss, i, g[i - 1]))]
           stop == CHOOSE g : Fits(g)
<1>1. trail = SubSeq([i \in 1..N |-> stop[i]], 1, N)
  <2>1. DOMAIN closes = 1..N
    OBVIOUS
  <2>2. trail = SubSeq([i \in DOMAIN closes |-> stop[i]], 1, Len(closes))
    BY Zenon DEF TrailingStop, Each
  <2> HIDE DEF stop
  <2> QED BY <2>1, <2>2
<1>2. ASSUME NEW g PROVE Fits(g) <=> Goes(g)
  <2>1. DOMAIN closes = 1..N
    OBVIOUS
  <2> QED BY <2>1, Zenon DEF StopAt, BaseOf
<1>3. \A i \in 1..N : closes[i] \in Int /\ loss[i] \in Number
  OBVIOUS
<1>4. ASSUME NEW i \in 1..N, NEW base \in Int
      PROVE  StopAt(closes, loss, i, base) \in Number
             /\ (loss[i] # NA => StopAt(closes, loss, i, base) \in Int)
  BY <1>3, StopAtIs
<1>5. \E g : Goes(g)
  <2> PICK Known1 : Known1 = [q \in (1..N) \X Int |-> StopAt(closes, loss, q[1], q[2])]
    OBVIOUS
  <2> PICK step : step = [q \in (1..N) \X Int |->
                             IF loss[q[1]] = NA THEN 0 ELSE Known1[q]]
    OBVIOUS
  <2>1. step \in [(1..N) \X Int -> Int]
    BY <1>4
  <2>2. PICK f : Recursion(f, N, Int, 0, step)
    <3>0. PICK V : V = Int
      OBVIOUS
    <3>1. 0 \in V /\ step \in [(1..N) \X V -> V]
      BY <2>1, <3>0
    <3>2. \E f : Recursion(f, N, V, 0, step)
      BY <3>1, RecursionIsDefined
    <3> QED BY <3>0, <3>2
  <2>3. f \in [0..N -> Int] /\ f[0] = 0 /\ \A i \in 1..N : f[i] = step[<<i, f[i - 1]>>]
    BY <2>2 DEF Recursion
  <2> PICK g : g = [i \in 1..N |-> IF loss[i] = NA THEN NA ELSE f[i]]
    OBVIOUS
  <2>4. ASSUME NEW i \in 1..N
        PROVE  g[i] = StopAt(closes, loss, i, BaseOf(loss, i, g[i - 1]))
    <3>1. BaseOf(loss, i, g[i - 1]) = f[i - 1]
      <4>1. CASE i = 1
        BY <2>3, <4>1 DEF BaseOf
      <4>2. CASE i # 1
        <5>1. i - 1 \in 1..N /\ i - 2 = (i - 1) - 1 /\ i - 2 \in 0..N
          BY <4>2
        <5>2. CASE loss[i - 1] = NA
          <6>1. f[i - 1] = step[<<i - 1, f[i - 2]>>] /\ f[i - 2] \in Int
            BY <2>3, <5>1
          <6> QED BY <5>1, <5>2, <6>1 DEF BaseOf
        <5>3. CASE loss[i - 1] # NA
          BY <4>2, <5>1, <5>3 DEF BaseOf
        <5> QED BY <5>2, <5>3
      <4> QED BY <4>1, <4>2
    <3>2. f[i - 1] \in Int /\ f[i] = step[<<i, f[i - 1]>>]
      <4>1. i - 1 \in 0..N
        OBVIOUS
      <4> QED BY <2>3, <4>1
    <3>3. loss[i] # NA => f[i] = StopAt(closes, loss, i, f[i - 1])
      BY <3>2
    <3>4. loss[i] = NA => StopAt(closes, loss, i, f[i - 1]) = NA
      BY DEF StopAt
    <3> QED BY <3>1, <3>3, <3>4
  <2>5. Goes(g)
    BY <2>4
  <2> HIDE DEF Fits, Goes
  <2> QED BY <2>5
<1>6. Goes(stop)
  <2> HIDE DEF Fits, Goes
  <2> QED BY <1>2, <1>5
<1> HIDE DEF stop
<1>7. \A i \in 1..N : stop[i] = StopAt(closes, loss, i, BaseOf(loss, i, stop[i - 1]))
  BY <1>6
<1>8. \A i \in 1..N : BaseOf(loss, i, stop[i - 1]) \in Int
  <2> DEFINE Good == {i \in 1..N : BaseOf(loss, i, stop[i - 1]) \in Int}
  <2>1. ASSUME NEW i \in 1..N, \A j \in 1 .. i - 1 : j \in Good
        PROVE  i \in Good
    <3>1. CASE i = 1 \/ loss[i - 1] = NA
      BY <3>1 DEF BaseOf
    <3>2. CASE ~(i = 1 \/ loss[i - 1] = NA)
      <4>1. i - 1 \in 1 .. i - 1 /\ i - 1 \in 1..N
        BY <3>2
      <4> PICK base \in Int : base = BaseOf(loss, i - 1, stop[(i - 1) - 1])
        BY <2>1, <4>1
      <4>2. stop[i - 1] = StopAt(closes, loss, i - 1, base)
        BY <1>7, <4>1
      <4>3. stop[i - 1] \in Int
        BY <1>4, <3>2, <4>1, <4>2
      <4> QED BY <3>2, <4>3 DEF BaseOf
    <3> QED BY <3>1, <3>2
  <2>2. \A i \in 1..N : i \in Good
    <3> HIDE DEF Good
    <3> QED BY <2>1, CountingUp
  <2> QED BY <2>2
<1>9. \A i \in 1..N : stop[i] \in Number /\ (loss[i] # NA => stop[i] \in Int)
  BY <1>4, <1>7, <1>8
<1>10. /\ trail \in Seq(Number) /\ Len(trail) = N
       /\ \A i \in 1..N : trail[i] = stop[i]
  <2> PICK F : F = [i \in 1..N |-> stop[i]]
    OBVIOUS
  <2>1. F \in [1..N -> Number]
    BY <1>9
  <2> QED BY <1>1, <2>1, EachIs
<1>11. ASSUME NEW i \in 1..N
       PROVE  BaseOf(loss, i, trail[i - 1]) = BaseOf(loss, i, stop[i - 1])
  BY <1>10 DEF BaseOf
<1> QED BY <1>7, <1>8, <1>9, <1>10, <1>11 DEF Follows

\* _trailing_stop looks at no later bar.
LEMMA TrailingStopAgrees ==
    ASSUME NEW closes \in Seq(Int), NEW loss \in Seq(Number), Len(loss) = Len(closes),
           NEW closes2 \in Seq(Int), NEW loss2 \in Seq(Number), Len(loss2) = Len(closes2),
           NEW m, Agree(closes, closes2, m), Agree(loss, loss2, m)
    PROVE  Agree(TrailingStop(closes, loss), TrailingStop(closes2, loss2), m)
<1> PICK f : f = TrailingStop(closes, loss)
  OBVIOUS
<1> PICK g : g = TrailingStop(closes2, loss2)
  OBVIOUS
<1>1. m \in Nat /\ m <= Len(closes) /\ m <= Len(closes2)
  BY DEF Agree
<1>2. /\ Len(f) = Len(closes)
      /\ \A i \in 1..Len(closes) : f[i] = StopAt(closes, loss, i, BaseOf(loss, i, f[i - 1]))
  BY TrailingStopIs DEF Follows
<1>3. /\ Len(g) = Len(closes2)
      /\ \A i \in 1..Len(closes2) : g[i] = StopAt(closes2, loss2, i, BaseOf(loss2, i, g[i - 1]))
  BY TrailingStopIs DEF Follows
<1> DEFINE Good == {i \in 1..m : f[i] = g[i]}
<1>4. ASSUME NEW i \in 1..m, \A j \in 1 .. i - 1 : j \in Good
      PROVE  i \in Good
  <2>1. i \in 1..Len(closes) /\ i \in 1..Len(closes2)
    BY <1>1
  <2>2. i # 1 => i - 1 \in 1..m /\ i - 1 \in 1 .. i - 1
    BY <1>1
  <2>3. /\ closes[i] = closes2[i] /\ loss[i] = loss2[i]
        /\ i # 1 => closes[i - 1] = closes2[i - 1] /\ loss[i - 1] = loss2[i - 1]
    BY <2>2 DEF Agree
  <2>4. i # 1 => f[i - 1] = g[i - 1]
    BY <1>4, <2>2
  <2> PICK base : base = BaseOf(loss, i, f[i - 1])
    OBVIOUS
  <2>5. base = BaseOf(loss2, i, g[i - 1])
    BY <2>3, <2>4 DEF BaseOf
  <2>6. StopAt(closes, loss, i, base) = StopAt(closes2, loss2, i, base)
    <3>1. CASE i = 1
      <4>1. ~(i > 1)
        BY <3>1
      <4> QED BY <2>3, <4>1 DEF StopAt
    <3>2. CASE i # 1
      BY <2>3, <3>2 DEF StopAt
    <3> QED BY <3>1, <3>2
  <2> QED BY <1>2, <1>3, <2>1, <2>5, <2>6
<1>5. \A i \in 1..m : i \in Good
  <2> HIDE DEF Good
  <2> QED BY <1>1, <1>4, CountingUp
<1> QED BY <1>1, <1>2, <1>3, <1>5 DEF Agree
------------------------------------------------------------------------------
(* Colours, extremes and crossings.                                          *)

\* _hull_colors, for bar i.
ColorAt(hull, i) ==
    IF i <= 2 \/ hull[i] = NA \/ hull[i - 2] = NA THEN NA
    ELSE IF hull[i] > hull[i - 2] THEN "green" ELSE "red"

\* _hull_colors, bar by bar.
LEMMA ColorsAre ==
    ASSUME NEW hull, Len(hull) \in Nat, DOMAIN hull = 1..Len(hull)
    PROVE  /\ Len(Colors(hull)) = Len(hull)
           /\ \A i \in 1..Len(hull) : Colors(hull)[i] = ColorAt(hull, i)
<1> PICK F : F = [i \in 1..Len(hull) |-> ColorAt(hull, i)]
  OBVIOUS
<1>1. F = [i \in 1..Len(hull) |-> F[i]]
  OBVIOUS
<1>2. Colors(hull) = SubSeq(F, 1, Len(hull))
  <2>1. F = [i \in DOMAIN hull |-> ColorAt(hull, i)]
    OBVIOUS
  <2> QED BY <2>1, Zenon DEF Colors, Each, ColorAt
<1> QED BY <1>1, <1>2, EachHas

\* _hull_colors looks at no later bar.
LEMMA ColorsAgree ==
    ASSUME NEW v \in Seq(Number), NEW w \in Seq(Number), NEW m, Agree(v, w, m)
    PROVE  Agree(Colors(v), Colors(w), m)
<1>1. m \in Nat /\ m <= Len(v) /\ m <= Len(w)
  BY DEF Agree
<1>2. ASSUME NEW i \in 1..m PROVE ColorAt(v, i) = ColorAt(w, i)
  <2>1. v[i] = w[i] /\ (~(i <= 2) => v[i - 2] = w[i - 2])
    BY <1>1 DEF Agree
  <2> QED BY <2>1 DEF ColorAt
<1>3. \A i \in 1..m : i \in 1..Len(v) /\ i \in 1..Len(w)
  BY <1>1
<1>4. Len(Colors(v)) = Len(v) /\ \A i \in 1..Len(v) : Colors(v)[i] = ColorAt(v, i)
  BY ColorsAre
<1>5. Len(Colors(w)) = Len(w) /\ \A i \in 1..Len(w) : Colors(w)[i] = ColorAt(w, i)
  BY ColorsAre
<1> QED BY <1>1, <1>2, <1>3, <1>4, <1>5 DEF Agree

\* lowest and highest, for bar i.
LowestAt(v, n, i)  == IF i < n THEN NA ELSE Min({v[j] : j \in Window(i, n)})
HighestAt(v, n, i) == IF i < n THEN NA ELSE Max({v[j] : j \in Window(i, n)})

\* lowest and highest, bar by bar.
LEMMA ExtremesAre ==
    ASSUME NEW v \in Seq(Int), NEW n
    PROVE  /\ Len(Lowest(v, n)) = Len(v) /\ Len(Highest(v, n)) = Len(v)
           /\ \A i \in 1..Len(v) : Lowest(v, n)[i] = LowestAt(v, n, i)
           /\ \A i \in 1..Len(v) : Highest(v, n)[i] = HighestAt(v, n, i)
<1>0. Len(v) \in Nat
  OBVIOUS
<1>1. Len(Lowest(v, n)) = Len(v) /\ \A i \in 1..Len(v) : Lowest(v, n)[i] = LowestAt(v, n, i)
  <2> PICK F : F = [i \in 1..Len(v) |-> LowestAt(v, n, i)]
    OBVIOUS
  <2>1. F = [i \in 1..Len(v) |-> F[i]]
    OBVIOUS
  <2>2. Lowest(v, n) = SubSeq(F, 1, Len(v))
    <3>1. F = [i \in DOMAIN v |-> LowestAt(v, n, i)]
      OBVIOUS
    <3> QED BY <3>1, Zenon DEF Lowest, Each, LowestAt
  <2> QED BY <1>0, <2>1, <2>2, EachHas
<1>2. Len(Highest(v, n)) = Len(v) /\ \A i \in 1..Len(v) : Highest(v, n)[i] = HighestAt(v, n, i)
  <2> PICK F : F = [i \in 1..Len(v) |-> HighestAt(v, n, i)]
    OBVIOUS
  <2>1. F = [i \in 1..Len(v) |-> F[i]]
    OBVIOUS
  <2>2. Highest(v, n) = SubSeq(F, 1, Len(v))
    <3>1. F = [i \in DOMAIN v |-> HighestAt(v, n, i)]
      OBVIOUS
    <3> QED BY <3>1, Zenon DEF Highest, Each, HighestAt
  <2> QED BY <1>0, <2>1, <2>2, EachHas
<1> QED BY <1>1, <1>2

\* lowest and highest look at no later bar.
LEMMA ExtremesAgree ==
    ASSUME NEW v \in Seq(Int), NEW w \in Seq(Int), NEW m, Agree(v, w, m), NEW n \in Nat \ {0}
    PROVE  Agree(Lowest(v, n), Lowest(w, n), m) /\ Agree(Highest(v, n), Highest(w, n), m)
<1>1. m \in Nat /\ m <= Len(v) /\ m <= Len(w)
  BY DEF Agree
<1>2. ASSUME NEW i \in 1..m
      PROVE  LowestAt(v, n, i) = LowestAt(w, n, i) /\ HighestAt(v, n, i) = HighestAt(w, n, i)
  <2>1. ASSUME ~(i < n)
        PROVE  {v[j] : j \in Window(i, n)} = {w[j] : j \in Window(i, n)}
    <3>1. \A j \in Window(i, n) : j \in 1..m
      BY <1>1, <2>1 DEF Window
    <3>2. \A j \in Window(i, n) : v[j] = w[j]
      BY <3>1 DEF Agree
    <3> QED BY <3>2
  <2> QED BY <2>1 DEF LowestAt, HighestAt
<1>3. \A i \in 1..m : i \in 1..Len(v) /\ i \in 1..Len(w)
  BY <1>1
<1>4. /\ Len(Lowest(v, n)) = Len(v) /\ Len(Highest(v, n)) = Len(v)
      /\ Len(Lowest(w, n)) = Len(w) /\ Len(Highest(w, n)) = Len(w)
      /\ \A i \in 1..m : Lowest(v, n)[i] = Lowest(w, n)[i]
      /\ \A i \in 1..m : Highest(v, n)[i] = Highest(w, n)[i]
  BY <1>2, <1>3, ExtremesAre
<1> QED BY <1>1, <1>4 DEF Agree

\* crossover and crossunder, for bar i.
CrossoverAt(v, w, i)  == Known(v, w, i) /\ v[i] > w[i] /\ v[i - 1] <= w[i - 1]
CrossunderAt(v, w, i) == Known(v, w, i) /\ v[i] < w[i] /\ v[i - 1] >= w[i - 1]

\* crossover and crossunder, bar by bar.
LEMMA CrossingsAre ==
    ASSUME NEW v \in Seq(Int), NEW w
    PROVE  /\ Len(Crossover(v, w)) = Len(v) /\ Len(Crossunder(v, w)) = Len(v)
           /\ \A i \in 1..Len(v) : Crossover(v, w)[i] = CrossoverAt(v, w, i)
           /\ \A i \in 1..Len(v) : Crossunder(v, w)[i] = CrossunderAt(v, w, i)
<1>0. Len(v) \in Nat
  OBVIOUS
<1>1. Len(Crossover(v, w)) = Len(v)
      /\ \A i \in 1..Len(v) : Crossover(v, w)[i] = CrossoverAt(v, w, i)
  <2> PICK F : F = [i \in 1..Len(v) |-> CrossoverAt(v, w, i)]
    OBVIOUS
  <2>1. F = [i \in 1..Len(v) |-> F[i]]
    OBVIOUS
  <2>2. Crossover(v, w) = SubSeq(F, 1, Len(v))
    <3>1. F = [i \in DOMAIN v |-> CrossoverAt(v, w, i)]
      OBVIOUS
    <3> QED BY <3>1, Zenon DEF Crossover, Each, CrossoverAt
  <2>3. \A i \in 1..Len(v) : F[i] = CrossoverAt(v, w, i)
    BY Zenon
  <2> QED BY <1>0, <2>1, <2>2, <2>3, EachHas
<1>2. Len(Crossunder(v, w)) = Len(v)
      /\ \A i \in 1..Len(v) : Crossunder(v, w)[i] = CrossunderAt(v, w, i)
  <2> PICK F : F = [i \in 1..Len(v) |-> CrossunderAt(v, w, i)]
    OBVIOUS
  <2>1. F = [i \in 1..Len(v) |-> F[i]]
    OBVIOUS
  <2>2. Crossunder(v, w) = SubSeq(F, 1, Len(v))
    <3>1. F = [i \in DOMAIN v |-> CrossunderAt(v, w, i)]
      OBVIOUS
    <3> QED BY <3>1, Zenon DEF Crossunder, Each, CrossunderAt
  <2>3. \A i \in 1..Len(v) : F[i] = CrossunderAt(v, w, i)
    BY Zenon
  <2> QED BY <1>0, <2>1, <2>2, <2>3, EachHas
<1> QED BY <1>1, <1>2

\* crossover and crossunder look at no later bar.
LEMMA CrossingsAgree ==
    ASSUME NEW v \in Seq(Int), NEW v2 \in Seq(Int), NEW w, NEW w2, NEW m,
           Agree(v, v2, m), Agree(w, w2, m)
    PROVE  /\ Agree(Crossover(v, w), Crossover(v2, w2), m)
           /\ Agree(Crossunder(v, w), Crossunder(v2, w2), m)
<1>1. m \in Nat /\ m <= Len(v) /\ m <= Len(v2)
  BY DEF Agree
<1>2. ASSUME NEW i \in 1..m
      PROVE  /\ CrossoverAt(v, w, i) = CrossoverAt(v2, w2, i)
             /\ CrossunderAt(v, w, i) = CrossunderAt(v2, w2, i)
  <2>1. /\ v[i] = v2[i] /\ w[i] = w2[i]
        /\ i > 1 => v[i - 1] = v2[i - 1] /\ w[i - 1] = w2[i - 1]
    BY <1>1 DEF Agree
  <2> QED BY <2>1 DEF CrossoverAt, CrossunderAt, Known
<1>3. \A i \in 1..m : i \in 1..Len(v) /\ i \in 1..Len(v2)
  BY <1>1
<1>4. /\ Len(Crossover(v, w)) = Len(v) /\ Len(Crossunder(v, w)) = Len(v)
      /\ Len(Crossover(v2, w2)) = Len(v2) /\ Len(Crossunder(v2, w2)) = Len(v2)
      /\ \A i \in 1..m : Crossover(v, w)[i] = Crossover(v2, w2)[i]
      /\ \A i \in 1..m : Crossunder(v, w)[i] = Crossunder(v2, w2)[i]
  BY <1>2, <1>3, CrossingsAre
<1> QED BY <1>1, <1>4 DEF Agree
------------------------------------------------------------------------------
(* compute_signals.                                                          *)

\* compute_signals: the series it makes first.
Closes(bars)    == Each(bars, LAMBDA i : bars[i].close)
Lows(bars)      == Each(bars, LAMBDA i : bars[i].low)
Highs(bars)     == Each(bars, LAMBDA i : bars[i].high)
Stops(bars, cfg) == TrailingStop(Closes(bars), Loss(bars, cfg))

\* The closes are as many as the bars.
LEMMA ClosesAre ==
    ASSUME NEW bars \in Bars
    PROVE  /\ Closes(bars) \in Seq(Int) /\ Len(Closes(bars)) = Len(bars)
           /\ \A i \in 1..Len(bars) : Closes(bars)[i] = bars[i].close
<1> PICK F : F = [i \in 1..Len(bars) |-> bars[i].close]
  OBVIOUS
<1>1. F \in [1..Len(bars) -> Int]
  BY BarsAre
<1>2. Closes(bars) = SubSeq(F, 1, Len(bars))
  <2>1. F = [i \in DOMAIN bars |-> bars[i].close]
    BY DEF Bars
  <2> QED BY <2>1, Zenon DEF Closes, Each
<1>3. Len(bars) \in Nat
  BY DEF Bars
<1> QED BY <1>1, <1>2, <1>3, EachIs

\* So are the lows.
LEMMA LowsAre ==
    ASSUME NEW bars \in Bars
    PROVE  /\ Lows(bars) \in Seq(Int) /\ Len(Lows(bars)) = Len(bars)
           /\ \A i \in 1..Len(bars) : Lows(bars)[i] = bars[i].low
<1> PICK F : F = [i \in 1..Len(bars) |-> bars[i].low]
  OBVIOUS
<1>1. F \in [1..Len(bars) -> Int]
  BY BarsAre
<1>2. Lows(bars) = SubSeq(F, 1, Len(bars))
  <2>1. F = [i \in DOMAIN bars |-> bars[i].low]
    BY DEF Bars
  <2> QED BY <2>1, Zenon DEF Lows, Each
<1>3. Len(bars) \in Nat
  BY DEF Bars
<1> QED BY <1>1, <1>2, <1>3, EachIs

\* So are the highs.
LEMMA HighsAre ==
    ASSUME NEW bars \in Bars
    PROVE  /\ Highs(bars) \in Seq(Int) /\ Len(Highs(bars)) = Len(bars)
           /\ \A i \in 1..Len(bars) : Highs(bars)[i] = bars[i].high
<1> PICK F : F = [i \in 1..Len(bars) |-> bars[i].high]
  OBVIOUS
<1>1. F \in [1..Len(bars) -> Int]
  BY BarsAre
<1>2. Highs(bars) = SubSeq(F, 1, Len(bars))
  <2>1. F = [i \in DOMAIN bars |-> bars[i].high]
    BY DEF Bars
  <2> QED BY <2>1, Zenon DEF Highs, Each
<1>3. Len(bars) \in Nat
  BY DEF Bars
<1> QED BY <1>1, <1>2, <1>3, EachIs

\* What compute_signals says of bar i.
SaysOf(bars, cfg, i) ==
    LET closes == Closes(bars)
        stop   == Stops(bars, cfg)
        buy    == Crossover(closes, stop)
        sell   == Crossunder(closes, stop)
        color  == Colors(Hull(closes, cfg))
        low    == Lowest(Lows(bars), cfg.slLen)
        high   == Highest(Highs(bars), cfg.slLen)
        flips(k, from, to) == k > 1 /\ color[k - 1] = from /\ color[k] = to
    IN  [buy |-> buy[i], sell |-> sell[i], hull |-> color[i],
         flipDown |-> flips(i, "green", "red"), flipUp |-> flips(i, "red", "green"),
         stop |-> stop[i], stopLow |-> low[i], stopHigh |-> high[i]]

\* compute_signals says one thing of every bar.
LEMMA SignalsAre ==
    ASSUME NEW bars \in Bars, NEW cfg
    PROVE  /\ Len(ComputeSignals(bars, cfg)) = Len(bars)
           /\ DOMAIN ComputeSignals(bars, cfg) = 1..Len(bars)
           /\ \A i \in 1..Len(bars) : ComputeSignals(bars, cfg)[i] = SaysOf(bars, cfg, i)
           /\ \E F : ComputeSignals(bars, cfg) = SubSeq(F, 1, Len(bars))
                     /\ F = [i \in 1..Len(bars) |-> SaysOf(bars, cfg, i)]
<1> PICK F : F = [i \in 1..Len(bars) |-> SaysOf(bars, cfg, i)]
  OBVIOUS
<1>0. F = [i \in 1..Len(bars) |-> F[i]]
  OBVIOUS
<1>1. \A i \in 1..Len(bars) : F[i] = SaysOf(bars, cfg, i)
  BY Zenon
<1>2. ComputeSignals(bars, cfg) = SubSeq(F, 1, Len(bars))
  <2>1. F = [i \in DOMAIN bars |-> SaysOf(bars, cfg, i)]
    BY DEF Bars
  <2> QED BY <2>1, Zenon DEF ComputeSignals, Each, SaysOf, Stops, Closes, Lows, Highs
<1>3. Len(bars) \in Nat
  BY DEF Bars
<1>4. Len(SubSeq(F, 1, Len(bars))) = Len(bars)
      /\ DOMAIN SubSeq(F, 1, Len(bars)) = 1..Len(bars)
      /\ \A i \in 1..Len(bars) : SubSeq(F, 1, Len(bars))[i] = F[i]
  <2> PICK n \in Nat : n = Len(bars)
    BY <1>3
  <2>1. F = [i \in 1..n |-> F[i]]
    BY <1>0
  <2> QED BY <2>1, EachHas
<1>5. \A i \in 1..Len(bars) : ComputeSignals(bars, cfg)[i] = SaysOf(bars, cfg, i)
  BY <1>1, <1>2, <1>4, Zenon
<1>6. F = [i \in 1..Len(bars) |-> SaysOf(bars, cfg, i)]
  BY <1>0, <1>1
<1> QED BY <1>2, <1>4, <1>5, <1>6, Zenon

\* Series of bars that agree have prices that agree.
LEMMA PricesAgree ==
    ASSUME NEW bars \in Bars, NEW other \in Bars, NEW m, Agree(bars, other, m)
    PROVE  /\ Agree(Closes(bars), Closes(other), m)
           /\ Agree(Lows(bars), Lows(other), m)
           /\ Agree(Highs(bars), Highs(other), m)
<1>1. m \in Nat /\ m <= Len(bars) /\ m <= Len(other)
  BY DEF Agree
<1>2. \A i \in 1..m : i \in 1..Len(bars) /\ i \in 1..Len(other) /\ bars[i] = other[i]
  BY <1>1 DEF Agree
<1>3. Agree(Closes(bars), Closes(other), m)
  <2>1. \A i \in 1..m : Closes(bars)[i] = bars[i].close /\ Closes(other)[i] = other[i].close
    BY <1>2, ClosesAre
  <2>2. \A i \in 1..m : Closes(bars)[i] = Closes(other)[i]
    BY <1>2, <2>1
  <2> QED BY <1>1, <2>2, ClosesAre DEF Agree
<1>4. Agree(Lows(bars), Lows(other), m)
  <2>1. \A i \in 1..m : Lows(bars)[i] = bars[i].low /\ Lows(other)[i] = other[i].low
    BY <1>2, LowsAre
  <2>2. \A i \in 1..m : Lows(bars)[i] = Lows(other)[i]
    BY <1>2, <2>1
  <2> QED BY <1>1, <2>2, LowsAre DEF Agree
<1>5. Agree(Highs(bars), Highs(other), m)
  <2>1. \A i \in 1..m : Highs(bars)[i] = bars[i].high /\ Highs(other)[i] = other[i].high
    BY <1>2, HighsAre
  <2>2. \A i \in 1..m : Highs(bars)[i] = Highs(other)[i]
    BY <1>2, <2>1
  <2> QED BY <1>1, <2>2, HighsAre DEF Agree
<1> QED BY <1>3, <1>4, <1>5

\* Numbers are a series of numbers and NA.
LEMMA IntsAreNumbers ==
    ASSUME NEW v \in Seq(Int)
    PROVE  v \in Seq(Number)
<1>1. Int \subseteq Number
  BY DEF Number
<1> QED BY <1>1

\* What compute_signals says of a bar depends on no later one.
LEMMA SignalsAgree ==
    ASSUME NEW bars \in Bars, NEW other \in Bars, NEW m, Agree(bars, other, m),
           NEW cfg \in Settings
    PROVE  \A i \in 1..m : SaysOf(bars, cfg, i) = SaysOf(other, cfg, i)
<1>1. /\ Agree(Closes(bars), Closes(other), m)
      /\ Agree(Lows(bars), Lows(other), m)
      /\ Agree(Highs(bars), Highs(other), m)
  BY PricesAgree
<1>2. /\ Closes(bars) \in Seq(Int) /\ Closes(other) \in Seq(Int)
      /\ Closes(bars) \in Seq(Number) /\ Closes(other) \in Seq(Number)
      /\ Len(Closes(bars)) = Len(bars) /\ Len(Closes(other)) = Len(other)
  BY ClosesAre, IntsAreNumbers
<1>3. Agree(Stops(bars, cfg), Stops(other, cfg), m)
  <2>1. Agree(Loss(bars, cfg), Loss(other, cfg), m)
    BY LossAgrees
  <2>2. Follows(Loss(bars, cfg), bars) /\ Follows(Loss(other, cfg), other)
    BY LossIs
  <2> QED BY <1>1, <1>2, <2>1, <2>2, TrailingStopAgrees DEF Follows, Stops
<1>4. /\ Agree(Crossover(Closes(bars), Stops(bars, cfg)),
               Crossover(Closes(other), Stops(other, cfg)), m)
      /\ Agree(Crossunder(Closes(bars), Stops(bars, cfg)),
               Crossunder(Closes(other), Stops(other, cfg)), m)
  BY <1>1, <1>2, <1>3, CrossingsAgree
<1>5. Agree(Colors(Hull(Closes(bars), cfg)), Colors(Hull(Closes(other), cfg)), m)
  <2>1. /\ Follows(Hull(Closes(bars), cfg), Closes(bars))
        /\ Follows(Hull(Closes(other), cfg), Closes(other))
    BY <1>2, HullIs
  <2>2. Agree(Hull(Closes(bars), cfg), Hull(Closes(other), cfg), m)
    BY <1>1, <1>2, HullAgrees
  <2> QED BY <2>1, <2>2, ColorsAgree DEF Follows
<1>6. /\ Agree(Lowest(Lows(bars), cfg.slLen), Lowest(Lows(other), cfg.slLen), m)
      /\ Agree(Highest(Highs(bars), cfg.slLen), Highest(Highs(other), cfg.slLen), m)
  <2>1. cfg.slLen \in Nat \ {0}
    BY DEF Settings
  <2> QED BY <1>1, <2>1, LowsAre, HighsAre, ExtremesAgree
<1> SUFFICES ASSUME NEW i \in 1..m
             PROVE  SaysOf(bars, cfg, i) = SaysOf(other, cfg, i)
  OBVIOUS
<1>7. m \in Nat /\ (i > 1 => i - 1 \in 1..m)
  BY DEF Agree
<1>8. /\ Stops(bars, cfg)[i] = Stops(other, cfg)[i]
      /\ Crossover(Closes(bars), Stops(bars, cfg))[i]
            = Crossover(Closes(other), Stops(other, cfg))[i]
      /\ Crossunder(Closes(bars), Stops(bars, cfg))[i]
            = Crossunder(Closes(other), Stops(other, cfg))[i]
      /\ Lowest(Lows(bars), cfg.slLen)[i] = Lowest(Lows(other), cfg.slLen)[i]
      /\ Highest(Highs(bars), cfg.slLen)[i] = Highest(Highs(other), cfg.slLen)[i]
  BY <1>3, <1>4, <1>6 DEF Agree
<1>9. /\ Colors(Hull(Closes(bars), cfg))[i] = Colors(Hull(Closes(other), cfg))[i]
      /\ i > 1 => Colors(Hull(Closes(bars), cfg))[i - 1]
                     = Colors(Hull(Closes(other), cfg))[i - 1]
  BY <1>5, <1>7 DEF Agree
<1> QED BY <1>8, <1>9 DEF SaysOf

\* Sequences with the same first n values have the same prefix.
LEMMA SubSeqSame ==
    ASSUME NEW n \in Nat, NEW F, NEW G, \A i \in 1..n : F[i] = G[i]
    PROVE  SubSeq(F, 1, n) = SubSeq(G, 1, n)
<1> PICK S : S = {F[i] : i \in 1..n}
  OBVIOUS
<1>1. \A i \in 1..n : F[i] \in S /\ G[i] \in S
  OBVIOUS
<1>2. 1 \in Int /\ n \in Int
  OBVIOUS
<1>3. /\ SubSeq(F, 1, n) \in Seq(S)
      /\ Len(SubSeq(F, 1, n)) = IF 1 <= n THEN n - 1 + 1 ELSE 0
      /\ \A i \in 1 .. n - 1 + 1 : SubSeq(F, 1, n)[i] = F[1 + i - 1]
  BY <1>1, <1>2, SubSeqProperties
<1>4. /\ SubSeq(G, 1, n) \in Seq(S)
      /\ Len(SubSeq(G, 1, n)) = IF 1 <= n THEN n - 1 + 1 ELSE 0
      /\ \A i \in 1 .. n - 1 + 1 : SubSeq(G, 1, n)[i] = G[1 + i - 1]
  BY <1>1, <1>2, SubSeqProperties
<1>5. (IF 1 <= n THEN n - 1 + 1 ELSE 0) = n /\ n - 1 + 1 = n /\ \A i \in 1..n : 1 + i - 1 = i
  OBVIOUS
<1>6. /\ Len(SubSeq(F, 1, n)) = n /\ Len(SubSeq(G, 1, n)) = n
      /\ \A i \in 1..n : SubSeq(F, 1, n)[i] = SubSeq(G, 1, n)[i]
  BY <1>3, <1>4, <1>5
<1> QED BY <1>3, <1>4, <1>6

\* compute_signals of the first n bars says of them what it says of all.
LEMMA SignalsNeverRepaint ==
    ASSUME NEW bars \in Bars, NEW cfg \in Settings, NEW n \in 1..Len(bars)
    PROVE  ComputeSignals(SubSeq(bars, 1, n), cfg) = SubSeq(ComputeSignals(bars, cfg), 1, n)
<1> PICK first : first = SubSeq(bars, 1, n)
  OBVIOUS
<1>1. first \in Bars /\ Len(first) = n /\ \A i \in 1..n : first[i] = bars[i]
  <2>0. PICK B : B = [close : Int, high : Int, low : Int]
    OBVIOUS
  <2>1. bars \in Seq(B)
    BY <2>0 DEF Bars
  <2>2. 1 \in Int /\ n \in Int /\ n >= 1 /\ \A i \in 1..n : bars[i] \in B
    <3>1. n \in Int /\ n >= 1 /\ \A i \in 1..n : i \in 1..Len(bars)
      BY <2>1
    <3>2. ASSUME NEW i \in 1..n PROVE bars[i] \in B
      BY <2>1, <3>1, ElementOfSeq
    <3> QED BY <3>1, <3>2
  <2>3. /\ first \in Seq(B) /\ Len(first) = IF 1 <= n THEN n - 1 + 1 ELSE 0
        /\ \A i \in 1 .. n - 1 + 1 : first[i] = bars[1 + i - 1]
    BY <2>2, SubSeqProperties
  <2>4. n - 1 + 1 = n /\ \A i \in 1..n : 1 + i - 1 = i
    BY <2>2
  <2> QED BY <2>0, <2>2, <2>3, <2>4 DEF Bars
<1>2. n \in Nat /\ Len(bars) \in Nat /\ n <= Len(bars)
  BY DEF Bars
<1>3. Agree(first, bars, n)
  BY <1>1, <1>2 DEF Agree
<1>4. \A i \in 1..n : SaysOf(first, cfg, i) = SaysOf(bars, cfg, i)
  BY <1>1, <1>3, SignalsAgree
<1>5. PICK F : /\ ComputeSignals(first, cfg) = SubSeq(F, 1, n)
               /\ F = [i \in 1..n |-> SaysOf(first, cfg, i)]
  <2> HIDE DEF Bars
  <2>1. \E F : /\ ComputeSignals(first, cfg) = SubSeq(F, 1, Len(first))
               /\ F = [i \in 1..Len(first) |-> SaysOf(first, cfg, i)]
    BY <1>1, SignalsAre, Zenon
  <2> QED BY <1>1, <2>1
<1>6. \A i \in 1..n : F[i] = ComputeSignals(bars, cfg)[i]
  <2>1. \A i \in 1..n : i \in 1..Len(bars)
    BY <1>2
  <2>2. \A i \in 1..n : ComputeSignals(bars, cfg)[i] = SaysOf(bars, cfg, i)
    BY <2>1, SignalsAre
  <2> QED BY <1>4, <1>5, <2>2, Zenon
<1> QED BY <1>2, <1>5, <1>6, SubSeqSame
------------------------------------------------------------------------------
(* How far the stop can be from the close.                                   *)

\* An average of numbers from 0 to most is one of them.
LEMMA AverageIsBetween ==
    ASSUME NEW total \in Nat, NEW most \in Nat, NEW n \in Nat \ {0}, total <= most * n
    PROVE  total \div n \in 0..most
<1> PICK x \in Int : x = most * n
  OBVIOUS
<1>1. (most * n) \div n = most
  OBVIOUS
<1>2. total \div n <= x \div n
  BY QuotientMono
<1>3. total \div n \in Nat
  OBVIOUS
<1> QED BY <1>1, <1>2, <1>3

\* Wilder's weights keep two numbers from 0 to most within most, n times over.
LEMMA WeightedIsBetween ==
    ASSUME NEW x, NEW y, NEW most \in Nat, x \in 0..most, y \in 0..most, NEW n \in Nat \ {0}
    PROVE  1 * x + (n - 1) * y \in Nat /\ 1 * x + (n - 1) * y <= most * n
<1> PICK k \in Nat : n = k + 1
  OBVIOUS
<1>1. y * k \in Int /\ most * k \in Int /\ y * k <= most * k
  BY ProductMono
<1>2. y * k \in Nat
  OBVIOUS
<1>3. 1 * x + (n - 1) * y = x + y * k
  OBVIOUS
<1>4. most * n = most * k + most
  OBVIOUS
<1> QED BY <1>1, <1>2, <1>3, <1>4

\* Wilder's average of numbers from 0 to most stays between them.
LEMMA RMAIsBetween ==
    ASSUME NEW v \in Seq(Number), NEW n \in Nat \ {0}, NEW m \in 1..Len(v),
           NEW most \in Nat, \A j \in 1..m : v[j] \in 0..most
    PROVE  \A i \in 1..m : RMA(v, n)[i] \in 0..most \cup {NA}
<1> PICK avg : avg = RecursiveAverage(v, n, 1, n)
  OBVIOUS
<1>1. /\ Len(avg) = Len(v)
      /\ \A i \in 1..Len(v) : avg[i] = AverageAt(v, n, 1, n, i, IF i = 1 THEN NA ELSE avg[i - 1])
  BY RecursiveAverageIs
<1>2. ASSUME NEW i \in 1..m PROVE SMA(v, n)[i] \in 0..most \cup {NA}
  <2>1. i \in 1..Len(v)
    OBVIOUS
  <2>2. SMA(v, n)[i] = SMAAt(v, n, i)
    BY <2>1, SMAIs
  <2>3. CASE Full(v, i, n)
    <3> PICK W : W = Window(i, n)
      OBVIOUS
    <3>1. i >= n
      BY <2>3 DEF Full
    <3>2. /\ IsFiniteSet(W) /\ Cardinality(W) = n /\ W \subseteq 1..i
          /\ \A j \in W : v[j] \in Int
      BY <2>1, <2>3, <3>1, WindowIs
    <3>3. \A j \in W : v[j] \in 0..most
      BY <3>2
    <3>4. PICK sum : Adds(sum, v, W) /\ FoldFunctionOnSet(+, 0, v, W) = sum[W]
      BY <3>2, FoldIsSum
    <3>5. sum[W] \in Nat /\ sum[W] <= most * n
      <4>1. \A s \in SUBSET W : sum[s] \in Nat /\ sum[s] <= most * Cardinality(s)
        BY <3>2, <3>3, <3>4, SumIsBounded
      <4> QED BY <3>2, <4>1
    <3>6. SMAAt(v, n, i) = sum[W] \div n
      BY <2>3, <3>4 DEF SMAAt
    <3> QED BY <2>2, <3>5, <3>6, AverageIsBetween
  <2>4. CASE ~Full(v, i, n)
    BY <2>2, <2>4 DEF SMAAt
  <2> QED BY <2>3, <2>4
<1>3. ASSUME NEW i \in 1..m, NEW p \in 0..most \cup {NA}
      PROVE  AverageAt(v, n, 1, n, i, p) \in 0..most \cup {NA}
  <2>1. CASE p # NA /\ v[i] # NA
    <3>1. p \in 0..most /\ v[i] \in 0..most
      BY <2>1
    <3>2. /\ 1 * v[i] + (n - 1) * p \in Nat
          /\ 1 * v[i] + (n - 1) * p <= most * n
      BY <3>1, WeightedIsBetween
    <3>3. (1 * v[i] + (n - 1) * p) \div n \in 0..most
      BY <3>2, AverageIsBetween
    <3>4. AverageAt(v, n, 1, n, i, p) = (1 * v[i] + (n - 1) * p) \div n
      BY <2>1 DEF AverageAt
    <3> QED BY <3>3, <3>4
  <2>2. CASE ~(p # NA /\ v[i] # NA)
    BY <1>2, <2>2 DEF AverageAt
  <2> QED BY <2>1, <2>2
<1> DEFINE Good == {i \in 1..m : avg[i] \in 0..most \cup {NA}}
<1>4. ASSUME NEW i \in 1..m, \A j \in 1 .. i - 1 : j \in Good
      PROVE  i \in Good
  <2> PICK p : p = IF i = 1 THEN NA ELSE avg[i - 1]
    OBVIOUS
  <2>1. p \in 0..most \cup {NA}
    BY <1>4
  <2>2. avg[i] = AverageAt(v, n, 1, n, i, p)
    BY <1>1
  <2> QED BY <1>3, <2>1, <2>2
<1>5. \A i \in 1..m : i \in Good
  <2>1. m \in Nat
    OBVIOUS
  <2> HIDE DEF Good
  <2> QED BY <2>1, <1>4, CountingUp
<1> QED BY <1>5 DEF RMA

\* The largest of the first n numbers is one of them.
LEMMA LargestIs ==
    ASSUME NEW n \in Nat \ {0}, NEW v, \A j \in 1..n : v[j] \in Nat
    PROVE  /\ Max({v[j] : j \in 1..n}) \in Nat
           /\ \A j \in 1..n : v[j] <= Max({v[k] : k \in 1..n})
<1> DEFINE Good == {i \in 1..n : \E k \in 1..i : \A j \in 1..i : v[k] >= v[j]}
<1>1. ASSUME NEW i \in 1..n, \A j \in 1 .. i - 1 : j \in Good
      PROVE  i \in Good
  <2>1. CASE i = 1
    BY <2>1
  <2>2. CASE i # 1
    <3>1. i - 1 \in 1 .. i - 1 /\ i - 1 \in 1..n
      BY <2>2
    <3>2. PICK k \in 1 .. i - 1 : \A j \in 1 .. i - 1 : v[k] >= v[j]
      BY <1>1, <3>1
    <3>3. v[k] \in Nat /\ v[i] \in Nat
      BY <3>2
    <3>4. \A j \in 1..i : j = i \/ j \in 1 .. i - 1
      OBVIOUS
    <3>5. CASE v[k] >= v[i]
      BY <3>2, <3>4, <3>5
    <3>6. CASE ~(v[k] >= v[i])
      <4>1. \A j \in 1..i : v[i] >= v[j]
        BY <3>2, <3>3, <3>4, <3>6
      <4> QED BY <4>1
    <3> QED BY <3>5, <3>6
  <2> QED BY <2>1, <2>2
<1>2. \A i \in 1..n : i \in Good
  <2>1. n \in Nat
    OBVIOUS
  <2> HIDE DEF Good
  <2> QED BY <1>1, <2>1, CountingUp
<1> PICK S : S = {v[j] : j \in 1..n}
  OBVIOUS
<1>3. \E x \in S : \A y \in S : x >= y
  <2>1. n \in 1..n
    OBVIOUS
  <2>2. PICK k \in 1..n : \A j \in 1..n : v[k] >= v[j]
    BY <1>2, <2>1
  <2> QED BY <2>2
<1>4. Max(S) \in S /\ \A y \in S : Max(S) >= y
  BY <1>3 DEF Max
<1> QED BY <1>4

\* _trailing_stop: a stop is no further from its close than the loss distance.
LEMMA StopAtIsNear ==
    ASSUME NEW closes, NEW loss, NEW i \in Nat, NEW base \in Int,
           closes[i] \in Int, loss[i] \in Nat, loss[i] # NA,
           NEW s, s = StopAt(closes, loss, i, base)
    PROVE  s \in Int /\ Abs(closes[i] - s) <= loss[i]
<1> PICK l \in Nat : l = loss[i]
  OBVIOUS
<1> PICK c \in Int : c = closes[i]
  OBVIOUS
<1>1. c - l \in Int /\ c + l \in Int
  OBVIOUS
<1> PICK up : up = Max({base, c - l})
  OBVIOUS
<1> PICK down : down = Min({base, c + l})
  OBVIOUS
<1>2. /\ up \in Int /\ up >= c - l /\ (up = base \/ up = c - l)
      /\ down \in Int /\ down <= c + l /\ (down = base \/ down = c + l)
  BY <1>1, TwoAreOrdered
<1>3. \/ s = up /\ c > base
      \/ s = down /\ c < base
      \/ s = c - l
      \/ s = c + l
  BY DEF StopAt
<1> QED BY <1>2, <1>3 DEF Abs

\* _trailing_stop: which side of the close the stop is on, and where it was.
LEMMA StopAtSides ==
    ASSUME NEW closes, NEW loss, NEW i \in Nat, i > 1, NEW base \in Int,
           closes[i] \in Int, closes[i - 1] \in Int,
           loss[i] \in Nat \ {0}, loss[i] # NA
    PROVE  LET s == StopAt(closes, loss, i, base) IN
           /\ s \in Int /\ s # closes[i]
           /\ s < closes[i] /\ closes[i - 1] > base => s >= base
           /\ s > closes[i] /\ closes[i - 1] < base /\ closes[i] # base => s <= base
<1> PICK s : s = StopAt(closes, loss, i, base)
  OBVIOUS
<1> PICK l \in Nat \ {0} : l = loss[i]
  OBVIOUS
<1> PICK c \in Int : c = closes[i]
  OBVIOUS
<1> PICK b \in Int : b = closes[i - 1]
  OBVIOUS
<1>1. c - l \in Int /\ c + l \in Int
  OBVIOUS
<1> PICK up : up = Max({base, c - l})
  OBVIOUS
<1> PICK down : down = Min({base, c + l})
  OBVIOUS
<1>2. /\ up \in Int /\ up >= c - l /\ up >= base /\ (up = base \/ up = c - l)
      /\ down \in Int /\ down <= c + l /\ down <= base /\ (down = base \/ down = c + l)
  BY <1>1, TwoAreOrdered
<1>3. \/ s = up /\ c > base /\ b > base
      \/ s = down /\ c < base /\ b < base
      \/ s = c - l /\ c > base /\ ~(b > base)
      \/ s = c + l /\ ~(c > base) /\ ~(c < base /\ b < base)
  BY DEF StopAt
<1> QED BY <1>2, <1>3

\* The stops, one for every bar, each from its close, its loss and the last stop.
LEMMA StopsAre ==
    ASSUME NEW bars \in Bars, NEW cfg \in Settings
    PROVE  /\ Len(Stops(bars, cfg)) = Len(bars)
           /\ \A i \in 1..Len(bars) :
                 /\ Closes(bars)[i] \in Int /\ Closes(bars)[i] = bars[i].close
                 /\ Loss(bars, cfg)[i] \in Number
                 /\ BaseOf(Loss(bars, cfg), i, Stops(bars, cfg)[i - 1]) \in Int
                 /\ Stops(bars, cfg)[i]
                      = StopAt(Closes(bars), Loss(bars, cfg), i,
                               BaseOf(Loss(bars, cfg), i, Stops(bars, cfg)[i - 1]))
<1>1. Closes(bars) \in Seq(Int) /\ Len(Closes(bars)) = Len(bars)
      /\ \A i \in 1..Len(bars) : Closes(bars)[i] = bars[i].close
  BY ClosesAre
<1>2. Loss(bars, cfg) \in Seq(Number) /\ Len(Loss(bars, cfg)) = Len(bars)
  BY LossIs DEF Follows
<1>3. \A i \in 1..Len(bars) : Closes(bars)[i] \in Int /\ Loss(bars, cfg)[i] \in Number
  BY <1>1, <1>2
<1> QED BY <1>1, <1>2, <1>3, TrailingStopIs DEF Follows, Stops

\* The loss distance is at most ut_key times the largest true range so far.
LEMMA LossIsBetween ==
    ASSUME NEW bars \in Bars, NEW cfg \in Settings, NEW i \in 1..Len(bars),
           Loss(bars, cfg)[i] # NA
    PROVE  /\ Loss(bars, cfg)[i] \in Nat
           /\ Loss(bars, cfg)[i] <= cfg.key * Max({TrueRange(bars)[j] : j \in 1..i})
<1> PICK v : v = TrueRange(bars)
  OBVIOUS
<1> PICK key \in Nat : key = cfg.key
  BY DEF Settings
<1>1. /\ v \in Seq(Number) /\ Len(v) = Len(bars) /\ Len(bars) \in Nat
      /\ \A j \in 1..Len(bars) : v[j] \in Nat
  BY TrueRangeIs DEF Follows, Bars
<1>2. i \in Nat \ {0} /\ \A j \in 1..i : v[j] \in Nat
  BY <1>1
<1> PICK most : most = Max({v[j] : j \in 1..i})
  OBVIOUS
<1>3. most \in Nat /\ \A j \in 1..i : v[j] \in 0..most
  <2>1. most \in Nat /\ \A j \in 1..i : v[j] <= most
    BY <1>2, LargestIs
  <2> QED BY <1>2, <2>1
<1> PICK range : range = RMA(v, cfg.atr)[i]
  OBVIOUS
<1>4. range \in 0..most \cup {NA}
  <2>1. cfg.atr \in Nat \ {0}
    BY DEF Settings
  <2>2. i \in 1..Len(v) /\ i \in 1..i
    BY <1>1
  <2> QED BY <1>1, <1>3, <2>1, <2>2, RMAIsBetween
<1>5. Loss(bars, cfg)[i] = LossAt(bars, cfg, i)
  BY LossIs
<1>6. Loss(bars, cfg)[i] = key * range /\ range \in 0..most
  BY <1>4, <1>5 DEF LossAt
<1>7. range * key <= most * key /\ range * key \in Nat
  BY <1>6, <1>3, ProductMono
<1> QED BY <1>3, <1>6, <1>7

\* The stop is within ut_key times the largest true range so far.
LEMMA StopsAreNear ==
    ASSUME NEW bars \in Bars, NEW cfg \in Settings, NEW i \in 1..Len(bars),
           Stops(bars, cfg)[i] # NA
    PROVE  Abs(bars[i].close - Stops(bars, cfg)[i])
               <= cfg.key * Max({TrueRange(bars)[j] : j \in 1..i})
<1> PICK s : s = Stops(bars, cfg)[i]
  OBVIOUS
<1> PICK base \in Int : base = BaseOf(Loss(bars, cfg), i, Stops(bars, cfg)[i - 1])
  BY StopsAre
<1>1. /\ Closes(bars)[i] \in Int /\ Closes(bars)[i] = bars[i].close
      /\ s = StopAt(Closes(bars), Loss(bars, cfg), i, base)
  BY StopsAre
<1>2. Loss(bars, cfg)[i] # NA
  BY <1>1 DEF StopAt
<1> PICK near : near = cfg.key * Max({TrueRange(bars)[j] : j \in 1..i})
  OBVIOUS
<1>3. Loss(bars, cfg)[i] \in Nat /\ Loss(bars, cfg)[i] <= near
  BY <1>2, LossIsBetween
<1>4. near \in Int
  <2>1. \A j \in 1..Len(bars) : TrueRange(bars)[j] \in Nat
    BY TrueRangeIs
  <2>2. i \in Nat \ {0} /\ \A j \in 1..i : TrueRange(bars)[j] \in Nat
    BY <2>1, SMTT(30) DEF Bars
  <2>3. Max({TrueRange(bars)[j] : j \in 1..i}) \in Nat
    BY <2>2, LargestIs
  <2> QED BY <2>3 DEF Settings
<1>5. s \in Int /\ Abs(bars[i].close - s) <= Loss(bars, cfg)[i]
  <2>1. i \in Nat
    OBVIOUS
  <2> QED BY <1>1, <1>2, <1>3, <2>1, StopAtIsNear
<1>6. Abs(bars[i].close - s) \in Int
  <2>1. bars[i].close - s \in Int
    BY <1>1, <1>5
  <2> QED BY <2>1 DEF Abs
<1> QED BY <1>3, <1>4, <1>5, <1>6
------------------------------------------------------------------------------
(* From one signal to the next.                                              *)

\* The buys and sells of all bars.
Buys(bars, cfg)  == Crossover(Closes(bars), Stops(bars, cfg))
Sells(bars, cfg) == Crossunder(Closes(bars), Stops(bars, cfg))

\* The bars i to j all have a positive loss distance.
Moves(bars, cfg, i, j) == \A k \in i..j : Loss(bars, cfg)[k] # NA /\ Loss(bars, cfg)[k] > 0

\* One bar with a range, after a bar that has a loss distance.
LEMMA OneBar ==
    ASSUME NEW bars \in Bars, NEW cfg \in Settings, NEW k \in 1..Len(bars), k # 1,
           Loss(bars, cfg)[k] # NA, Loss(bars, cfg)[k] > 0, Loss(bars, cfg)[k - 1] # NA,
           NEW c, c = Closes(bars)[k], NEW b, b = Closes(bars)[k - 1],
           NEW s, s = Stops(bars, cfg)[k], NEW p, p = Stops(bars, cfg)[k - 1]
    PROVE  /\ c \in Int /\ b \in Int /\ s \in Int /\ p \in Int /\ s # c
           /\ s < c /\ b > p => s >= p
           /\ s > c /\ b < p /\ c # p => s <= p
           /\ Buys(bars, cfg)[k] <=> c > s /\ b <= p
           /\ Sells(bars, cfg)[k] <=> c < s /\ b >= p
<1>1. k - 1 \in 1..Len(bars) /\ k \in Nat /\ k - 1 \in Nat /\ k > 1
  BY DEF Bars
<1>2. c \in Int /\ b \in Int
  BY <1>1, StopsAre
<1>3. p \in Int
  <2> PICK base \in Int : base = BaseOf(Loss(bars, cfg), k - 1, Stops(bars, cfg)[(k - 1) - 1])
    BY <1>1, StopsAre
  <2>1. /\ Closes(bars)[k - 1] \in Int /\ Loss(bars, cfg)[k - 1] \in Number
        /\ p = StopAt(Closes(bars), Loss(bars, cfg), k - 1, base)
    BY <1>1, StopsAre
  <2> QED BY <1>1, <2>1, StopAtIs
<1>4. BaseOf(Loss(bars, cfg), k, Stops(bars, cfg)[k - 1]) = p
  BY <1>1 DEF BaseOf
<1>5. s = StopAt(Closes(bars), Loss(bars, cfg), k, p)
  BY <1>4, StopsAre
<1>6. Loss(bars, cfg)[k] \in Nat \ {0}
  <2>1. Loss(bars, cfg)[k] \in Nat
    BY LossIsBetween
  <2> QED BY <2>1
<1>7. /\ s \in Int /\ s # c
      /\ s < c /\ b > p => s >= p
      /\ s > c /\ b < p /\ c # p => s <= p
  <2> PICK closes : closes = Closes(bars)
    OBVIOUS
  <2> PICK loss : loss = Loss(bars, cfg)
    OBVIOUS
  <2>1. /\ closes[k] \in Int /\ closes[k - 1] \in Int
        /\ loss[k] \in Nat \ {0} /\ loss[k] # NA /\ s = StopAt(closes, loss, k, p)
    BY <1>2, <1>5, <1>6
  <2>2. /\ s \in Int /\ s # closes[k]
        /\ s < closes[k] /\ closes[k - 1] > p => s >= p
        /\ s > closes[k] /\ closes[k - 1] < p /\ closes[k] # p => s <= p
    BY <1>1, <1>3, <2>1, StopAtSides
  <2> QED BY <2>2
<1>8. NA \notin {c, s, b, p}
  BY <1>2, <1>3, <1>7, StrategyAssumption
<1>9. Len(Closes(bars)) = Len(bars) /\ Closes(bars) \in Seq(Int)
  BY ClosesAre
<1>10. Buys(bars, cfg)[k] = CrossoverAt(Closes(bars), Stops(bars, cfg), k)
  BY <1>9, CrossingsAre DEF Buys
<1>11. Sells(bars, cfg)[k] = CrossunderAt(Closes(bars), Stops(bars, cfg), k)
  BY <1>9, CrossingsAre DEF Sells
<1>12. Known(Closes(bars), Stops(bars, cfg), k)
  BY <1>1, <1>8 DEF Known
<1>13. Buys(bars, cfg)[k] <=> c > s /\ b <= p
  BY <1>10, <1>12 DEF CrossoverAt
<1>14. Sells(bars, cfg)[k] <=> c < s /\ b >= p
  BY <1>11, <1>12 DEF CrossunderAt
<1> QED BY <1>2, <1>3, <1>7, <1>13, <1>14

\* A buy leaves the stop below the close, a sell above it.
LEMMA CrossingSides ==
    ASSUME NEW bars \in Bars, NEW cfg \in Settings, NEW i \in 1..Len(bars)
    PROVE  /\ Buys(bars, cfg)[i] => Closes(bars)[i] > Stops(bars, cfg)[i]
           /\ Sells(bars, cfg)[i] => Closes(bars)[i] < Stops(bars, cfg)[i]
<1>1. Len(Closes(bars)) = Len(bars) /\ Closes(bars) \in Seq(Int)
  BY ClosesAre
<1>2. Buys(bars, cfg)[i] = CrossoverAt(Closes(bars), Stops(bars, cfg), i)
  BY <1>1, CrossingsAre DEF Buys
<1>3. Sells(bars, cfg)[i] = CrossunderAt(Closes(bars), Stops(bars, cfg), i)
  BY <1>1, CrossingsAre DEF Sells
<1> QED BY <1>2, <1>3 DEF CrossoverAt, CrossunderAt

\* With the stop below the close and no sell, it stays below and never falls.
LEMMA LongRide ==
    ASSUME NEW bars \in Bars, NEW cfg \in Settings, NEW i \in 1..Len(bars),
           NEW j \in 1..Len(bars), Moves(bars, cfg, i, j),
           Closes(bars)[i] > Stops(bars, cfg)[i], Stops(bars, cfg)[i] \in Int,
           \A k \in i + 1 .. j : ~Sells(bars, cfg)[k]
    PROVE  \A k \in i..j : /\ Closes(bars)[k] > Stops(bars, cfg)[k]
                           /\ Stops(bars, cfg)[k] >= Stops(bars, cfg)[i]
<1> PICK stop : stop = Stops(bars, cfg)
  OBVIOUS
<1> PICK closes : closes = Closes(bars)
  OBVIOUS
<1> DEFINE Good == {k \in 1..j : k >= i => /\ closes[k] > stop[k] /\ stop[k] >= stop[i]
                                           /\ stop[k] \in Int}
<1>1. ASSUME NEW k \in 1..j, \A m \in 1 .. k - 1 : m \in Good
      PROVE  k \in Good
  <2>1. CASE k < i
    BY <2>1
  <2>2. CASE k = i
    BY <2>2
  <2>3. CASE k > i
    <3>1. /\ k \in 1..Len(bars) /\ k # 1 /\ k \in i..j /\ k - 1 \in i..j
          /\ k \in i + 1 .. j /\ k - 1 \in 1 .. k - 1 /\ k - 1 >= i
      BY <2>3
    <3>2. /\ Loss(bars, cfg)[k] # NA /\ Loss(bars, cfg)[k] > 0
          /\ Loss(bars, cfg)[k - 1] # NA
      BY <3>1 DEF Moves
    <3>3. closes[k - 1] > stop[k - 1] /\ stop[k - 1] >= stop[i]
      BY <1>1, <3>1
    <3>4. ~Sells(bars, cfg)[k]
      BY <3>1
    <3>5. /\ closes[k] \in Int /\ closes[k - 1] \in Int /\ stop[k] \in Int /\ stop[k - 1] \in Int
          /\ stop[k] # closes[k]
          /\ stop[k] < closes[k] /\ closes[k - 1] > stop[k - 1] => stop[k] >= stop[k - 1]
          /\ Sells(bars, cfg)[k] <=> closes[k] < stop[k] /\ closes[k - 1] >= stop[k - 1]
      BY <3>1, <3>2, OneBar
    <3>6. closes[k] > stop[k] /\ stop[k] >= stop[k - 1]
      BY <3>3, <3>4, <3>5
    <3> QED BY <3>3, <3>5, <3>6
  <2> QED BY <2>1, <2>2, <2>3
<1>2. \A k \in 1..j : k \in Good
  <2>1. j \in Nat
    BY DEF Bars
  <2> HIDE DEF Good
  <2> QED BY <1>1, <2>1, CountingUp
<1> QED BY <1>2

\* With the stop above the close and no buy, it stays above; and it never rises
\* unless a close meets it.
LEMMA ShortRide ==
    ASSUME NEW bars \in Bars, NEW cfg \in Settings, NEW i \in 1..Len(bars),
           NEW j \in 1..Len(bars), Moves(bars, cfg, i, j),
           Closes(bars)[i] < Stops(bars, cfg)[i], Stops(bars, cfg)[i] \in Int,
           \A k \in i + 1 .. j : ~Buys(bars, cfg)[k]
    PROVE  /\ \A k \in i..j : Closes(bars)[k] < Stops(bars, cfg)[k]
           /\ (\A k \in i + 1 .. j : Closes(bars)[k] # Stops(bars, cfg)[k - 1])
                 => \A k \in i..j : Stops(bars, cfg)[k] <= Stops(bars, cfg)[i]
<1> PICK stop : stop = Stops(bars, cfg)
  OBVIOUS
<1> PICK closes : closes = Closes(bars)
  OBVIOUS
<1> DEFINE Apart == \A k \in i + 1 .. j : closes[k] # stop[k - 1]
<1> DEFINE Good == {k \in 1..j : k >= i => /\ closes[k] < stop[k] /\ stop[k] \in Int
                                           /\ Apart => stop[k] <= stop[i]}
<1>1. ASSUME NEW k \in 1..j, \A m \in 1 .. k - 1 : m \in Good
      PROVE  k \in Good
  <2>1. CASE k < i
    BY <2>1
  <2>2. CASE k = i
    BY <2>2
  <2>3. CASE k > i
    <3>1. /\ k \in 1..Len(bars) /\ k # 1 /\ k \in i..j /\ k - 1 \in i..j
          /\ k \in i + 1 .. j /\ k - 1 \in 1 .. k - 1 /\ k - 1 >= i
      BY <2>3
    <3>2. /\ Loss(bars, cfg)[k] # NA /\ Loss(bars, cfg)[k] > 0
          /\ Loss(bars, cfg)[k - 1] # NA
      BY <3>1 DEF Moves
    <3>3. closes[k - 1] < stop[k - 1] /\ (Apart => stop[k - 1] <= stop[i])
      BY <1>1, <3>1
    <3>4. ~Buys(bars, cfg)[k]
      BY <3>1
    <3>5. /\ closes[k] \in Int /\ closes[k - 1] \in Int /\ stop[k] \in Int /\ stop[k - 1] \in Int
          /\ stop[k] # closes[k]
          /\ stop[k] > closes[k] /\ closes[k - 1] < stop[k - 1] /\ closes[k] # stop[k - 1]
                => stop[k] <= stop[k - 1]
          /\ Buys(bars, cfg)[k] <=> closes[k] > stop[k] /\ closes[k - 1] <= stop[k - 1]
      BY <3>1, <3>2, OneBar
    <3>6. closes[k] < stop[k]
      BY <3>3, <3>4, <3>5
    <3>7. Apart => stop[k] <= stop[k - 1]
      BY <3>1, <3>3, <3>5, <3>6
    <3> HIDE DEF Apart
    <3> QED BY <3>3, <3>5, <3>6, <3>7
  <2> QED BY <2>1, <2>2, <2>3
<1>2. \A k \in 1..j : k \in Good
  <2>1. j \in Nat
    BY DEF Bars
  <2> HIDE DEF Good
  <2> QED BY <1>1, <2>1, CountingUp
<1> QED BY <1>2
------------------------------------------------------------------------------
(* The calls.                                                                *)

\* What a call was answered is what size_entry or compute_signals gives for it.
Answered ==
    /\ call \in Sizings \cup Signalings
    /\ Sized =>
         /\ call \in Sizings
         /\ answer.out  = SizeEntry(call.cfg, call.spec, call.distance, call.equity)
         /\ answer.wide = SizeEntry(call.cfg, call.spec, call.wider, call.equity)
    /\ Signaled =>
         /\ call \in Signalings
         /\ answer.out = ComputeSignals(call.bars, call.cfg)

\* SizeBoth and Signal answer what they were asked, and neither is taken for the other.
THEOREM AnswersFitCalls == Spec => []Answered
<1>1. Init => Answered
  BY DEF Init, Answered, Sized, Signaled, Nothing
<1>2. Answered /\ [Next]_<<call, answer>> => Answered'
  <2> SUFFICES ASSUME Answered, [Next]_<<call, answer>>
               PROVE  Answered'
    OBVIOUS
  <2>1. CASE SizeBoth
    <3>1. call \in Sizings
      BY <2>1, StrategyAssumption DEF SizeBoth, Answered
    <3> QED BY <2>1, <3>1 DEF SizeBoth, Answered, Sized, Signaled
  <2>2. CASE Signal
    <3>1. call \in Signalings
      BY <2>2, StrategyAssumption DEF Signal, Answered
    <3> QED BY <2>2, <3>1 DEF Signal, Answered, Sized, Signaled
  <2>3. CASE UNCHANGED <<call, answer>>
    BY <2>3 DEF Answered, Sized, Signaled
  <2> QED BY <2>1, <2>2, <2>3 DEF Next
<1> QED BY <1>1, <1>2, PTL DEF Spec

\* size_entry: a RISK_PERCENT entry that was not put to the user never risks more
\* than its share of the equity, for all valid settings, symbols and equities.
THEOREM WithinBudgetHolds == Spec => []WithinBudget
<1>1. Answered => WithinBudget
  <2> SUFFICES ASSUME Answered, Sized, call.cfg.mode = "RISK_PERCENT", ~answer.out.confirm
               PROVE  answer.out.lots * RiskPerLot(call.cfg, call.spec, call.distance)
                          <= Budget(call.cfg, call.equity)
    BY DEF WithinBudget
  <2>1. call \in Sizings /\ answer.out = SizeEntry(call.cfg, call.spec, call.distance, call.equity)
    BY DEF Answered
  <2>2. /\ Valid(call.cfg) /\ call.spec \in Specs
        /\ call.equity \in Int /\ call.distance \in Int
    BY <2>1, StrategyAssumption
  <2> QED BY <2>1, <2>2, SizeWithinBudget
<1> QED BY <1>1, AnswersFitCalls, PTL

\* _finalise: every volume is tradable and within the caps, for all valid
\* settings, symbols, equities and distances.
THEOREM TradableHolds == Spec => []Tradable
<1>1. Answered => Tradable
  <2> SUFFICES ASSUME Answered, Sized, answer.out.lots # 0
               PROVE  /\ answer.out.lots % call.spec.step = 0
                      /\ answer.out.lots >= call.spec.min
                      /\ call.spec.min <= call.cfg.max => answer.out.lots <= call.cfg.max
    BY DEF Tradable
  <2>1. call \in Sizings /\ answer.out = SizeEntry(call.cfg, call.spec, call.distance, call.equity)
    BY DEF Answered
  <2>2. /\ Valid(call.cfg) /\ call.spec \in Specs
        /\ call.equity \in Int /\ call.distance \in Int
    BY <2>1, StrategyAssumption
  <2> QED BY <2>1, <2>2, SizeTradable
<1> QED BY <1>1, AnswersFitCalls, PTL

\* size_entry: of two stops the wider one gets no more lots, for all valid
\* settings and symbols whose floor is below both caps.
THEOREM MonotoneHolds == Spec => []Monotone
<1>1. Answered => Monotone
  <2> SUFFICES ASSUME Answered, Sized,
                      FloorLots(call.cfg, call.spec) <= Least(call.cfg.max, call.spec.max),
                      0 < call.distance, call.distance <= call.wider
               PROVE  answer.wide.lots <= answer.out.lots
    BY DEF Monotone
  <2>1. /\ call \in Sizings
        /\ answer.out  = SizeEntry(call.cfg, call.spec, call.distance, call.equity)
        /\ answer.wide = SizeEntry(call.cfg, call.spec, call.wider, call.equity)
    BY DEF Answered
  <2>2. /\ Valid(call.cfg) /\ call.spec \in Specs /\ call.equity \in Int
        /\ call.distance \in Int /\ call.wider \in Int
    BY <2>1, StrategyAssumption
  <2> QED BY <2>1, <2>2, SizeMonotone
<1> QED BY <1>1, AnswersFitCalls, PTL

\* What the answer to a call of compute_signals says of each bar.
LEMMA SignaledBars ==
    ASSUME Answered, Signaled
    PROVE  /\ call.bars \in Bars /\ call.cfg \in Settings
           /\ DOMAIN call.bars = 1..Len(call.bars)
           /\ answer.out = ComputeSignals(call.bars, call.cfg)
           /\ \A i \in 1..Len(call.bars) :
                 /\ answer.out[i].buy  = Buys(call.bars, call.cfg)[i]
                 /\ answer.out[i].sell = Sells(call.bars, call.cfg)[i]
                 /\ answer.out[i].stop = Stops(call.bars, call.cfg)[i]
<1>1. call \in Signalings /\ answer.out = ComputeSignals(call.bars, call.cfg)
  BY DEF Answered
<1>2. call.bars \in Bars /\ call.cfg \in Settings
  BY <1>1, StrategyAssumption DEF Bars
<1>3. DOMAIN call.bars = 1..Len(call.bars)
  BY <1>2 DEF Bars
<1>4. \A i \in 1..Len(call.bars) : answer.out[i] = SaysOf(call.bars, call.cfg, i)
  BY <1>1, <1>2, SignalsAre
<1>5. \A i \in 1..Len(call.bars) :
         /\ SaysOf(call.bars, call.cfg, i).buy  = Buys(call.bars, call.cfg)[i]
         /\ SaysOf(call.bars, call.cfg, i).sell = Sells(call.bars, call.cfg)[i]
         /\ SaysOf(call.bars, call.cfg, i).stop = Stops(call.bars, call.cfg)[i]
  BY DEF SaysOf, Buys, Sells
<1> QED BY <1>1, <1>2, <1>3, <1>4, <1>5

\* compute_signals never repaints, for all settings and all series: what it says of
\* a bar, the hull's colour included, is what it said when that bar was the last.
THEOREM NoRepaintHolds == Spec => []NoRepaint
<1>1. Answered => NoRepaint
  <2> SUFFICES ASSUME Answered, Signaled, NEW n \in DOMAIN call.bars
               PROVE  ComputeSignals(SubSeq(call.bars, 1, n), call.cfg)
                          = SubSeq(answer.out, 1, n)
    BY DEF NoRepaint
  <2>1. n \in 1..Len(call.bars)
    BY SignaledBars
  <2> QED BY <2>1, SignaledBars, SignalsNeverRepaint
<1> QED BY <1>1, AnswersFitCalls, PTL

\* A signal's bar has a stop that is a number, on the signal's side of the close.
LEMMA RideBegins ==
    ASSUME NEW bars \in Bars, NEW cfg \in Settings, NEW i \in 1..Len(bars),
           NEW j \in 1..Len(bars), i < j, Moves(bars, cfg, i, j)
    PROVE  Stops(bars, cfg)[i] \in Int
<1>1. i \in i..j /\ i \in Nat
  BY DEF Bars
<1>2. Loss(bars, cfg)[i] # NA
  BY <1>1 DEF Moves
<1> PICK base \in Int : base = BaseOf(Loss(bars, cfg), i, Stops(bars, cfg)[i - 1])
  BY StopsAre
<1>3. /\ Closes(bars)[i] \in Int /\ Loss(bars, cfg)[i] \in Number
      /\ Stops(bars, cfg)[i] = StopAt(Closes(bars), Loss(bars, cfg), i, base)
  BY StopsAre
<1> QED BY <1>1, <1>2, <1>3, StopAtIs

\* Between two buys there is a sell, and between two sells a buy.
LEMMA SignalsAlternate ==
    ASSUME NEW bars \in Bars, NEW cfg \in Settings, NEW i \in 1..Len(bars),
           NEW j \in 1..Len(bars), i < j, Moves(bars, cfg, i, j)
    PROVE  /\ Buys(bars, cfg)[i] /\ Buys(bars, cfg)[j] => \E k \in i..j : Sells(bars, cfg)[k]
           /\ Sells(bars, cfg)[i] /\ Sells(bars, cfg)[j] => \E k \in i..j : Buys(bars, cfg)[k]
<1>1. /\ j # 1 /\ j \in i..j /\ j - 1 \in i..j
      /\ \A k \in i + 1 .. j : k \in i..j
  OBVIOUS
<1>2. Loss(bars, cfg)[j] # NA /\ Loss(bars, cfg)[j] > 0 /\ Loss(bars, cfg)[j - 1] # NA
  BY <1>1 DEF Moves
<1>3. Stops(bars, cfg)[i] \in Int
  BY RideBegins
<1>4. /\ Buys(bars, cfg)[j] => Closes(bars)[j - 1] <= Stops(bars, cfg)[j - 1]
      /\ Sells(bars, cfg)[j] => Closes(bars)[j - 1] >= Stops(bars, cfg)[j - 1]
      /\ Closes(bars)[j - 1] \in Int /\ Stops(bars, cfg)[j - 1] \in Int
  BY <1>1, <1>2, OneBar
<1>5. ASSUME Buys(bars, cfg)[i], Buys(bars, cfg)[j], \A k \in i..j : ~Sells(bars, cfg)[k]
      PROVE  FALSE
  <2>1. Closes(bars)[i] > Stops(bars, cfg)[i]
    BY <1>5, CrossingSides
  <2>2. \A k \in i + 1 .. j : ~Sells(bars, cfg)[k]
    BY <1>1, <1>5
  <2>3. \A k \in i..j : Closes(bars)[k] > Stops(bars, cfg)[k]
    BY <1>3, <2>1, <2>2, LongRide
  <2> QED BY <1>1, <1>4, <1>5, <2>3
<1>6. ASSUME Sells(bars, cfg)[i], Sells(bars, cfg)[j], \A k \in i..j : ~Buys(bars, cfg)[k]
      PROVE  FALSE
  <2>1. Closes(bars)[i] < Stops(bars, cfg)[i]
    BY <1>6, CrossingSides
  <2>2. \A k \in i + 1 .. j : ~Buys(bars, cfg)[k]
    BY <1>1, <1>6
  <2>3. \A k \in i..j : Closes(bars)[k] < Stops(bars, cfg)[k]
    BY <1>3, <2>1, <2>2, ShortRide
  <2> QED BY <1>1, <1>4, <1>6, <2>3
<1> QED BY <1>5, <1>6

\* Buys and sells alternate wherever the bars between have a range, for all
\* settings and all series.
THEOREM SidesAlternateHolds == Spec => []SidesAlternate
<1>1. Answered => SidesAlternate
  <2> SUFFICES ASSUME Answered, Signaled,
                      NEW i \in DOMAIN call.bars, NEW j \in DOMAIN call.bars,
                      i < j, Moving(i, j)
               PROVE  /\ answer.out[i].buy /\ answer.out[j].buy
                            => \E k \in i..j : answer.out[k].sell
                      /\ answer.out[i].sell /\ answer.out[j].sell
                            => \E k \in i..j : answer.out[k].buy
    BY DEF SidesAlternate
  <2>1. /\ i \in 1..Len(call.bars) /\ j \in 1..Len(call.bars)
        /\ call.bars \in Bars /\ call.cfg \in Settings
    BY SignaledBars
  <2>2. Moves(call.bars, call.cfg, i, j)
    BY DEF Moving, Moves
  <2>3. \A k \in i..j : k \in 1..Len(call.bars)
    BY <2>1
  <2>4. \A k \in i..j : /\ answer.out[k].buy  = Buys(call.bars, call.cfg)[k]
                        /\ answer.out[k].sell = Sells(call.bars, call.cfg)[k]
    BY <2>3, SignaledBars
  <2>5. i \in i..j /\ j \in i..j
    BY <2>1
  <2>6. /\ Buys(call.bars, call.cfg)[i] /\ Buys(call.bars, call.cfg)[j]
             => \E k \in i..j : Sells(call.bars, call.cfg)[k]
        /\ Sells(call.bars, call.cfg)[i] /\ Sells(call.bars, call.cfg)[j]
             => \E k \in i..j : Buys(call.bars, call.cfg)[k]
    BY <2>1, <2>2, SignalsAlternate
  <2> QED BY <2>4, <2>5, <2>6
<1> QED BY <1>1, AnswersFitCalls, PTL

\* _trailing_stop: on a ride the stop only follows the price, for all settings and
\* all series.
THEOREM RideRatchetsHolds == Spec => []RideRatchets
<1>1. Answered => RideRatchets
  <2> SUFFICES ASSUME Answered, Signaled,
                      NEW i \in DOMAIN call.bars, NEW j \in DOMAIN call.bars,
                      i < j, Moving(i, j)
               PROVE  /\ answer.out[i].buy /\ (\A k \in i..j : ~answer.out[k].sell)
                            => answer.out[j].stop >= answer.out[i].stop
                      /\ answer.out[i].sell
                         /\ (\A k \in i + 1 .. j :
                                ~answer.out[k].buy
                                /\ call.bars[k].close # answer.out[k - 1].stop)
                            => answer.out[j].stop <= answer.out[i].stop
    BY DEF RideRatchets
  <2> PICK bars \in Bars : bars = call.bars
    BY SignaledBars
  <2> PICK cfg \in Settings : cfg = call.cfg
    BY SignaledBars
  <2>1. i \in 1..Len(bars) /\ j \in 1..Len(bars) /\ i \in i..j /\ j \in i..j
    BY SignaledBars
  <2>2. Moves(bars, cfg, i, j)
    BY DEF Moving, Moves
  <2>3. \A k \in i..j : k \in 1..Len(bars)
    BY <2>1
  <2>4. \A k \in i..j : /\ answer.out[k].buy  = Buys(bars, cfg)[k]
                        /\ answer.out[k].sell = Sells(bars, cfg)[k]
                        /\ answer.out[k].stop = Stops(bars, cfg)[k]
    BY <2>3, SignaledBars
  <2>5. \A k \in i + 1 .. j : k \in i..j /\ k - 1 \in i..j
    BY <2>1
  <2>6. Stops(bars, cfg)[i] \in Int
    BY <2>1, <2>2, RideBegins
  <2>7. ASSUME answer.out[i].buy, \A k \in i..j : ~answer.out[k].sell
        PROVE  answer.out[j].stop >= answer.out[i].stop
    <3>1. Closes(bars)[i] > Stops(bars, cfg)[i]
      BY <2>1, <2>4, <2>7, CrossingSides
    <3>2. \A k \in i + 1 .. j : ~Sells(bars, cfg)[k]
      BY <2>4, <2>5, <2>7
    <3>3. Stops(bars, cfg)[j] >= Stops(bars, cfg)[i]
      BY <2>1, <2>2, <2>6, <3>1, <3>2, LongRide
    <3> QED BY <2>1, <2>4, <3>3
  <2>8. ASSUME answer.out[i].sell,
               \A k \in i + 1 .. j : /\ ~answer.out[k].buy
                                     /\ call.bars[k].close # answer.out[k - 1].stop
        PROVE  answer.out[j].stop <= answer.out[i].stop
    <3>1. Closes(bars)[i] < Stops(bars, cfg)[i]
      BY <2>1, <2>4, <2>8, CrossingSides
    <3>2. \A k \in i + 1 .. j : ~Buys(bars, cfg)[k]
      BY <2>4, <2>5, <2>8
    <3>3. \A k \in i + 1 .. j : Closes(bars)[k] # Stops(bars, cfg)[k - 1]
      <4>1. \A k \in i + 1 .. j : Closes(bars)[k] = bars[k].close
        BY <2>3, <2>5, ClosesAre
      <4> QED BY <2>4, <2>5, <2>8, <4>1
    <3>4. Stops(bars, cfg)[j] <= Stops(bars, cfg)[i]
      BY <2>1, <2>2, <2>6, <3>1, <3>2, <3>3, ShortRide
    <3> QED BY <2>1, <2>4, <3>4
  <2> QED BY <2>7, <2>8
<1> QED BY <1>1, AnswersFitCalls, PTL

\* _trailing_stop: the stop is never further from the close than ut_key times the
\* largest true range so far, for all settings and all series.
THEOREM StopIsNearHolds == Spec => []StopIsNear
<1>1. Answered => StopIsNear
  <2> SUFFICES ASSUME Answered, Signaled, NEW i \in DOMAIN call.bars,
                      answer.out[i].stop # NA
               PROVE  Abs(call.bars[i].close - answer.out[i].stop)
                          <= call.cfg.key * Max({TrueRange(call.bars)[j] : j \in 1..i})
    BY DEF StopIsNear
  <2>1. /\ i \in 1..Len(call.bars) /\ call.bars \in Bars /\ call.cfg \in Settings
        /\ answer.out[i].stop = Stops(call.bars, call.cfg)[i]
    BY SignaledBars
  <2> QED BY <2>1, StopsAreNear
<1> QED BY <1>1, AnswersFitCalls, PTL
==============================================================================
