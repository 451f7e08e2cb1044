---------------------------- MODULE BacktestProofs ----------------------------
(***************************************************************************)
(* The books of run_backtest against the trade manager, for all bars,      *)
(* signals, settings and symbols.                                          *)
(***************************************************************************)
EXTENDS Backtest, FiniteSetTheorems, SequenceTheorems, WellFoundedInduction, TLAPS

------------------------------------------------------------------------------
(* Induction over the numbers up to n, in set form.                          *)

\* A non-empty set of numbers has a least one.
LEMMA LeastNumber ==
    ASSUME NEW T, T \subseteq Nat, T # {}
    PROVE  \E m \in T : \A n \in T : m <= n
<1> DEFINE R == StrictSubsetOrdering(Nat)
           U == {0..n : n \in T}
<1>1. U # {} /\ U \subseteq FiniteSubsetsOf(Nat)
  <2>1. ASSUME NEW n \in T
        PROVE  0..n \in FiniteSubsetsOf(Nat)
    <3>1. IsFiniteSet(0..n) /\ 0..n \subseteq Nat
      BY FS_Interval
    <3> QED BY <3>1 DEF FiniteSubsetsOf
  <2> QED BY <2>1
<1>2. IsWellFoundedOn(R, FiniteSubsetsOf(Nat))
  BY FS_StrictSubsetOrderingWellFounded
<1>3. PICK x \in U : \A y \in U : <<y, x>> \notin R
  <2> HIDE DEF R, U
  <2> QED BY <1>1, <1>2, WFMin
<1>4. PICK m \in T : x = 0..m
  BY <1>3
<1>5. ASSUME NEW n \in T, ~(m <= n)
      PROVE  FALSE
  <2>1. 0..n \in U /\ 0..n \subseteq 0..m /\ 0..n # 0..m /\ 0..n \subseteq Nat /\ 0..m \subseteq Nat
    BY <1>5
  <2>2. <<0..n, 0..m>> \in R
    BY <2>1 DEF StrictSubsetOrdering
  <2> QED BY <1>3, <1>4, <2>1, <2>2
<1> QED BY <1>5

\* What holds of 0, and of k when it holds of k - 1, holds up to n.
LEMMA StepByStep ==
    ASSUME NEW n \in Nat, NEW Good, 0 \in Good,
           \A k \in 1..n : k - 1 \in Good => k \in Good
    PROVE  \A k \in 0..n : k \in Good
<1> DEFINE Bad == {k \in 0..n : k \notin Good}
<1>1. ASSUME Bad # {} PROVE FALSE
  <2>1. PICK k \in Bad : \A j \in Bad : k <= j
    <3>1. Bad \subseteq Nat
      OBVIOUS
    <3> HIDE DEF Bad
    <3> QED BY <1>1, <3>1, LeastNumber
  <2>2. k \in 1..n /\ k - 1 \in 0..n /\ k - 1 < k
    BY <2>1
  <2>3. k - 1 \in Good
    BY <2>1, <2>2
  <2> QED BY <2>1, <2>2, <2>3
<1> QED BY <1>1
------------------------------------------------------------------------------
(* The two folds over actions.  A chain gives the value after each action.   *)

\* The largest number of a set.
LEMMA MaxIs ==
    ASSUME NEW s, s \subseteq Int, NEW k \in s, \A y \in s : y <= k
    PROVE  Max(s) = k
<1> DEFINE Top(x) == x \in s /\ \A y \in s : x >= y
<1>1. Top(k)
  OBVIOUS
<1>2. \A x : Top(x) => x = k
  OBVIOUS
<1>3. Max(s) = CHOOSE x : Top(x)
  BY Zenon DEF Max
<1> HIDE DEF Top
<1> QED BY <1>1, <1>2, <1>3, Zenon

RegisterChain(f, at, actions, tr, i) ==
    /\ f = [k \in 0..Len(actions) |-> f[k]]
    /\ f[0] = at
    /\ \A k \in 1..Len(actions) : f[k] = Register(f[k - 1], actions[k], tr, i)

\* f is such a chain, and ends in what RegisterBrackets says.
RegisterRun(f, at, actions, tr, i) ==
    /\ RegisterChain(f, at, actions, tr, i)
    /\ RegisterBrackets(at, Decision(tr, actions), i) = f[Len(actions)]

\* The loop of _register_brackets runs along a chain.
LEMMA RegisterFold ==
    ASSUME NEW A, NEW at, NEW tr, NEW i, NEW actions \in Seq(A)
    PROVE  \E f : RegisterRun(f, at, actions, tr, i)
<1> PICK n \in Nat : n = Len(actions)
  OBVIOUS
<1> DEFINE Fits(I, k) ==
             I = [s \in SUBSET (1..k) |->
                     IF s = {} THEN at
                     ELSE Register(I[s \ {Max(s)}], actions[Max(s)], tr, i)]
           Good == {k \in 0..n : \E I : Fits(I, k)}
<1>1. 0 \in Good
  <2>1. Fits([s \in SUBSET (1..0) |-> at], 0)
    OBVIOUS
  <2> HIDE DEF Fits
  <2> QED BY <2>1
<1>2. ASSUME NEW k \in 1..n, k - 1 \in Good
      PROVE  k \in Good
  <2>1. PICK I : Fits(I, k - 1)
    <3> HIDE DEF Fits
    <3> QED BY <1>2
  <2>2. PICK J : J = [s \in SUBSET (1..k) |->
                        IF k \in s THEN Register(I[s \ {k}], actions[k], tr, i) ELSE I[s]]
    OBVIOUS
  <2>3. ASSUME NEW s \in SUBSET (1..k)
        PROVE  J[s] = IF s = {} THEN at
                      ELSE Register(J[s \ {Max(s)}], actions[Max(s)], tr, i)
    <3>1. CASE k \in s
      <4>1. Max(s) = k
        <5>1. s \subseteq Int /\ \A y \in s : y <= k
          OBVIOUS
        <5> QED BY <3>1, <5>1, MaxIs
      <4>2. s \ {k} \in SUBSET (1..k) /\ k \notin s \ {k}
        OBVIOUS
      <4>3. J[s] = Register(I[s \ {k}], actions[k], tr, i)
        BY <2>2, <3>1, Zenon
      <4>4. J[s \ {k}] = I[s \ {k}]
        BY <2>2, <4>2, Zenon
      <4> QED BY <3>1, <4>1, <4>3, <4>4, Zenon
    <3>2. CASE k \notin s
      <4>1. s \in SUBSET (1 .. k - 1)
        BY <3>2
      <4>2. J[s] = I[s]
        BY <2>2, <3>2, Zenon
      <4>3. s \ {Max(s)} \in SUBSET (1..k) /\ k \notin s \ {Max(s)}
        BY <3>2
      <4>4. J[s \ {Max(s)}] = I[s \ {Max(s)}]
        BY <2>2, <4>3, Zenon
      <4>5. I[s] = IF s = {} THEN at
                   ELSE Register(I[s \ {Max(s)}], actions[Max(s)], tr, i)
        BY <2>1, <4>1, Zenon
      <4> QED BY <4>2, <4>4, <4>5, Zenon
    <3> QED BY <3>1, <3>2
  <2>4. J = [s \in SUBSET (1..k) |-> J[s]]
    BY <2>2
  <2>5. Fits(J, k)
    BY <2>3, <2>4, Zenon
  <2> HIDE DEF Fits
  <2> QED BY <2>5
<1>3. \E I : Fits(I, n)
  <2> HIDE DEF Fits
  <2>1. \A k \in 0..n : k \in Good
    <3> HIDE DEF Good
    <3> QED BY <1>1, <1>2, StepByStep
  <2> QED BY <2>1
<1> DEFINE iter == CHOOSE I : Fits(I, n)
<1>4. Fits(iter, n)
  <2> HIDE DEF Fits
  <2> QED BY <1>3
<1>5. RegisterBrackets(at, Decision(tr, actions), i) = iter[1..n]
  <2>1. DOMAIN actions = 1..n
    OBVIOUS
  <2> QED BY <2>1, Zenon DEF RegisterBrackets, FoldLeft, MapThenFoldSet, Decision
<1> HIDE DEF iter
<1>6. PICK I : I = iter
  OBVIOUS
<1>7. PICK f : f = [k \in 0..n |-> I[1..k]]
  OBVIOUS
<1>8. f[0] = at
  <2>1. 1..0 = {} /\ {} \in SUBSET (1..n)
    OBVIOUS
  <2>2. I[{}] = at
    BY <1>4, <1>6, <2>1, Zenon
  <2> QED BY <1>7, <2>1, <2>2
<1>9. ASSUME NEW k \in 1..n
      PROVE  f[k] = Register(f[k - 1], actions[k], tr, i)
  <2>1. Max(1..k) = k
    <3>1. 1..k \subseteq Int /\ k \in 1..k /\ \A y \in 1..k : y <= k
      OBVIOUS
    <3> QED BY <3>1, MaxIs
  <2>2. (1..k) \ {k} = 1 .. k - 1 /\ 1..k \in SUBSET (1..n) /\ 1..k # {}
    <3>1. \A x : x \in (1..k) \ {k} <=> x \in 1 .. k - 1
      OBVIOUS
    <3>2. 1..k \subseteq 1..n /\ k \in 1..k
      OBVIOUS
    <3> QED BY <3>1, <3>2
  <2>3. I[1..k] = Register(I[(1..k) \ {Max(1..k)}], actions[Max(1..k)], tr, i)
    BY <1>4, <1>6, <2>2, Zenon
  <2>4. I[1..k] = Register(I[1 .. k - 1], actions[k], tr, i)
    BY <2>1, <2>2, <2>3, Zenon
  <2>5. f[k] = I[1..k] /\ f[k - 1] = I[1 .. k - 1]
    BY <1>7
  <2> QED BY <2>4, <2>5, Zenon
<1>10. f = [k \in 0..n |-> f[k]] /\ f[n] = I[1..n]
  BY <1>7
<1> QED BY <1>5, <1>6, <1>8, <1>9, <1>10, Zenon DEF RegisterChain, RegisterRun

SettleChain(f, bk, actions, price) ==
    /\ f = [k \in 0..Len(actions) |-> f[k]]
    /\ f[0] = bk
    /\ \A k \in 1..Len(actions) : f[k] = Settle(f[k - 1], actions[k], price)

\* f is such a chain, and ends in what Settled says.
SettleRun(f, bk, actions, price) ==
    /\ SettleChain(f, bk, actions, price)
    /\ Settled(bk, actions, price) = f[Len(actions)]

\* So does the loop over the queue at the open.
LEMMA SettleFold ==
    ASSUME NEW A, NEW bk, NEW actions \in Seq(A), NEW price
    PROVE  \E f : SettleRun(f, bk, actions, price)
<1> PICK n \in Nat : n = Len(actions)
  OBVIOUS
<1> DEFINE Fits(I, k) ==
             I = [s \in SUBSET (1..k) |->
                     IF s = {} THEN bk
                     ELSE Settle(I[s \ {Max(s)}], actions[Max(s)], price)]
           Good == {k \in 0..n : \E I : Fits(I, k)}
<1>1. 0 \in Good
  <2>1. Fits([s \in SUBSET (1..0) |-> bk], 0)
    OBVIOUS
  <2> HIDE DEF Fits
  <2> QED BY <2>1
<1>2. ASSUME NEW k \in 1..n, k - 1 \in Good
      PROVE  k \in Good
  <2>1. PICK I : Fits(I, k - 1)
    <3> HIDE DEF Fits
    <3> QED BY <1>2
  <2>2. PICK J : J = [s \in SUBSET (1..k) |->
                        IF k \in s THEN Settle(I[s \ {k}], actions[k], price) ELSE I[s]]
    OBVIOUS
  <2>3. ASSUME NEW s \in SUBSET (1..k)
        PROVE  J[s] = IF s = {} THEN bk
                      ELSE Settle(J[s \ {Max(s)}], actions[Max(s)], price)
    <3>1. CASE k \in s
      <4>1. Max(s) = k
        <5>1. s \subseteq Int /\ \A y \in s : y <= k
          OBVIOUS
        <5> QED BY <3>1, <5>1, MaxIs
      <4>2. s \ {k} \in SUBSET (1..k) /\ k \notin s \ {k}
        OBVIOUS
      <4>3. J[s] = Settle(I[s \ {k}], actions[k], price)
        BY <2>2, <3>1, Zenon
      <4>4. J[s \ {k}] = I[s \ {k}]
        BY <2>2, <4>2, Zenon
      <4> QED BY <3>1, <4>1, <4>3, <4>4, Zenon
    <3>2. CASE k \notin s
      <4>1. s \in SUBSET (1 .. k - 1)
        BY <3>2
      <4>2. J[s] = I[s]
        BY <2>2, <3>2, Zenon
      <4>3. s \ {Max(s)} \in SUBSET (1..k) /\ k \notin s \ {Max(s)}
        BY <3>2
      <4>4. J[s \ {Max(s)}] = I[s \ {Max(s)}]
        BY <2>2, <4>3, Zenon
      <4>5. I[s] = IF s = {} THEN bk
                   ELSE Settle(I[s \ {Max(s)}], actions[Max(s)], price)
        BY <2>1, <4>1, Zenon
      <4> QED BY <4>2, <4>4, <4>5, Zenon
    <3> QED BY <3>1, <3>2
  <2>4. J = [s \in SUBSET (1..k) |-> J[s]]
    BY <2>2
  <2>5. Fits(J, k)
    BY <2>3, <2>4, Zenon
  <2> HIDE DEF Fits
  <2> QED BY <2>5
<1>3. \E I : Fits(I, n)
  <2> HIDE DEF Fits
  <2>1. \A k \in 0..n : k \in Good
    <3> HIDE DEF Good
    <3> QED BY <1>1, <1>2, StepByStep
  <2> QED BY <2>1
<1> DEFINE iter == CHOOSE I : Fits(I, n)
<1>4. Fits(iter, n)
  <2> HIDE DEF Fits
  <2> QED BY <1>3
<1>5. Settled(bk, actions, price) = iter[1..n]
  <2>1. DOMAIN actions = 1..n
    OBVIOUS
  <2> QED BY <2>1, Zenon DEF Settled, FoldLeft, MapThenFoldSet
<1> HIDE DEF iter
<1>6. PICK I : I = iter
  OBVIOUS
<1>7. PICK f : f = [k \in 0..n |-> I[1..k]]
  OBVIOUS
<1>8. f[0] = bk
  <2>1. 1..0 = {} /\ {} \in SUBSET (1..n)
    OBVIOUS
  <2>2. I[{}] = bk
    BY <1>4, <1>6, <2>1, Zenon
  <2> QED BY <1>7, <2>1, <2>2
<1>9. ASSUME NEW k \in 1..n
      PROVE  f[k] = Settle(f[k - 1], actions[k], price)
  <2>1. Max(1..k) = k
    <3>1. 1..k \subseteq Int /\ k \in 1..k /\ \A y \in 1..k : y <= k
      OBVIOUS
    <3> QED BY <3>1, MaxIs
  <2>2. (1..k) \ {k} = 1 .. k - 1 /\ 1..k \in SUBSET (1..n) /\ 1..k # {}
    <3>1. \A x : x \in (1..k) \ {k} <=> x \in 1 .. k - 1
      OBVIOUS
    <3>2. 1..k \subseteq 1..n /\ k \in 1..k
      OBVIOUS
    <3> QED BY <3>1, <3>2
  <2>3. I[1..k] = Settle(I[(1..k) \ {Max(1..k)}], actions[Max(1..k)], price)
    BY <1>4, <1>6, <2>2, Zenon
  <2>4. I[1..k] = Settle(I[1 .. k - 1], actions[k], price)
    BY <2>1, <2>2, <2>3, Zenon
  <2>5. f[k] = I[1..k] /\ f[k - 1] = I[1 .. k - 1]
    BY <1>7
  <2> QED BY <2>4, <2>5, Zenon
<1>10. f = [k \in 0..n |-> f[k]] /\ f[n] = I[1..n]
  BY <1>7
<1> QED BY <1>5, <1>6, <1>8, <1>9, <1>10, Zenon DEF SettleChain, SettleRun

\* There is one chain only.
LEMMA RegisterChainIsOne ==
    ASSUME NEW A, NEW at, NEW tr, NEW i, NEW actions \in Seq(A),
           NEW f, RegisterChain(f, at, actions, tr, i),
           NEW g, RegisterChain(g, at, actions, tr, i)
    PROVE  \A k \in 0..Len(actions) : f[k] = g[k]
<1> PICK n \in Nat : n = Len(actions)
  OBVIOUS
<1> DEFINE Good == {k \in 0..n : f[k] = g[k]}
<1>1. 0 \in Good
  BY DEF RegisterChain
<1>2. \A k \in 1..n : k - 1 \in Good => k \in Good
  <2> SUFFICES ASSUME NEW k \in 1..n, k - 1 \in Good
               PROVE  k \in Good
    OBVIOUS
  <2>1. /\ f[k] = Register(f[k - 1], actions[k], tr, i)
        /\ g[k] = Register(g[k - 1], actions[k], tr, i)
    BY Zenon DEF RegisterChain
  <2> QED BY <2>1
<1> HIDE DEF Good
<1>3. \A k \in 0..n : k \in Good
  BY <1>1, <1>2, StepByStep
<1> QED BY <1>3 DEF Good

\* No action changes nothing.
LEMMA RegisterNone ==
    ASSUME NEW at, NEW tr, NEW i
    PROVE  RegisterBrackets(at, Decision(tr, <<>>), i) = at
<1>1. <<>> \in Seq({}) /\ Len(<<>>) = 0
  OBVIOUS
<1>2. PICK f : RegisterRun(f, at, <<>>, tr, i)
  BY <1>1, RegisterFold, Zenon
<1> QED BY <1>1, <1>2, Zenon DEF RegisterChain, RegisterRun

\* One action is one round.
LEMMA RegisterOne ==
    ASSUME NEW at, NEW tr, NEW i, NEW action
    PROVE  RegisterBrackets(at, Decision(tr, <<action>>), i) = Register(at, action, tr, i)
<1> PICK actions : actions = <<action>>
  OBVIOUS
<1>1. actions \in Seq({action}) /\ Len(actions) = 1 /\ actions[1] = action
  OBVIOUS
<1>2. PICK f : RegisterRun(f, at, actions, tr, i)
  BY <1>1, RegisterFold, Zenon
<1>3. 1 \in 1..1 /\ 1 - 1 = 0
  OBVIOUS
<1>4. f[1] = Register(f[0], action, tr, i) /\ f[0] = at
  BY <1>1, <1>2, <1>3, Zenon DEF RegisterChain, RegisterRun
<1> QED BY <1>1, <1>2, <1>4, Zenon DEF RegisterRun

\* The actions of two lists are those of the first and then those of the second.
LEMMA RegisterConcat ==
    ASSUME NEW A, NEW at, NEW tr, NEW i, NEW first \in Seq(A), NEW second \in Seq(A)
    PROVE  RegisterBrackets(at, Decision(tr, first \o second), i) =
               RegisterBrackets(RegisterBrackets(at, Decision(tr, first), i),
                                Decision(tr, second), i)
<1> PICK m \in Nat : m = Len(first)
  OBVIOUS
<1> PICK n \in Nat : n = Len(second)
  OBVIOUS
<1>0. first \o second \in Seq(A)
  OBVIOUS
<1>11. PICK both \in Seq(A) : both = first \o second
  BY <1>0
<1>1. /\ Len(both) = m + n
      /\ \A k \in 1..m : both[k] = first[k]
      /\ \A k \in 1..n : both[m + k] = second[k]
  BY <1>11
<1>2. PICK f : RegisterRun(f, at, first, tr, i)
  BY RegisterFold, Zenon
<1>3. PICK g : RegisterRun(g, f[m], second, tr, i)
  BY RegisterFold, Zenon
<1>4. PICK h : RegisterRun(h, at, both, tr, i)
  BY RegisterFold, Zenon
<1>5. PICK j : j = [k \in 0 .. m + n |-> IF k <= m THEN f[k] ELSE g[k - m]]
  OBVIOUS
<1>6. RegisterChain(j, at, both, tr, i)
  <2>1. j = [k \in 0 .. m + n |-> j[k]] /\ j[0] = f[0]
    BY <1>5
  <2>2. f[0] = at /\ g[0] = f[m]
    BY <1>2, <1>3 DEF RegisterChain, RegisterRun
  <2>3. ASSUME NEW k \in 1 .. m + n
        PROVE  j[k] = Register(j[k - 1], both[k], tr, i)
    <3>1. CASE k <= m
      <4>1. k \in 1..m /\ j[k] = f[k] /\ j[k - 1] = f[k - 1] /\ both[k] = first[k]
        BY <1>1, <1>5, <3>1
      <4>2. f[k] = Register(f[k - 1], first[k], tr, i)
        BY <1>2, <4>1, Zenon DEF RegisterChain, RegisterRun
      <4> QED BY <4>1, <4>2, Zenon
    <3>2. CASE ~(k <= m)
      <4> PICK x \in 1..n : k = m + x
        <5>1. k - m \in 1..n /\ k = m + (k - m)
          BY <3>2
        <5> QED BY <5>1
      <4>1. j[k] = g[x] /\ both[k] = second[x]
        <5>1. k \in 0 .. m + n /\ ~(k <= m) /\ k - m = x
          BY <3>2
        <5>2. both[m + x] = second[x]
          BY <1>1
        <5> QED BY <1>5, <5>1, <5>2
      <4>2. j[k - 1] = g[x - 1]
        <5>1. CASE x = 1
          <6>1. k - 1 = m /\ m \in 0 .. m + n /\ x - 1 = 0
            BY <5>1
          <6>2. j[m] = f[m]
            BY <1>5, <6>1
          <6> QED BY <2>2, <6>1, <6>2
        <5>2. CASE x # 1
          <6>1. k - 1 \in 0 .. m + n /\ ~(k - 1 <= m) /\ (k - 1) - m = x - 1
            BY <5>2
          <6> QED BY <1>5, <6>1
        <5> QED BY <5>1, <5>2
      <4>3. g[x] = Register(g[x - 1], second[x], tr, i)
        BY <1>3, Zenon DEF RegisterChain, RegisterRun
      <4> QED BY <4>1, <4>2, <4>3, Zenon
    <3> QED BY <3>1, <3>2
  <2> QED BY <1>1, <2>1, <2>2, <2>3, Zenon DEF RegisterChain, RegisterRun
<1>7. m + n \in 0 .. m + n
  OBVIOUS
<1>8. h[m + n] = j[m + n]
  <2>1. RegisterChain(h, at, both, tr, i)
    BY <1>4, Zenon DEF RegisterRun
  <2>2. \A k \in 0..Len(both) : h[k] = j[k]
    BY <1>6, <2>1, RegisterChainIsOne, SMTT(30)
  <2> QED BY <1>1, <1>7, <2>2
<1>9. j[m + n] = g[n]
  <2>1. g[0] = f[m]
    BY <1>3 DEF RegisterChain, RegisterRun
  <2>2. CASE n = 0
    <3>1. m + n = m /\ m \in 0 .. m + n
      BY <2>2
    <3> QED BY <1>5, <2>1, <2>2, <3>1
  <2>3. CASE n # 0
    <3>1. ~(m + n <= m) /\ (m + n) - m = n
      BY <2>3
    <3> QED BY <1>5, <1>7, <3>1
  <2> QED BY <2>2, <2>3
<1>10. Len(first) = m /\ Len(second) = n
  OBVIOUS
<1> QED BY <1>1, <1>2, <1>3, <1>4, <1>8, <1>9, <1>10, <1>11, Zenon DEF RegisterRun
------------------------------------------------------------------------------
(* The values of the variables.                                              *)

SideOrNone == OrderSide \cup {"NONE"}

Tranches ==
    [side : SideOrNone, state : {"ABSENT", "PENDING_ENTRY", "OPEN", "CLOSED"},
     quantity : Int, entryPrice : Int, stopLoss : Int, takeProfit : Int, entryBar : Int,
     breakevenMoved : BOOLEAN, closeReason : CloseReason \cup {"NONE"}]

Trades ==
    [side : SideOrNone, pendingStop : Int, referenceClose : Int,
     tranches : [TrancheRole -> Tranches]]

Brackets ==
    [side : SideOrNone, stopLoss : Int, takeProfit : Int, activeFrom : Int,
     breakeven : BOOLEAN]

Entries == [side : SideOrNone, price : Int, quantity : Int, bar : Int]

Books ==
    [held : [TrancheRole -> Entries], equity : Int, ruined : BOOLEAN,
     entries : Nat, exits : Nat]

Opens  == {OpenAction(r, s) : r \in TrancheRole, s \in SideOrNone}
Closes == {CloseAction(r, q, why) : r \in TrancheRole, q \in Int, why \in CloseReason}
Stops0 == {SetBrackets(r, p, t) : r \in TrancheRole, p \in Int, t \in Int}
Moves  == {MoveStop(r, p) : r \in TrancheRole, p \in Int}

Orders  == Opens \cup Closes
Actions == Orders \cup Stops0 \cup Moves

Items(q)           == {q[j] : j \in DOMAIN q}
HasClose(items, r) == \E a \in items : a.kind = "CLOSE" /\ a.role = r
------------------------------------------------------------------------------
(* The books.                                                                *)

HeldIn(bk)   == {r \in TrancheRole : bk.held[r] # NoEntry}
Balanced(bk) == bk.entries - bk.exits = Cardinality(HeldIn(bk))

\* record_exit takes the entry of one role out of the books, and nothing else.
LEMMA RecordExitIs ==
    ASSUME NEW bk \in Books, Balanced(bk), NEW role \in TrancheRole, NEW price \in Int
    PROVE  /\ RecordExit(bk, role, price) \in Books
           /\ Balanced(RecordExit(bk, role, price))
           /\ RecordExit(bk, role, price).entries = bk.entries
           /\ bk.ruined => RecordExit(bk, role, price).ruined
           /\ RecordExit(bk, role, price).held = [bk.held EXCEPT ![role] = NoEntry]
<1>3. PICK after : after = RecordExit(bk, role, price)
  OBVIOUS
<1>0. /\ bk.held \in [TrancheRole -> Entries] /\ bk.equity \in Int /\ bk.ruined \in BOOLEAN
      /\ bk.entries \in Nat /\ bk.exits \in Nat /\ NoEntry \in Entries
  BY DEF Books, Entries, NoEntry, SideOrNone
<1>1. CASE bk.held[role] = NoEntry
  <2>1. after = bk
    BY <1>1, <1>3 DEF RecordExit
  <2>2. bk.held = [bk.held EXCEPT ![role] = NoEntry]
    BY <1>0, <1>1
  <2> QED BY <1>3, <2>1, <2>2
<1>2. CASE bk.held[role] # NoEntry
  <2> PICK equity : equity = bk.equity + (IF bk.held[role].side = "BUY"
                                           THEN price - bk.held[role].price
                                           ELSE bk.held[role].price - price)
                                         * bk.held[role].quantity
    OBVIOUS
  <2>1. equity \in Int
    <3>1. bk.held[role].price \in Int /\ bk.held[role].quantity \in Int
      BY <1>0 DEF Entries
    <3>2. \A x, y \in Int : x * y \in Int
      OBVIOUS
    <3> QED BY <1>0, <3>1, <3>2
  <2>2. after = [held |-> [bk.held EXCEPT ![role] = NoEntry], equity |-> equity,
                 ruined |-> bk.ruined \/ equity <= 0,
                 entries |-> bk.entries, exits |-> bk.exits + 1]
    BY <1>2, <1>3, Zenon DEF RecordExit
  <2>3. (bk.ruined \/ equity <= 0) \in BOOLEAN
    OBVIOUS
  <2>4. [bk.held EXCEPT ![role] = NoEntry] \in [TrancheRole -> Entries]
    BY <1>0
  <2>5. after \in Books
    BY <1>0, <2>1, <2>2, <2>3, <2>4 DEF Books
  <2>6. HeldIn(after) = HeldIn(bk) \ {role} /\ role \in HeldIn(bk)
    BY <1>0, <1>2, <2>2 DEF HeldIn
  <2>7. IsFiniteSet(HeldIn(bk))
    <3>1. IsFiniteSet({"T1"} \cup {"T2"})
      BY FS_Singleton, FS_Union
    <3>2. HeldIn(bk) \subseteq {"T1"} \cup {"T2"}
      BY DEF HeldIn, TrancheRole
    <3> QED BY <3>1, <3>2, FS_Subset
  <2>8. Cardinality(HeldIn(after)) = Cardinality(HeldIn(bk)) - 1
    BY <2>6, <2>7, FS_RemoveElement
  <2>9. Balanced(after)
    <3>1. after.entries = bk.entries /\ after.exits = bk.exits + 1
      BY <2>2
    <3>2. bk.entries - bk.exits = Cardinality(HeldIn(bk))
      BY DEF Balanced
    <3>3. bk.entries - (bk.exits + 1) = (bk.entries - bk.exits) - 1
      BY <1>0
    <3>4. after.entries - after.exits = Cardinality(HeldIn(after))
      BY <2>8, <3>1, <3>2, <3>3
    <3> QED BY <3>4, Zenon DEF Balanced
  <2>10. /\ after.entries = bk.entries
         /\ after.ruined = (bk.ruined \/ equity <= 0)
         /\ after.held = [bk.held EXCEPT ![role] = NoEntry]
    BY <2>2, Zenon
  <2> QED BY <1>3, <2>5, <2>9, <2>10, Zenon
<1> QED BY <1>1, <1>2

\* What the closes at an open do to the books.
LEMMA SettledIs ==
    ASSUME NEW bk \in Books, Balanced(bk), NEW actions \in Seq(Orders), NEW price \in Int
    PROVE  LET after == Settled(bk, actions, price) IN
           /\ after \in Books /\ Balanced(after)
           /\ after.entries = bk.entries
           /\ bk.ruined => after.ruined
           /\ \A r \in TrancheRole :
                 after.held[r] = IF HasClose(Items(actions), r) THEN NoEntry ELSE bk.held[r]
<1> PICK n \in Nat : n = Len(actions)
  OBVIOUS
<1>1. PICK f : SettleRun(f, bk, actions, price)
  BY SettleFold
<1> DEFINE Closed(k, r) == \E j \in 1..k : actions[j].kind = "CLOSE" /\ actions[j].role = r
           Fine(k) ==
             /\ f[k] \in Books /\ Balanced(f[k])
             /\ f[k].entries = bk.entries
             /\ bk.ruined => f[k].ruined
             /\ \A r \in TrancheRole : f[k].held[r] = IF Closed(k, r) THEN NoEntry ELSE bk.held[r]
           Good == {k \in 0..n : Fine(k)}
<1>2. 0 \in Good
  <2>1. f[0] = bk
    BY <1>1, Zenon DEF SettleRun, SettleChain
  <2>2. \A r : ~Closed(0, r)
    OBVIOUS
  <2>3. Fine(0)
    <3> HIDE DEF Closed
    <3> QED BY <2>1, <2>2
  <2> HIDE DEF Fine
  <2> QED BY <2>3
<1>3. ASSUME NEW k \in 1..n, k - 1 \in Good
      PROVE  k \in Good
  <2>1. f[k] = Settle(f[k - 1], actions[k], price)
    <3>1. n = Len(actions)
      OBVIOUS
    <3> QED BY <1>1, <3>1, Zenon DEF SettleRun, SettleChain
  <2>2. Fine(k - 1)
    <3> HIDE DEF Fine
    <3> QED BY <1>3
  <2>3. actions[k] \in Orders
    OBVIOUS
  <2>4. \A r : Closed(k, r) <=> Closed(k - 1, r) \/ (actions[k].kind = "CLOSE" /\ actions[k].role = r)
    <3>1. \A j : j \in 1..k <=> j \in 1 .. k - 1 \/ j = k
      OBVIOUS
    <3> QED BY <3>1
  <2>5. CASE actions[k].kind = "CLOSE"
    <3> PICK role : role = actions[k].role
      OBVIOUS
    <3>1. role \in TrancheRole
      BY <2>3 DEF Orders, Opens, Closes, OpenAction, CloseAction
    <3>2. f[k] = RecordExit(f[k - 1], role, price)
      BY <2>1, <2>5 DEF Settle
    <3>3. /\ f[k] \in Books /\ Balanced(f[k])
          /\ f[k].entries = f[k - 1].entries
          /\ f[k - 1].ruined => f[k].ruined
          /\ f[k].held = [f[k - 1].held EXCEPT ![role] = NoEntry]
      <4> PICK b : b = f[k - 1]
        OBVIOUS
      <4>1. b \in Books /\ Balanced(b)
        BY <2>2
      <4>2. /\ RecordExit(b, role, price) \in Books
            /\ Balanced(RecordExit(b, role, price))
            /\ RecordExit(b, role, price).entries = b.entries
            /\ b.ruined => RecordExit(b, role, price).ruined
            /\ RecordExit(b, role, price).held = [b.held EXCEPT ![role] = NoEntry]
        <5> HIDE DEF Fine, Closed, Good
        <5> QED BY <3>1, <4>1, RecordExitIs
      <4>3. f[k] = RecordExit(b, role, price)
        BY <3>2
      <4> QED BY <4>2, <4>3
    <3>4. f[k - 1].held \in [TrancheRole -> Entries]
      BY <2>2 DEF Books
    <3>5. Fine(k)
      <4> HIDE DEF Closed
      <4> QED BY <2>2, <2>4, <2>5, <3>3, <3>4
    <3> HIDE DEF Fine
    <3> QED BY <3>5
  <2>6. CASE actions[k].kind # "CLOSE"
    <3>1. f[k] = f[k - 1]
      BY <2>1, <2>6 DEF Settle
    <3>2. Fine(k)
      <4> HIDE DEF Closed
      <4> QED BY <2>2, <2>4, <2>6, <3>1
    <3> HIDE DEF Fine
    <3> QED BY <3>2
  <2> QED BY <2>5, <2>6
<1>4. \A k \in 0..n : k \in Good
  <2> HIDE DEF Good
  <2> QED BY <1>2, <1>3, StepByStep
<1>5. Fine(n)
  <2> HIDE DEF Fine
  <2> QED BY <1>4
<1>6. Settled(bk, actions, price) = f[n]
  <2>1. n = Len(actions)
    OBVIOUS
  <2> QED BY <1>1, <2>1, Zenon DEF SettleRun
<1>7. \A r : Closed(n, r) <=> HasClose(Items(actions), r)
  <2>1. DOMAIN actions = 1..n
    OBVIOUS
  <2> QED BY <2>1 DEF HasClose, Items
<1> HIDE DEF Closed
<1> QED BY <1>5, <1>6, <1>7
------------------------------------------------------------------------------
(* What registering an action does to the brackets and the queue.            *)

Ats == [brackets : [TrancheRole -> Brackets], queued : Seq(Orders)]

\* One more order is one more item.
LEMMA ItemsAppend ==
    ASSUME NEW q \in Seq(Orders), NEW a \in Orders
    PROVE  /\ Append(q, a) \in Seq(Orders)
           /\ Items(Append(q, a)) = Items(q) \cup {a}
<1> PICK n \in Nat : n = Len(q)
  OBVIOUS
<1> PICK p : p = Append(q, a)
  OBVIOUS
<1>1. p \in Seq(Orders) /\ DOMAIN p = 1 .. n + 1 /\ DOMAIN q = 1..n
  OBVIOUS
<1>2. /\ \A j \in 1..n : p[j] = q[j]
      /\ p[n + 1] = a
  OBVIOUS
<1>3. \A j : j \in 1 .. n + 1 <=> j \in 1..n \/ j = n + 1
  OBVIOUS
<1>4. \A x : x \in Items(p) <=> x \in Items(q) \cup {a}
  BY <1>1, <1>2, <1>3, Zenon DEF Items
<1> QED BY <1>1, <1>4

Takes(after, at, role, action) ==
    /\ after \in Ats
    /\ after.brackets = [at.brackets EXCEPT ![role] = NoBracket]
    /\ Items(after.queued) = Items(at.queued) \cup {action}

\* A close takes the bracket away and is queued.
LEMMA RegisterClose ==
    ASSUME NEW at \in Ats, NEW tr, NEW i, NEW role \in TrancheRole, NEW q \in Int,
           NEW why \in CloseReason
    PROVE  LET action == CloseAction(role, q, why)
           IN  Takes(Register(at, action, tr, i), at, role, action)
<1> PICK action : action = CloseAction(role, q, why)
  OBVIOUS
<1>1. action \in Orders /\ action.kind = "CLOSE" /\ action.role = role
  BY DEF Orders, Closes, CloseAction
<1>2. Register(at, action, tr, i) =
          [at EXCEPT !.brackets[role] = NoBracket, !.queued = Append(@, action)]
  BY <1>1 DEF Register
<1>3. at.brackets \in [TrancheRole -> Brackets] /\ at.queued \in Seq(Orders)
  BY DEF Ats
<1>4. NoBracket \in Brackets
  BY DEF NoBracket, Brackets, SideOrNone
<1>5. Append(at.queued, action) \in Seq(Orders)
      /\ Items(Append(at.queued, action)) = Items(at.queued) \cup {action}
  BY <1>1, <1>3, ItemsAppend
<1>6. [at.brackets EXCEPT ![role] = NoBracket] \in [TrancheRole -> Brackets]
  BY <1>3, <1>4
<1>7. Register(at, action, tr, i) =
          [brackets |-> [at.brackets EXCEPT ![role] = NoBracket],
           queued |-> Append(at.queued, action)]
  BY <1>2 DEF Ats
<1> QED BY <1>5, <1>6, <1>7 DEF Ats, Takes

Queues(after, at, action) ==
    /\ after \in Ats
    /\ after.brackets = at.brackets
    /\ Items(after.queued) = Items(at.queued) \cup {action}

\* An entry is queued.
LEMMA RegisterOpen ==
    ASSUME NEW at \in Ats, NEW tr, NEW i, NEW role \in TrancheRole, NEW side \in SideOrNone
    PROVE  LET action == OpenAction(role, side)
           IN  Queues(Register(at, action, tr, i), at, action)
<1> PICK action : action = OpenAction(role, side)
  OBVIOUS
<1>1. action \in Orders /\ action.kind = "OPEN"
  BY DEF Orders, Opens, OpenAction
<1>2. Register(at, action, tr, i) = [at EXCEPT !.queued = Append(@, action)]
  BY <1>1 DEF Register
<1>3. at.queued \in Seq(Orders)
  BY DEF Ats
<1>4. Append(at.queued, action) \in Seq(Orders)
      /\ Items(Append(at.queued, action)) = Items(at.queued) \cup {action}
  BY <1>1, <1>3, ItemsAppend
<1>5. Register(at, action, tr, i) =
          [brackets |-> at.brackets, queued |-> Append(at.queued, action)]
  BY <1>2 DEF Ats
<1> QED BY <1>4, <1>5 DEF Ats, Queues

\* A list of at most one action is at most one round.
LEMMA RegisterOnly ==
    ASSUME NEW at, NEW tr, NEW i, NEW roles, NEW role, NEW action
    PROVE  RegisterBrackets(at, Decision(tr, IF role \in roles THEN <<action>> ELSE <<>>), i) =
               IF role \in roles THEN Register(at, action, tr, i) ELSE at
<1>1. CASE role \in roles
  BY <1>1, RegisterOne
<1>2. CASE role \notin roles
  BY <1>2, RegisterNone
<1> QED BY <1>1, <1>2

Pair(roles, first, second) ==
    (IF "T1" \in roles THEN <<first>> ELSE <<>>) \o (IF "T2" \in roles THEN <<second>> ELSE <<>>)

Rounds(at, roles, first, second, tr, i) ==
    LET mid == IF "T1" \in roles THEN Register(at, first, tr, i) ELSE at
    IN  IF "T2" \in roles THEN Register(mid, second, tr, i) ELSE mid

\* Two such lists are at most two rounds.
LEMMA RegisterTwo ==
    ASSUME NEW A, NEW at, NEW tr, NEW i, NEW roles,
           NEW first \in A, NEW second \in A
    PROVE  RegisterBrackets(at, Decision(tr, Pair(roles, first, second)), i) =
               Rounds(at, roles, first, second, tr, i)
<1>5. PICK one : one = IF "T1" \in roles THEN <<first>> ELSE <<>>
  OBVIOUS
<1>6. PICK two : two = IF "T2" \in roles THEN <<second>> ELSE <<>>
  OBVIOUS
<1>1. one \in Seq(A) /\ two \in Seq(A)
  BY <1>5, <1>6
<1>2. RegisterBrackets(at, Decision(tr, one \o two), i) =
          RegisterBrackets(RegisterBrackets(at, Decision(tr, one), i), Decision(tr, two), i)
  BY <1>1, RegisterConcat
<1> PICK mid : mid = IF "T1" \in roles THEN Register(at, first, tr, i) ELSE at
  OBVIOUS
<1>3. RegisterBrackets(at, Decision(tr, one), i) = mid
  BY <1>5, RegisterOnly
<1>4. RegisterBrackets(mid, Decision(tr, two), i) =
          IF "T2" \in roles THEN Register(mid, second, tr, i) ELSE mid
  BY <1>6, RegisterOnly
<1> QED BY <1>2, <1>3, <1>4, <1>5, <1>6 DEF Pair, Rounds
------------------------------------------------------------------------------
(* The trade manager and what the broker holds for it.                       *)

\* What the trade manager knows by itself: both tranches wait or none does; the
\* runner outlives the other tranche only if that took its profit, and its stop
\* is moved only then.
Sound(t) ==
    LET fixed  == t.tranches["T1"]
        runner == t.tranches["T2"]
    IN  /\ t \in Trades
        /\ \A r \in TrancheRole :
              /\ t.tranches[r].side = t.side
              /\ r \in Live(t) => t.side \in OrderSide
              /\ r \in Pending(t) => ~t.tranches[r].breakevenMoved
        /\ fixed.state = "PENDING_ENTRY" <=> runner.state = "PENDING_ENTRY"
        /\ ~fixed.breakevenMoved /\ runner.takeProfit = 0
        /\ runner.state = "OPEN" =>
              /\ fixed.state \in {"OPEN", "CLOSED"}
              /\ fixed.state = "OPEN" =>
                    ~runner.breakevenMoved /\ runner.stopLoss = fixed.stopLoss
              /\ fixed.state = "CLOSED" => fixed.closeReason = "TAKE_PROFIT"
              /\ runner.breakevenMoved => runner.stopLoss = runner.entryPrice

NoPending(t) == \A r \in TrancheRole : t.tranches[r].state # "PENDING_ENTRY"

\* An open tranche, its entry and its bracket; none of them is later than bar e.
Kept(t, r, brs, held, e) ==
    LET x == t.tranches[r]
        b == brs[r]
    IN  /\ t.side \in OrderSide
        /\ held[r].side = t.side /\ held[r].price = x.entryPrice
        /\ held[r].quantity = x.quantity
        /\ b.side = t.side /\ b.stopLoss = x.stopLoss /\ b.takeProfit = x.takeProfit
        /\ b.breakeven = x.breakevenMoved
        /\ b.activeFrom <= e + 1 /\ x.entryBar <= e /\ x.quantity # 0

\* One role of the trade, its bracket, its entry and its orders.
MatchedFor(r, t, brs, held, items, e) ==
    LET state == t.tranches[r].state IN
    /\ state = "OPEN" => Kept(t, r, brs, held, e) /\ ~HasClose(items, r)
    /\ state # "OPEN" => brs[r] = NoBracket
    /\ held[r] # NoEntry <=> state = "OPEN" \/ HasClose(items, r)
    /\ state = "PENDING_ENTRY" => OpenAction(r, t.side) \in items

\* Every order is a close of what is held or an entry that is waited for.
Meant(a, t, held) ==
    \/ a.kind = "CLOSE" /\ a.quantity = held[a.role].quantity
    \/ a = OpenAction(a.role, t.side) /\ t.tranches[a.role].state = "PENDING_ENTRY"

Matched(t, at, held, e) ==
    /\ at \in Ats
    /\ \A r \in TrancheRole : MatchedFor(r, t, at.brackets, held, Items(at.queued), e)
    /\ \A a \in Items(at.queued) : Meant(a, t, held)

\* Between two decisions of one close.
Mid(t, at, held, e) == Sound(t) /\ NoPending(t) /\ Matched(t, at, held, e)

\* What a decision leaves behind when the broker has registered it.
Carried(d, at, held, e, tr) ==
    /\ d.actions \in Seq(Actions)
    /\ Sound(d.trade)
    /\ Matched(d.trade, RegisterBrackets(at, Decision(tr, d.actions), e), held, e)

\* The closes of a set of tranches, as the brackets and the queue show them.
ClosesTaken(after, at, t, roles, why) ==
    /\ after \in Ats
    /\ \A r \in TrancheRole :
          after.brackets[r] = IF r \in roles THEN NoBracket ELSE at.brackets[r]
    /\ Items(after.queued) = Items(at.queued) \cup
          {CloseAction(r, t.tranches[r].quantity, why) : r \in roles \cap TrancheRole}

\* What the closes of a set of tranches do to the brackets and the queue.
LEMMA CloseAllRegisters ==
    ASSUME NEW t \in Trades, NEW roles, NEW why \in CloseReason,
           NEW at \in Ats, NEW tr, NEW i
    PROVE  LET actions == CloseAll(t, roles, why).actions
           IN  /\ actions \in Seq(Actions)
               /\ ClosesTaken(RegisterBrackets(at, Decision(tr, actions), i), at, t, roles, why)
<1> DEFINE Closing(r) == CloseAction(r, t.tranches[r].quantity, why)
<1>1. \A r \in TrancheRole : t.tranches[r].quantity \in Int /\ Closing(r) \in Actions
  <2>1. \A r \in TrancheRole : t.tranches[r].quantity \in Int
    BY DEF Trades, Tranches
  <2> QED BY <2>1 DEF Actions, Orders, Closes
<1>2. "T1" \in TrancheRole /\ "T2" \in TrancheRole
  BY DEF TrancheRole
<1>10. PICK q1 \in Int : q1 = t.tranches["T1"].quantity
  BY <1>1, <1>2
<1>11. PICK q2 \in Int : q2 = t.tranches["T2"].quantity
  BY <1>1, <1>2
<1>12. PICK first \in Actions : first = CloseAction("T1", q1, why)
  BY <1>1, <1>2, <1>10
<1>13. PICK second \in Actions : second = CloseAction("T2", q2, why)
  BY <1>1, <1>2, <1>11
<1>3. CloseAll(t, roles, why).actions = Pair(roles, first, second)
  BY <1>10, <1>11, <1>12, <1>13, Zenon DEF CloseAll, Each, Decision, Pair
<1>4. CloseAll(t, roles, why).actions \in Seq(Actions)
  <2> HIDE DEF Closing
  <2> QED BY <1>3 DEF Pair
<1>14. PICK mid : mid = IF "T1" \in roles THEN Register(at, first, tr, i) ELSE at
  OBVIOUS
<1>15. PICK after : after = IF "T2" \in roles THEN Register(mid, second, tr, i) ELSE mid
  OBVIOUS
<1>5. RegisterBrackets(at, Decision(tr, CloseAll(t, roles, why).actions), i) = after
  <2>1. RegisterBrackets(at, Decision(tr, Pair(roles, first, second)), i) =
            Rounds(at, roles, first, second, tr, i)
    BY RegisterTwo
  <2> QED BY <1>3, <1>14, <1>15, <2>1 DEF Rounds
<1>6. /\ mid \in Ats
      /\ mid.brackets = IF "T1" \in roles THEN [at.brackets EXCEPT !["T1"] = NoBracket] ELSE at.brackets
      /\ Items(mid.queued) = IF "T1" \in roles THEN Items(at.queued) \cup {first} ELSE Items(at.queued)
  <2>1. CASE "T1" \in roles
    <3>1. mid = Register(at, CloseAction("T1", q1, why), tr, i)
      BY <1>12, <1>14, <2>1
    <3>2. Takes(mid, at, "T1", first)
      BY <1>2, <1>12, <3>1, RegisterClose
    <3> QED BY <2>1, <3>2 DEF Takes
  <2>2. CASE "T1" \notin roles
    BY <1>14, <2>2
  <2> QED BY <2>1, <2>2
<1>7. /\ after \in Ats
      /\ after.brackets = IF "T2" \in roles THEN [mid.brackets EXCEPT !["T2"] = NoBracket] ELSE mid.brackets
      /\ Items(after.queued) = IF "T2" \in roles THEN Items(mid.queued) \cup {second} ELSE Items(mid.queued)
  <2>1. CASE "T2" \in roles
    <3>1. after = Register(mid, CloseAction("T2", q2, why), tr, i)
      BY <1>13, <1>15, <2>1
    <3>2. Takes(after, mid, "T2", second)
      BY <1>2, <1>6, <1>13, <3>1, RegisterClose
    <3> QED BY <2>1, <3>2 DEF Takes
  <2>2. CASE "T2" \notin roles
    BY <1>6, <1>15, <2>2
  <2> QED BY <2>1, <2>2
<1>8. \A r \in TrancheRole :
         after.brackets[r] = IF r \in roles THEN NoBracket ELSE at.brackets[r]
  <2>1. at.brackets \in [TrancheRole -> Brackets] /\ mid.brackets \in [TrancheRole -> Brackets]
    BY <1>6 DEF Ats
  <2> QED BY <1>6, <1>7, <2>1 DEF TrancheRole
<1>9. Items(after.queued) = Items(at.queued) \cup {Closing(r) : r \in roles \cap TrancheRole}
  <2>1. \A r : r \in roles \cap TrancheRole <=> (r = "T1" /\ "T1" \in roles) \/ (r = "T2" /\ "T2" \in roles)
    BY DEF TrancheRole
  <2>2. \A x : x \in {Closing(r) : r \in roles \cap TrancheRole} <=>
                 (x = first /\ "T1" \in roles) \/ (x = second /\ "T2" \in roles)
    <3>1. first = Closing("T1") /\ second = Closing("T2")
      BY <1>10, <1>11, <1>12, <1>13
    <3> HIDE DEF Closing
    <3> QED BY <2>1, <3>1
  <2> HIDE DEF Closing
  <2> QED BY <1>6, <1>7, <2>2
<1> QED BY <1>4, <1>5, <1>7, <1>8, <1>9 DEF ClosesTaken

\* The closes of a set of tranches, as the trade shows them.
ClosesKnown(u, t, roles, why) ==
    /\ u \in Trades /\ u.side = t.side
    /\ \A r \in TrancheRole :
          /\ r \in roles => u.tranches[r] = [t.tranches[r] EXCEPT !.state = "CLOSED",
                                                                 !.closeReason = why]
          /\ r \notin roles => u.tranches[r] = t.tranches[r]

\* What CloseAll makes of the trade.
LEMMA CloseAllTrade ==
    ASSUME NEW t \in Trades, NEW roles, NEW why \in CloseReason
    PROVE  ClosesKnown(CloseAll(t, roles, why).trade, t, roles, why)
<1>7. PICK after : after = [r \in TrancheRole |->
                 IF r \in roles
                 THEN [t.tranches[r] EXCEPT !.state = "CLOSED", !.closeReason = why]
                 ELSE t.tranches[r]]
  OBVIOUS
<1>1. CloseAll(t, roles, why).trade = [t EXCEPT !.tranches = after]
  BY <1>7, Zenon DEF CloseAll, Decision
<1>3. [t EXCEPT !.tranches = after] =
          [side |-> t.side, pendingStop |-> t.pendingStop,
           referenceClose |-> t.referenceClose, tranches |-> after]
  BY DEF Trades
<1>4. after \in [TrancheRole -> Tranches]
  <2>1. ASSUME NEW r \in TrancheRole PROVE after[r] \in Tranches
    <3>1. t.tranches[r] \in Tranches
      BY DEF Trades
    <3>2. [t.tranches[r] EXCEPT !.state = "CLOSED", !.closeReason = why] \in Tranches
      BY <3>1 DEF Tranches
    <3> QED BY <1>7, <3>1, <3>2
  <2> QED BY <1>7, <2>1
<1>5. [t EXCEPT !.tranches = after] \in Trades
  BY <1>3, <1>4 DEF Trades
<1>6. \A r \in TrancheRole : after[r] = IF r \in roles
                 THEN [t.tranches[r] EXCEPT !.state = "CLOSED", !.closeReason = why]
                 ELSE t.tranches[r]
  BY <1>7, Zenon
<1> QED BY <1>1, <1>3, <1>5, <1>6 DEF ClosesKnown

\* Closing some of the live tranches, the runner among them, leaves the rest as
\* they are.
LEMMA CloseAllMid ==
    ASSUME NEW t, NEW at, NEW held, NEW e, Mid(t, at, held, e),
           NEW roles, roles \subseteq Live(t), "T2" \in Live(t) => "T2" \in roles,
           NEW why \in CloseReason, NEW tr
    PROVE  /\ Carried(CloseAll(t, roles, why), at, held, e, tr)
           /\ ClosesKnown(CloseAll(t, roles, why).trade, t, roles, why)
           /\ NoPending(CloseAll(t, roles, why).trade)
<1>1. /\ t \in Trades /\ at \in Ats /\ roles \subseteq TrancheRole
      /\ \A r \in roles : t.tranches[r].state = "OPEN"
  BY DEF Mid, Sound, Matched, Live, NoPending
<1>11. PICK u : u = CloseAll(t, roles, why).trade
  OBVIOUS
<1>12. PICK after : after = RegisterBrackets(at, Decision(tr, CloseAll(t, roles, why).actions), e)
  OBVIOUS
<1>2. /\ CloseAll(t, roles, why).actions \in Seq(Actions)
      /\ ClosesTaken(after, at, t, roles, why)
  BY <1>1, <1>12, CloseAllRegisters
<1>3. ClosesKnown(u, t, roles, why)
  BY <1>1, <1>11, CloseAllTrade
<1>4. ASSUME NEW r \in TrancheRole
      PROVE  /\ u.tranches[r].side = t.tranches[r].side
             /\ u.tranches[r].breakevenMoved = t.tranches[r].breakevenMoved
             /\ u.tranches[r].takeProfit = t.tranches[r].takeProfit
             /\ r \in roles => u.tranches[r].state = "CLOSED"
             /\ r \notin roles => u.tranches[r] = t.tranches[r]
  <2>1. t.tranches[r] \in Tranches
    BY <1>1 DEF Trades
  <2> QED BY <1>3, <2>1 DEF Tranches, ClosesKnown
<1>13. \A r \in TrancheRole :
          /\ t.tranches[r].side = t.side
          /\ r \in Live(t) => t.side \in OrderSide
  BY DEF Mid, Sound
<1>14. u \in Trades /\ u.side = t.side
  BY <1>3 DEF ClosesKnown
<1>5. NoPending(u)
  BY <1>4 DEF Mid, NoPending
<1>6. u.tranches["T2"].state # "OPEN"
  BY <1>4 DEF Mid, Live, TrancheRole
<1>7. Sound(u)
  <2>1. ASSUME NEW r \in TrancheRole PROVE u.tranches[r].side = u.side
    BY <1>4, <1>13, <1>14, Zenon
  <2>2. ASSUME NEW r \in TrancheRole, r \in Live(u) PROVE u.side \in OrderSide
    <3>1. r \notin roles
      BY <1>4, <2>2 DEF Live
    <3>2. u.tranches[r] = t.tranches[r]
      BY <1>4, <3>1
    <3>3. r \in Live(t)
      BY <2>2, <3>2 DEF Live
    <3> QED BY <1>13, <1>14, <3>3, Zenon
  <2>3. ~u.tranches["T1"].breakevenMoved /\ u.tranches["T2"].takeProfit = 0
    BY <1>4 DEF Mid, Sound, TrancheRole
  <2> QED BY <1>3, <1>5, <1>6, <2>1, <2>2, <2>3 DEF Sound, NoPending, Pending, TrancheRole, ClosesKnown
<1>8. ASSUME NEW r \in TrancheRole
      PROVE  MatchedFor(r, u, after.brackets, held, Items(after.queued), e)
  <2>1. MatchedFor(r, t, at.brackets, held, Items(at.queued), e)
    BY DEF Mid, Matched
  <2>2. CASE r \in roles
    <3>1. after.brackets[r] = NoBracket /\ u.tranches[r].state = "CLOSED"
      BY <1>2, <1>4, <2>2 DEF ClosesTaken
    <3>2. held[r] # NoEntry
      BY <1>1, <2>1, <2>2 DEF MatchedFor
    <3>3. HasClose(Items(after.queued), r)
      <4>1. CloseAction(r, t.tranches[r].quantity, why) \in Items(after.queued)
        BY <1>2, <2>2 DEF ClosesTaken
      <4> QED BY <4>1 DEF HasClose, CloseAction
    <3> QED BY <3>1, <3>2, <3>3 DEF MatchedFor
  <2>3. CASE r \notin roles
    <3>1. after.brackets[r] = at.brackets[r] /\ u.tranches[r] = t.tranches[r]
      BY <1>2, <1>4, <2>3 DEF ClosesTaken
    <3>2. HasClose(Items(after.queued), r) <=> HasClose(Items(at.queued), r)
      BY <1>2, <2>3 DEF HasClose, ClosesTaken, CloseAction
    <3>3. t.tranches[r].state # "PENDING_ENTRY"
      BY DEF Mid, NoPending
    <3> QED BY <1>3, <2>1, <3>1, <3>2, <3>3 DEF MatchedFor, Kept, ClosesKnown
  <2> QED BY <2>2, <2>3
<1>9. ASSUME NEW a \in Items(after.queued)
      PROVE  Meant(a, u, held)
  <2>1. CASE a \in Items(at.queued)
    <3>1. Meant(a, t, held)
      BY <2>1 DEF Mid, Matched
    <3>2. a = OpenAction(a.role, t.side) => a.role \in TrancheRole
      BY <1>1, <2>1 DEF Ats, Items, Orders, Opens, Closes, OpenAction, CloseAction
    <3>3. a.kind = "CLOSE"
      BY <3>1, <3>2 DEF Meant, Mid, NoPending
    <3> QED BY <3>1, <3>3 DEF Meant, OpenAction
  <2>2. CASE a \notin Items(at.queued)
    <3>1. PICK r \in roles : a = CloseAction(r, t.tranches[r].quantity, why)
      BY <1>2, <2>2 DEF ClosesTaken
    <3>2. held[r].quantity = t.tranches[r].quantity
      BY <1>1 DEF Mid, Matched, MatchedFor, Kept
    <3> QED BY <3>1, <3>2 DEF Meant, CloseAction
  <2> QED BY <2>1, <2>2
<1>10. Matched(u, after, held, e)
  BY <1>2, <1>8, <1>9 DEF Matched, ClosesTaken
<1> QED BY <1>2, <1>3, <1>5, <1>7, <1>10, <1>11, <1>12 DEF Carried
\* To order nothing leaves everything as it was.
LEMMA IdleMid ==
    ASSUME NEW t, NEW at, NEW held, NEW e, Mid(t, at, held, e), NEW tr
    PROVE  Carried(Decision(t, <<>>), at, held, e, tr)
<1>1. RegisterBrackets(at, Decision(tr, <<>>), e) = at
  BY RegisterNone
<1>2. <<>> \in Seq(Actions)
  OBVIOUS
<1>3. Decision(t, <<>>).actions = <<>> /\ Decision(t, <<>>).trade = t
  BY DEF Decision
<1> QED BY <1>1, <1>2, <1>3, Zenon DEF Carried, Mid

\* What is matched by one bar is matched by the next.
LEMMA MatchedLater ==
    ASSUME NEW t \in Trades, NEW at, NEW held, NEW e \in Int, Matched(t, at, held, e - 1)
    PROVE  Matched(t, at, held, e)
<1>1. at.brackets \in [TrancheRole -> Brackets] /\ t.tranches \in [TrancheRole -> Tranches]
  BY DEF Matched, Ats, Trades
<1>2. ASSUME NEW r \in TrancheRole
      PROVE  MatchedFor(r, t, at.brackets, held, Items(at.queued), e)
  <2>1. MatchedFor(r, t, at.brackets, held, Items(at.queued), e - 1)
    BY DEF Matched
  <2>2. at.brackets[r].activeFrom \in Int /\ t.tranches[r].entryBar \in Int
    BY <1>1 DEF Brackets, Tranches
  <2>3. \A n \in Int : (n <= (e - 1) + 1 => n <= e + 1) /\ (n <= e - 1 => n <= e)
    OBVIOUS
  <2>4. Kept(t, r, at.brackets, held, e - 1) => Kept(t, r, at.brackets, held, e)
    BY <2>2, <2>3 DEF Kept
  <2> QED BY <2>1, <2>4 DEF MatchedFor
<1> QED BY <1>2 DEF Matched

MovesTo(after, at, role, price, i) ==
    /\ after \in Ats
    /\ after.queued = at.queued
    /\ \A r \in TrancheRole :
          IF r = role
          THEN after.brackets[r] =
                   [side |-> at.brackets[r].side, stopLoss |-> price,
                    takeProfit |-> at.brackets[r].takeProfit, activeFrom |-> i + 1,
                    breakeven |-> TRUE]
          ELSE after.brackets[r] = at.brackets[r]

\* A stop that is moved stays with its target and takes effect on the next bar.
LEMMA RegisterMove ==
    ASSUME NEW at \in Ats, NEW tr, NEW i \in Int, NEW role \in TrancheRole,
           NEW price \in Int, at.brackets[role] # NoBracket
    PROVE  MovesTo(Register(at, MoveStop(role, price), tr, i), at, role, price, i)
<1> PICK action : action = MoveStop(role, price)
  OBVIOUS
<1>1. action.kind = "MOVE_STOP" /\ action.role = role /\ action.stopLoss = price
  BY DEF MoveStop
<1>9. PICK b : b = [side |-> at.brackets[role].side, stopLoss |-> price,
                    takeProfit |-> at.brackets[role].takeProfit, activeFrom |-> i + 1,
                    breakeven |-> TRUE]
  OBVIOUS
<1>2. at.brackets \in [TrancheRole -> Brackets] /\ at.queued \in Seq(Orders)
  BY DEF Ats
<1>3. b \in Brackets
  BY <1>2, <1>9 DEF Brackets
<1>4. Register(at, action, tr, i) =
          [at EXCEPT !.brackets[role].stopLoss = price,
                     !.brackets[role].breakeven = TRUE,
                     !.brackets[role].activeFrom = i + 1]
  BY <1>1 DEF Register
<1>5. [at EXCEPT !.brackets[role].stopLoss = price,
                 !.brackets[role].breakeven = TRUE,
                 !.brackets[role].activeFrom = i + 1]
      = [brackets |-> [at.brackets EXCEPT ![role] = b], queued |-> at.queued]
  <2>11. PICK c \in Brackets : c = at.brackets[role]
    BY <1>2
  <2>12. PICK c1 : c1 = [c EXCEPT !.stopLoss = price]
    OBVIOUS
  <2>13. PICK c2 : c2 = [c1 EXCEPT !.breakeven = TRUE]
    OBVIOUS
  <2>14. PICK c3 : c3 = [c2 EXCEPT !.activeFrom = i + 1]
    OBVIOUS
  <2>1. c3 = b
    <3>2. c1 = [side |-> c.side, stopLoss |-> price, takeProfit |-> c.takeProfit,
                activeFrom |-> c.activeFrom, breakeven |-> c.breakeven]
      BY <2>12 DEF Brackets
    <3>3. c2 = [side |-> c.side, stopLoss |-> price, takeProfit |-> c.takeProfit,
                activeFrom |-> c.activeFrom, breakeven |-> TRUE]
      BY <2>13, <3>2
    <3>4. c3 = [side |-> c.side, stopLoss |-> price, takeProfit |-> c.takeProfit,
                activeFrom |-> i + 1, breakeven |-> TRUE]
      BY <2>14, <3>3
    <3> QED BY <1>9, <2>11, <3>4
  <2>15. PICK at1 : at1 = [at EXCEPT !.brackets[role].stopLoss = price]
    OBVIOUS
  <2>16. PICK at2 : at2 = [at1 EXCEPT !.brackets[role].breakeven = TRUE]
    OBVIOUS
  <2>2. at1 = [brackets |-> [at.brackets EXCEPT ![role] = c1], queued |-> at.queued]
    BY <1>2, <2>11, <2>12, <2>15 DEF Ats
  <2>3. at2 = [brackets |-> [at.brackets EXCEPT ![role] = c2], queued |-> at.queued]
    BY <1>2, <2>2, <2>13, <2>16
  <2>4. [at2 EXCEPT !.brackets[role].activeFrom = i + 1]
        = [brackets |-> [at.brackets EXCEPT ![role] = c3], queued |-> at.queued]
    BY <1>2, <2>3, <2>14
  <2>5. [at EXCEPT !.brackets[role].stopLoss = price,
                   !.brackets[role].breakeven = TRUE,
                   !.brackets[role].activeFrom = i + 1]
        = [at2 EXCEPT !.brackets[role].activeFrom = i + 1]
    BY <2>15, <2>16
  <2> QED BY <2>1, <2>4, <2>5
<1>6. [at.brackets EXCEPT ![role] = b] \in [TrancheRole -> Brackets]
  BY <1>2, <1>3
<1>7. PICK after : after = Register(at, action, tr, i)
  OBVIOUS
<1>8. after = [brackets |-> [at.brackets EXCEPT ![role] = b], queued |-> at.queued]
  BY <1>4, <1>5, <1>7
<1>10. after \in Ats /\ after.queued = at.queued
      /\ after.brackets = [at.brackets EXCEPT ![role] = b]
  BY <1>2, <1>6, <1>8 DEF Ats
<1>11. MovesTo(after, at, role, price, i)
  BY <1>2, <1>9, <1>10 DEF MovesTo
<1> QED BY <1>7, <1>11
------------------------------------------------------------------------------
(* The decisions of a close, one after the other.                            *)

Bars    == [open : Int, high : Int, low : Int, close : Int]
Signals == [index : Int, side : SideOrNone, stop : Int, hullFlip : {"NONE", "UP", "DOWN"}]

\* After its first bar a tranche whose target the bar touches has been closed by
\* the broker.
Quiet(t, b, i) ==
    LET fixed  == t.tranches["T1"]
        runner == t.tranches["T2"]
    IN  fixed.state = "OPEN" /\ i > runner.entryBar =>
            ~(fixed.takeProfit # 0 /\ Touched(runner.side, fixed.takeProfit, b))

\* The breakeven stop reaches the bracket as it reaches the trade.
LEMMA BreakevenMid ==
    ASSUME NEW t, NEW at, NEW held, NEW e \in Int, Mid(t, at, held, e),
           NEW b, NEW signal, Quiet(t, b, signal.index), NEW tr
    PROVE  /\ Carried(ApplyBreakeven(t, b, signal), at, held, e, tr)
           /\ NoPending(ApplyBreakeven(t, b, signal).trade)
<1> PICK d : d = ApplyBreakeven(t, b, signal)
  OBVIOUS
<1>13. PICK runner : runner = t.tranches["T2"]
  OBVIOUS
<1>14. PICK fixed : fixed = t.tranches["T1"]
  OBVIOUS
<1>1. CASE d = Decision(t, <<>>)
  <2>1. Carried(Decision(t, <<>>), at, held, e, tr) /\ NoPending(t)
    BY IdleMid DEF Mid
  <2> QED BY <1>1, <2>1 DEF Decision
<1>2. CASE d # Decision(t, <<>>)
  <2>1. /\ runner.state = "OPEN" /\ ~runner.breakevenMoved
        /\ fixed.takeProfit # 0
        /\ signal.index > runner.entryBar
        /\ Touched(runner.side, fixed.takeProfit, b)
        /\ d = Decision([t EXCEPT !.tranches["T2"].stopLoss = runner.entryPrice,
                                  !.tranches["T2"].breakevenMoved = TRUE],
                        <<MoveStop("T2", runner.entryPrice)>>)
    BY <1>2, <1>13, <1>14, Zenon DEF ApplyBreakeven
  <2>2. fixed.state = "CLOSED" /\ fixed.closeReason = "TAKE_PROFIT"
    <3>1. fixed.state # "OPEN"
      BY <1>13, <1>14, <2>1 DEF Quiet
    <3> QED BY <1>13, <1>14, <2>1, <3>1 DEF Mid, Sound
  <2>3. /\ t \in Trades /\ at \in Ats /\ "T1" \in TrancheRole /\ "T2" \in TrancheRole
        /\ runner \in Tranches /\ fixed \in Tranches
    BY <1>13, <1>14 DEF Mid, Sound, Matched, Trades, TrancheRole
  <2>4. PICK price \in Int : price = runner.entryPrice
    BY <2>3 DEF Tranches
  <2>15. PICK u : u = d.trade
    OBVIOUS
  <2>16. PICK moved : moved = [runner EXCEPT !.stopLoss = price, !.breakevenMoved = TRUE]
    OBVIOUS
  <2>17. /\ moved \in Tranches
         /\ moved.side = runner.side /\ moved.state = runner.state
         /\ moved.quantity = runner.quantity /\ moved.entryPrice = price
         /\ moved.stopLoss = price /\ moved.takeProfit = runner.takeProfit
         /\ moved.entryBar = runner.entryBar /\ moved.breakevenMoved = TRUE
         /\ moved.closeReason = runner.closeReason
    BY <2>3, <2>4, <2>16 DEF Tranches
  <2>5. /\ u \in Trades /\ u.side = t.side
        /\ u.tranches["T1"] = fixed /\ u.tranches["T2"] = moved
    <3>1. u = [[t EXCEPT !.tranches["T2"].stopLoss = price]
                   EXCEPT !.tranches["T2"].breakevenMoved = TRUE]
      BY <2>1, <2>4, <2>15 DEF Decision
    <3>2. PICK t1 : t1 = [t EXCEPT !.tranches["T2"].stopLoss = price]
      OBVIOUS
    <3>3. PICK m1 : m1 = [runner EXCEPT !.stopLoss = price]
      OBVIOUS
    <3>4. t.tranches \in [TrancheRole -> Tranches]
      BY <2>3 DEF Trades
    <3>5. t1 = [side |-> t.side, pendingStop |-> t.pendingStop,
                referenceClose |-> t.referenceClose,
                tranches |-> [t.tranches EXCEPT !["T2"] = m1]]
      BY <1>13, <2>3, <3>2, <3>3, <3>4 DEF Trades
    <3>6. moved = [m1 EXCEPT !.breakevenMoved = TRUE]
      BY <2>16, <3>3
    <3>7. u = [side |-> t.side, pendingStop |-> t.pendingStop,
               referenceClose |-> t.referenceClose,
               tranches |-> [t.tranches EXCEPT !["T2"] = moved]]
      <4>1. u = [t1 EXCEPT !.tranches["T2"].breakevenMoved = TRUE]
        BY <3>1, <3>2
      <4> QED BY <2>3, <3>4, <3>5, <3>6, <4>1
    <3>8. [t.tranches EXCEPT !["T2"] = moved] \in [TrancheRole -> Tranches]
      BY <2>17, <3>4
    <3>9. u \in Trades
      BY <2>3, <3>7, <3>8 DEF Trades
    <3> QED BY <1>14, <2>3, <3>4, <3>7, <3>9
  <2>6. NoPending(u)
    BY <1>13, <1>14, <2>5, <2>17 DEF Mid, NoPending, TrancheRole
  <2>7. Sound(u)
    <3>1. /\ runner.side = t.side /\ fixed.side = t.side
          /\ ~fixed.breakevenMoved /\ runner.takeProfit = 0
          /\ t.side \in OrderSide
      BY <1>13, <1>14, <2>1, <2>3 DEF Mid, Sound, Live
    <3>2. ASSUME NEW r \in TrancheRole
          PROVE  /\ u.tranches[r].side = u.side
                 /\ r \in Live(u) => u.side \in OrderSide
                 /\ r \in Pending(u) => ~u.tranches[r].breakevenMoved
      <4>1. r = "T1" \/ r = "T2"
        BY DEF TrancheRole
      <4>2. r \notin Pending(u)
        BY <2>6 DEF NoPending, Pending
      <4> QED BY <2>5, <2>17, <3>1, <4>1, <4>2
    <3>3. fixed.state # "PENDING_ENTRY" /\ moved.state # "PENDING_ENTRY"
      BY <2>1, <2>2, <2>17
    <3> QED BY <2>2, <2>5, <2>17, <3>1, <3>2, <3>3 DEF Sound
  <2>8. Kept(t, "T2", at.brackets, held, e)
    BY <1>13, <2>1, <2>3 DEF Mid, Matched, MatchedFor
  <2>18. PICK after : after = RegisterBrackets(at, Decision(tr, <<MoveStop("T2", price)>>), e)
    OBVIOUS
  <2>9. MovesTo(after, at, "T2", price, e)
    <3>1. at.brackets["T2"] # NoBracket
      BY <2>8 DEF Kept, NoBracket, OrderSide
    <3>2. MovesTo(Register(at, MoveStop("T2", price), tr, e), at, "T2", price, e)
      BY <2>3, <3>1, RegisterMove
    <3> QED BY <2>18, <3>2, RegisterOne
  <2>10. ASSUME NEW r \in TrancheRole
         PROVE  MatchedFor(r, u, after.brackets, held, Items(after.queued), e)
    <3>1. MatchedFor(r, t, at.brackets, held, Items(at.queued), e)
      BY DEF Mid, Matched
    <3>2. after.queued = at.queued
      BY <2>9 DEF MovesTo
    <3>3. CASE r = "T2"
      <4>1. /\ after.brackets["T2"].side = at.brackets["T2"].side
            /\ after.brackets["T2"].stopLoss = price
            /\ after.brackets["T2"].takeProfit = at.brackets["T2"].takeProfit
            /\ after.brackets["T2"].activeFrom = e + 1
            /\ after.brackets["T2"].breakeven = TRUE
        <5>1. after.brackets["T2"] =
                  [side |-> at.brackets["T2"].side, stopLoss |-> price,
                   takeProfit |-> at.brackets["T2"].takeProfit, activeFrom |-> e + 1,
                   breakeven |-> TRUE]
          BY <2>3, <2>9, Zenon DEF MovesTo
        <5> QED BY <5>1
      <4>2. Kept(u, "T2", after.brackets, held, e)
        <5>1. /\ t.side \in OrderSide
              /\ held["T2"].side = t.side /\ held["T2"].price = runner.entryPrice
              /\ held["T2"].quantity = runner.quantity
              /\ at.brackets["T2"].side = t.side
              /\ at.brackets["T2"].takeProfit = runner.takeProfit
              /\ runner.entryBar <= e /\ runner.quantity # 0
          BY <1>13, <2>8 DEF Kept
        <5>2. e + 1 <= e + 1
          OBVIOUS
        <5> QED BY <2>4, <2>5, <2>17, <4>1, <5>1, <5>2, Zenon DEF Kept
      <4> QED BY <1>13, <2>1, <2>5, <2>17, <3>1, <3>2, <3>3, <4>2 DEF MatchedFor
    <3>4. CASE r # "T2"
      <4>1. r = "T1"
        BY <3>4 DEF TrancheRole
      <4>2. after.brackets[r] = at.brackets[r]
        BY <2>9, <3>4 DEF MovesTo
      <4> QED BY <1>14, <2>2, <2>5, <3>1, <3>2, <4>1, <4>2 DEF MatchedFor
    <3> QED BY <3>3, <3>4
  <2>11. ASSUME NEW a \in Items(after.queued)
         PROVE  Meant(a, u, held)
    <3>1. a \in Items(at.queued)
      BY <2>9 DEF MovesTo
    <3>2. Meant(a, t, held)
      BY <3>1 DEF Mid, Matched
    <3>3. a.role \in TrancheRole
      BY <2>3, <3>1 DEF Ats, Items, Orders, Opens, Closes, OpenAction, CloseAction
    <3> QED BY <3>2, <3>3 DEF Meant, Mid, NoPending
  <2>12. Matched(u, after, held, e)
    BY <2>9, <2>10, <2>11 DEF Matched, MovesTo
  <2>13. d.actions = <<MoveStop("T2", price)>> /\ d.actions \in Seq(Actions)
    <3>1. d.actions = <<MoveStop("T2", price)>>
      BY <2>1, <2>4 DEF Decision
    <3>2. MoveStop("T2", price) \in Actions
      BY <2>3 DEF Actions, Moves
    <3> QED BY <3>1, <3>2
  <2> QED BY <2>6, <2>7, <2>12, <2>13, <2>15, <2>18 DEF Carried
<1> QED BY <1>1, <1>2
\* The Hull exit closes the runner and leaves the other tranche alone.
LEMMA HullMid ==
    ASSUME NEW t, NEW at, NEW held, NEW e, Mid(t, at, held, e), NEW signal, NEW tr
    PROVE  /\ Carried(ApplyHullExit(t, signal), at, held, e, tr)
           /\ NoPending(ApplyHullExit(t, signal).trade)
<1> PICK d : d = ApplyHullExit(t, signal)
  OBVIOUS
<1>1. CASE d = Decision(t, <<>>)
  <2>1. Carried(Decision(t, <<>>), at, held, e, tr) /\ NoPending(t)
    BY IdleMid DEF Mid
  <2> QED BY <1>1, <2>1 DEF Decision
<1>2. CASE d # Decision(t, <<>>)
  <2>1. t.tranches["T2"].state = "OPEN" /\ d = CloseAll(t, {"T2"}, "HULL_FLIP")
    BY <1>2, Zenon DEF ApplyHullExit
  <2>2. {"T2"} \subseteq Live(t)
    BY <2>1 DEF Live, TrancheRole
  <2>3. PICK why \in CloseReason : why = "HULL_FLIP"
    BY DEF CloseReason
  <2>4. PICK roles : roles = {"T2"}
    OBVIOUS
  <2>5. roles \subseteq Live(t) /\ "T2" \in roles
    BY <2>2, <2>4
  <2>6. /\ Carried(CloseAll(t, roles, why), at, held, e, tr)
        /\ NoPending(CloseAll(t, roles, why).trade)
    BY <2>5, CloseAllMid
  <2> QED BY <2>1, <2>3, <2>4, <2>6
<1> QED BY <1>1, <1>2

\* To close no tranche changes nothing.
LEMMA CloseNone ==
    ASSUME NEW t \in Trades, NEW why
    PROVE  CloseAll(t, {}, why) = Decision(t, <<>>)
<1>1. PICK after : after = [r \in TrancheRole |->
                 IF r \in {}
                 THEN [t.tranches[r] EXCEPT !.state = "CLOSED", !.closeReason = why]
                 ELSE t.tranches[r]]
  OBVIOUS
<1>2. after = t.tranches
  BY <1>1 DEF Trades
<1>3. [t EXCEPT !.tranches = after] = t
  BY <1>2 DEF Trades
<1>4. <<>> \o <<>> = <<>>
  OBVIOUS
<1>5. Each({}, LAMBDA r : CloseAction(r, t.tranches[r].quantity, why)) = <<>>
  BY <1>4, Zenon DEF Each
<1>6. CloseAll(t, {}, why) =
          Decision([t EXCEPT !.tranches = after],
                   Each({}, LAMBDA r : CloseAction(r, t.tranches[r].quantity, why)))
  BY <1>1, Zenon DEF CloseAll
<1> QED BY <1>3, <1>5, <1>6, Zenon

\* What stands against a signal is closed, be it everything or nothing.
LEMMA ReversalMid ==
    ASSUME NEW t, NEW at, NEW held, NEW e, Mid(t, at, held, e), NEW side, NEW tr
    PROVE  /\ Carried(CloseAll(t, Against(t, side), "REVERSAL"), at, held, e, tr)
           /\ NoPending(CloseAll(t, Against(t, side), "REVERSAL").trade)
<1>1. t \in Trades /\ \A r \in TrancheRole : t.tranches[r].side = t.side
  BY DEF Mid, Sound
<1>2. PICK roles : roles = Against(t, side)
  OBVIOUS
<1>3. PICK why \in CloseReason : why = "REVERSAL"
  BY DEF CloseReason
<1>4. CASE t.side = side
  <2>1. roles = {}
    BY <1>1, <1>2, <1>4 DEF Against, Live
  <2>2. CloseAll(t, Against(t, side), "REVERSAL") = Decision(t, <<>>)
    BY <1>1, <1>2, <2>1, CloseNone
  <2>3. Carried(Decision(t, <<>>), at, held, e, tr) /\ NoPending(t)
    BY IdleMid DEF Mid
  <2> QED BY <2>2, <2>3 DEF Decision
<1>5. CASE t.side # side
  <2>1. roles = Live(t)
    BY <1>1, <1>2, <1>5 DEF Against, Live
  <2>2. roles \subseteq Live(t) /\ ("T2" \in Live(t) => "T2" \in roles)
    BY <2>1
  <2>3. /\ Carried(CloseAll(t, roles, why), at, held, e, tr)
        /\ NoPending(CloseAll(t, roles, why).trade)
    BY <2>2, CloseAllMid
  <2> QED BY <1>2, <1>3, <2>3
<1> QED BY <1>4, <1>5

\* The two entries, as the brackets and the queue show them.
OpensTaken(after, at, side) ==
    /\ after \in Ats
    /\ after.brackets = at.brackets
    /\ Items(after.queued) = Items(at.queued) \cup {OpenAction(r, side) : r \in TrancheRole}

\* What ordering both tranches does to the brackets and the queue.
LEMMA EnteredRegisters ==
    ASSUME NEW at \in Ats, NEW b, NEW signal \in Signals, NEW tr, NEW i
    PROVE  LET actions == Entered(b, signal).actions
           IN  /\ actions \in Seq(Actions)
               /\ OpensTaken(RegisterBrackets(at, Decision(tr, actions), i), at, signal.side)
<1>1. PICK side \in SideOrNone : side = signal.side
  BY DEF Signals
<1>2. PICK first : first = OpenAction("T1", side)
  OBVIOUS
<1>3. PICK second : second = OpenAction("T2", side)
  OBVIOUS
<1>4. first \in Actions /\ second \in Actions /\ "T1" \in TrancheRole /\ "T2" \in TrancheRole
  BY <1>2, <1>3 DEF Actions, Orders, Opens, TrancheRole
<1>5. PICK actions : actions = Entered(b, signal).actions
  OBVIOUS
<1>6. actions = Pair(TrancheRole, first, second)
  BY <1>1, <1>2, <1>3, <1>5, Zenon DEF Entered, Each, Decision, Pair
<1>7. actions \in Seq(Actions)
  BY <1>4, <1>6 DEF Pair
<1>8. PICK mid : mid = Register(at, first, tr, i)
  OBVIOUS
<1>9. PICK after : after = Register(mid, second, tr, i)
  OBVIOUS
<1>10. RegisterBrackets(at, Decision(tr, actions), i) = after
  <2>1. RegisterBrackets(at, Decision(tr, Pair(TrancheRole, first, second)), i) =
            Rounds(at, TrancheRole, first, second, tr, i)
    BY <1>4, RegisterTwo
  <2> QED BY <1>4, <1>6, <1>8, <1>9, <2>1 DEF Rounds
<1>11. /\ mid \in Ats
       /\ mid.brackets = at.brackets
       /\ Items(mid.queued) = Items(at.queued) \cup {first}
  <2>1. Queues(mid, at, first)
    BY <1>2, <1>4, <1>8, RegisterOpen
  <2> QED BY <2>1 DEF Queues
<1>12. /\ after \in Ats
       /\ after.brackets = mid.brackets
       /\ Items(after.queued) = Items(mid.queued) \cup {second}
  <2>1. Queues(after, mid, second)
    BY <1>3, <1>4, <1>9, <1>11, RegisterOpen
  <2> QED BY <2>1 DEF Queues
<1>13. {OpenAction(r, side) : r \in TrancheRole} = {first, second}
  BY <1>2, <1>3 DEF TrancheRole
<1>14. OpensTaken(after, at, side)
  BY <1>11, <1>12, <1>13 DEF OpensTaken
<1> QED BY <1>1, <1>5, <1>7, <1>10, <1>14
\* Once nothing is alive both tranches may be ordered.
LEMMA EnteredMatched ==
    ASSUME NEW t, NEW at, NEW held, NEW e, Mid(t, at, held, e), IsFlat(t),
           NEW b \in Bars, NEW signal \in Signals, signal.side # "NONE", NEW after,
           OpensTaken(after, at, signal.side)
    PROVE  /\ Sound(Entered(b, signal).trade)
           /\ Matched(Entered(b, signal).trade, after, held, e)
<1>1. PICK side \in OrderSide : side = signal.side
  BY DEF Signals, SideOrNone
<1>2. PICK u : u = Entered(b, signal).trade
  OBVIOUS
<1>3. PICK waiting : waiting = [NoTranche EXCEPT !.side = side, !.state = "PENDING_ENTRY"]
  OBVIOUS
<1>4. /\ waiting \in Tranches /\ waiting.side = side /\ waiting.state = "PENDING_ENTRY"
      /\ waiting.breakevenMoved = FALSE /\ waiting.takeProfit = 0
  <2>1. waiting = [side |-> side, state |-> "PENDING_ENTRY", quantity |-> 0, entryPrice |-> 0,
                   stopLoss |-> 0, takeProfit |-> 0, entryBar |-> 0,
                   breakevenMoved |-> FALSE, closeReason |-> "NONE"]
    BY <1>3 DEF NoTranche
  <2> QED BY <2>1 DEF Tranches, SideOrNone
<1>5. u = [side |-> side, pendingStop |-> signal.stop, referenceClose |-> b.close,
           tranches |-> [r \in TrancheRole |-> waiting]]
  BY <1>1, <1>2, <1>3, Zenon DEF Entered, Decision
<1>6. /\ u \in Trades /\ u.side = side
      /\ \A r \in TrancheRole : u.tranches[r] = waiting
  BY <1>4, <1>5 DEF Trades, Signals, Bars, SideOrNone
<1>7. Sound(u)
  <2>1. "T1" \in TrancheRole /\ "T2" \in TrancheRole
    BY DEF TrancheRole
  <2>2. u.tranches["T1"] = waiting /\ u.tranches["T2"] = waiting
    BY <1>6, <2>1
  <2>3. waiting.state # "OPEN" /\ ~waiting.breakevenMoved
    BY <1>4
  <2>4. ASSUME NEW r \in TrancheRole
        PROVE  /\ u.tranches[r].side = u.side
               /\ r \in Live(u) => u.side \in OrderSide
               /\ r \in Pending(u) => ~u.tranches[r].breakevenMoved
    BY <1>4, <1>6
  <2> QED BY <1>4, <1>6, <2>2, <2>3, <2>4 DEF Sound
<1>8. ASSUME NEW r \in TrancheRole
      PROVE  MatchedFor(r, u, after.brackets, held, Items(after.queued), e)
  <2>1. MatchedFor(r, t, at.brackets, held, Items(at.queued), e)
    BY DEF Mid, Matched
  <2>2. t.tranches[r].state # "OPEN"
    BY DEF IsFlat, Live
  <2>3. /\ after.brackets = at.brackets
        /\ Items(after.queued) = Items(at.queued) \cup {OpenAction(x, side) : x \in TrancheRole}
    BY <1>1 DEF OpensTaken
  <2>4. HasClose(Items(after.queued), r) <=> HasClose(Items(at.queued), r)
    BY <2>3 DEF HasClose, OpenAction
  <2>5. OpenAction(r, u.side) \in Items(after.queued)
    BY <1>6, <2>3
  <2>6. u.tranches[r].state = "PENDING_ENTRY"
    BY <1>4, <1>6
  <2> QED BY <2>1, <2>2, <2>3, <2>4, <2>5, <2>6 DEF MatchedFor
<1>9. ASSUME NEW a \in Items(after.queued)
      PROVE  Meant(a, u, held)
  <2>1. CASE a \in Items(at.queued)
    <3>1. Meant(a, t, held)
      BY <2>1 DEF Mid, Matched
    <3>2. a.role \in TrancheRole
      BY <2>1 DEF Mid, Matched, Ats, Items, Orders, Opens, Closes, OpenAction, CloseAction
    <3> QED BY <3>1, <3>2 DEF Meant, Mid, NoPending
  <2>2. CASE a \notin Items(at.queued)
    <3>1. PICK r \in TrancheRole : a = OpenAction(r, side)
      BY <1>1, <2>2 DEF OpensTaken
    <3>2. a.role = r
      BY <3>1 DEF OpenAction
    <3>3. u.tranches[r].state = "PENDING_ENTRY"
      BY <1>4, <1>6
    <3> QED BY <1>6, <3>1, <3>2, <3>3 DEF Meant
  <2> QED BY <2>1, <2>2
<1>10. Matched(u, after, held, e)
  BY <1>8, <1>9 DEF Matched, OpensTaken
<1> QED BY <1>2, <1>7, <1>10

\* A signal turns the trade and what the broker holds for it alike.
LEMMA SignalCarried ==
    ASSUME NEW t, NEW at, NEW held, NEW e, Mid(t, at, held, e),
           NEW b \in Bars, NEW signal \in Signals, NEW tr
    PROVE  Carried(ApplySignal(t, b, signal), at, held, e, tr)
<1>1. PICK left : left = CloseAll(t, Against(t, signal.side), "REVERSAL")
  OBVIOUS
<1>2. Carried(left, at, held, e, tr) /\ NoPending(left.trade)
  BY <1>1, ReversalMid
<1>3. CASE signal.side = "NONE"
  <2>1. Carried(Decision(t, <<>>), at, held, e, tr)
    BY IdleMid
  <2>2. ApplySignal(t, b, signal) = Decision(t, <<>>)
    BY <1>3, Zenon DEF ApplySignal
  <2> QED BY <2>1, <2>2
<1>4. CASE signal.side # "NONE" /\ (~IsFlat(left.trade) \/ signal.stop = 0)
  <2>1. ApplySignal(t, b, signal) = left
    BY <1>1, <1>4, Zenon DEF ApplySignal
  <2> QED BY <1>2, <2>1
<1>5. CASE signal.side # "NONE" /\ IsFlat(left.trade) /\ signal.stop # 0
  <2>1. PICK mid : mid = RegisterBrackets(at, Decision(tr, left.actions), e)
    OBVIOUS
  <2>2. /\ Mid(left.trade, mid, held, e) /\ mid \in Ats
        /\ left.actions \in Seq(Actions)
    BY <1>2, <2>1 DEF Carried, Mid, Matched
  <2>3. PICK opens : opens = Entered(b, signal).actions
    OBVIOUS
  <2>4. PICK after : after = RegisterBrackets(mid, Decision(tr, opens), e)
    OBVIOUS
  <2>5. opens \in Seq(Actions) /\ OpensTaken(after, mid, signal.side)
    BY <2>2, <2>3, <2>4, EnteredRegisters
  <2>6. /\ Sound(Entered(b, signal).trade)
        /\ Matched(Entered(b, signal).trade, after, held, e)
    BY <1>5, <2>2, <2>5, EnteredMatched
  <2>7. after = RegisterBrackets(at, Decision(tr, left.actions \o opens), e)
    BY <2>1, <2>2, <2>4, <2>5, RegisterConcat
  <2>8. /\ ApplySignal(t, b, signal).trade = Entered(b, signal).trade
        /\ ApplySignal(t, b, signal).actions = left.actions \o opens
    <3>1. ApplySignal(t, b, signal) = [Entered(b, signal) EXCEPT !.actions = left.actions \o @]
      BY <1>1, <1>5, Zenon DEF ApplySignal
    <3>2. PICK n : n = Entered(b, signal)
      OBVIOUS
    <3>3. PICK waiting : waiting = n.trade
      OBVIOUS
    <3>4. n = [trade |-> waiting, actions |-> opens]
      BY <2>3, <3>2, <3>3 DEF Entered, Decision
    <3>5. PICK both : both = left.actions \o opens
      OBVIOUS
    <3>6. [n EXCEPT !.actions = left.actions \o @] = [n EXCEPT !.actions = both]
      BY <2>3, <3>2, <3>5, Zenon
    <3>7. [n EXCEPT !.actions = both] = [trade |-> waiting, actions |-> both]
      BY <3>4
    <3> QED BY <3>1, <3>2, <3>3, <3>5, <3>6, <3>7
  <2>9. left.actions \o opens \in Seq(Actions)
    BY <2>2, <2>5
  <2> QED BY <2>6, <2>7, <2>8, <2>9, Zenon DEF Carried
<1> QED BY <1>3, <1>4, <1>5

\* Two decisions, one after the other, are registered as one.
LEMMA CarriedBoth ==
    ASSUME NEW at, NEW held, NEW e, NEW tr,
           NEW first, Carried(first, at, held, e, tr), NEW second,
           Carried(second, RegisterBrackets(at, Decision(tr, first.actions), e), held, e, tr)
    PROVE  Carried(Decision(second.trade, first.actions \o second.actions), at, held, e, tr)
<1>1. PICK both : both = first.actions \o second.actions
  OBVIOUS
<1>2. first.actions \in Seq(Actions) /\ second.actions \in Seq(Actions)
  BY DEF Carried
<1>3. both \in Seq(Actions)
  BY <1>1, <1>2
<1>4. RegisterBrackets(at, Decision(tr, both), e) =
          RegisterBrackets(RegisterBrackets(at, Decision(tr, first.actions), e),
                           Decision(tr, second.actions), e)
  BY <1>1, <1>2, RegisterConcat
<1>5. /\ Decision(second.trade, both).trade = second.trade
      /\ Decision(second.trade, both).actions = both
  BY DEF Decision
<1> QED BY <1>1, <1>3, <1>4, <1>5, Zenon DEF Carried

\* So do the three decisions of a close together.
LEMMA OnBarCloseCarried ==
    ASSUME NEW t, NEW at, NEW held, NEW e \in Int, Mid(t, at, held, e),
           NEW b \in Bars, NEW signal \in Signals, Quiet(t, b, signal.index), NEW tr
    PROVE  Carried(OnBarClose(t, b, signal), at, held, e, tr)
<1>1. PICK moved : moved = ApplyBreakeven(t, b, signal)
  OBVIOUS
<1>2. PICK exited : exited = ApplyHullExit(moved.trade, signal)
  OBVIOUS
<1>3. PICK turned : turned = ApplySignal(exited.trade, b, signal)
  OBVIOUS
<1>4. PICK at1 : at1 = RegisterBrackets(at, Decision(tr, moved.actions), e)
  OBVIOUS
<1>5. PICK at2 : at2 = RegisterBrackets(at1, Decision(tr, exited.actions), e)
  OBVIOUS
<1>6. Carried(moved, at, held, e, tr) /\ NoPending(moved.trade)
  BY <1>1, BreakevenMid
<1>7. Mid(moved.trade, at1, held, e)
  BY <1>4, <1>6 DEF Carried, Mid
<1>8. Carried(exited, at1, held, e, tr) /\ NoPending(exited.trade)
  BY <1>2, <1>7, HullMid
<1>9. Mid(exited.trade, at2, held, e)
  BY <1>5, <1>8 DEF Carried, Mid
<1>10. Carried(turned, at2, held, e, tr)
  BY <1>3, <1>9, SignalCarried
<1>11. PICK two : two = Decision(exited.trade, moved.actions \o exited.actions)
  OBVIOUS
<1>12. Carried(two, at, held, e, tr)
  BY <1>4, <1>6, <1>8, <1>11, CarriedBoth
<1>13. two.actions = moved.actions \o exited.actions
  BY <1>11 DEF Decision
<1>14. RegisterBrackets(at, Decision(tr, two.actions), e) = at2
  <2>1. moved.actions \in Seq(Actions) /\ exited.actions \in Seq(Actions)
    BY <1>6, <1>8 DEF Carried
  <2> QED BY <1>4, <1>5, <1>13, <2>1, RegisterConcat
<1>15. Carried(Decision(turned.trade, two.actions \o turned.actions), at, held, e, tr)
  BY <1>10, <1>12, <1>14, CarriedBoth
<1>16. OnBarClose(t, b, signal) =
           Decision(turned.trade, moved.actions \o exited.actions \o turned.actions)
  BY <1>1, <1>2, <1>3, Zenon DEF OnBarClose
<1> QED BY <1>13, <1>15, <1>16
------------------------------------------------------------------------------
(* The decision on a fill.                                                   *)

\* Both tranches have been filled at this bar's open and wait to hear of it.
Filling(t, at, held, price, e, q) ==
    /\ Sound(t) /\ at \in Ats /\ at.queued = <<>>
    /\ price \in Int /\ q \in Int \ {0}
    /\ \A r \in TrancheRole :
          /\ t.tranches[r].state = "PENDING_ENTRY"
          /\ at.brackets[r] = NoBracket
          /\ held[r] = [side |-> t.side, price |-> price, quantity |-> q, bar |-> e]

\* The trade with its quantities.
LEMMA WithQuantityIs ==
    ASSUME NEW t \in Trades, NEW q \in Int,
           \A r \in TrancheRole : t.tranches[r].state = "PENDING_ENTRY"
    PROVE  WithQuantity(t, q) =
               [side |-> t.side, pendingStop |-> t.pendingStop,
                referenceClose |-> t.referenceClose,
                tranches |-> [r \in TrancheRole |-> [t.tranches[r] EXCEPT !.quantity = q]]]
<1>1. PICK given : given = t.tranches
  OBVIOUS
<1>2. \A r \in TrancheRole : r \in Pending(t)
  BY DEF Pending
<1>3. PICK after : after = [r \in TrancheRole |->
          IF r \in Pending(t) THEN [given[r] EXCEPT !.quantity = q] ELSE given[r]]
  OBVIOUS
<1>4. WithQuantity(t, q) = [t EXCEPT !.tranches = after]
  BY <1>1, <1>3, Zenon DEF WithQuantity
<1>5. after = [r \in TrancheRole |-> [given[r] EXCEPT !.quantity = q]]
  BY <1>2, <1>3
<1>6. [t EXCEPT !.tranches = after] =
          [side |-> t.side, pendingStop |-> t.pendingStop,
           referenceClose |-> t.referenceClose, tranches |-> after]
  BY DEF Trades
<1> QED BY <1>1, <1>4, <1>5, <1>6

\* Nothing is known of no trade.
LEMMA NoTradeIs ==
    /\ Sound(NoTrade) /\ NoPending(NoTrade) /\ NoTrade \in Trades
    /\ \A r \in TrancheRole : NoTrade.tranches[r].state = "ABSENT"
<1>1. NoTranche \in Tranches
  BY DEF NoTranche, Tranches, SideOrNone
<1>2. \A r \in TrancheRole : NoTrade.tranches[r] = NoTranche
  BY DEF NoTrade
<1>3. NoTrade \in Trades
  BY <1>1 DEF NoTrade, Trades, SideOrNone
<1>4. /\ NoTranche.side = "NONE" /\ NoTranche.state = "ABSENT"
      /\ NoTranche.breakevenMoved = FALSE /\ NoTranche.takeProfit = 0
  BY DEF NoTranche
<1>5. NoTrade.side = "NONE" /\ "T1" \in TrancheRole /\ "T2" \in TrancheRole
  BY DEF NoTrade, TrancheRole
<1>6. Live(NoTrade) = {} /\ Pending(NoTrade) = {}
  BY <1>2, <1>4 DEF Live, Pending
<1> QED BY <1>2, <1>3, <1>4, <1>5, <1>6 DEF Sound, NoPending

\* An entry that is given up right after its fill is closed at the next open.
LEMMA AbortCarried ==
    ASSUME NEW t, NEW at, NEW held, NEW price, NEW e, NEW q,
           Filling(t, at, held, price, e, q), NEW why \in CloseReason
    PROVE  LET d == AbortEntry(WithQuantity(t, q), why)
           IN  Carried(d, at, held, e, d.trade) /\ d.trade = NoTrade
<1>1. PICK w : w = WithQuantity(t, q)
  OBVIOUS
<1>2. /\ t \in Trades /\ at \in Ats /\ Items(at.queued) = {} /\ q \in Int /\ t.side \in OrderSide
      /\ \A r \in TrancheRole : t.tranches[r].state = "PENDING_ENTRY"
  BY DEF Filling, Sound, Items, Live, TrancheRole
<1>3. ASSUME NEW r \in TrancheRole
      PROVE  /\ w.tranches[r] \in Tranches /\ w.tranches[r].quantity = q
             /\ w.tranches[r].state = "PENDING_ENTRY"
  <2>1. t.tranches[r] \in Tranches
    BY <1>2 DEF Trades
  <2>2. w.tranches[r] = [t.tranches[r] EXCEPT !.quantity = q]
    BY <1>1, <1>2, WithQuantityIs
  <2> QED BY <1>2, <2>1, <2>2 DEF Tranches
<1>4. w \in Trades
  <2>1. w.tranches = [r \in TrancheRole |-> w.tranches[r]]
    BY <1>1, <1>2, WithQuantityIs
  <2>2. w.tranches \in [TrancheRole -> Tranches]
    BY <1>3, <2>1
  <2>3. w = [side |-> t.side, pendingStop |-> t.pendingStop,
             referenceClose |-> t.referenceClose, tranches |-> w.tranches]
    BY <1>1, <1>2, WithQuantityIs
  <2> QED BY <1>2, <2>2, <2>3 DEF Trades
<1>5. PICK roles : roles = Live(w)
  OBVIOUS
<1>6. \A r : r \in roles <=> r \in TrancheRole
  BY <1>3, <1>5 DEF Live
<1>7. PICK gone : gone = CloseAll(w, roles, why)
  OBVIOUS
<1>8. PICK after : after = RegisterBrackets(at, Decision(NoTrade, gone.actions), e)
  OBVIOUS
<1>9. gone.actions \in Seq(Actions) /\ ClosesTaken(after, at, w, roles, why)
  BY <1>2, <1>4, <1>7, <1>8, CloseAllRegisters
<1>10. ClosesKnown(gone.trade, w, roles, why)
  BY <1>4, <1>7, CloseAllTrade
<1>11. IsFlat(gone.trade)
  <2>1. ASSUME NEW r \in TrancheRole PROVE gone.trade.tranches[r].state = "CLOSED"
    <3>1. gone.trade.tranches[r] = [w.tranches[r] EXCEPT !.state = "CLOSED",
                                                         !.closeReason = why]
      BY <1>6, <1>10 DEF ClosesKnown
    <3> QED BY <1>3, <3>1 DEF Tranches
  <2> QED BY <2>1 DEF IsFlat, Live
<1>12. AbortEntry(w, why) = Decision(NoTrade, gone.actions)
  BY <1>5, <1>7, <1>11, Zenon DEF AbortEntry, FlattenIfDone
<1>13. /\ \A r \in TrancheRole : after.brackets[r] = NoBracket
       /\ Items(after.queued) = {CloseAction(r, q, why) : r \in TrancheRole}
  <2>1. /\ \A r \in TrancheRole : after.brackets[r] = NoBracket
        /\ Items(after.queued) = {CloseAction(r, w.tranches[r].quantity, why) : r \in roles \cap TrancheRole}
    BY <1>2, <1>6, <1>9 DEF ClosesTaken
  <2>2. roles \cap TrancheRole = TrancheRole
    BY <1>6
  <2>3. {CloseAction(r, w.tranches[r].quantity, why) : r \in TrancheRole} =
            {CloseAction(r, q, why) : r \in TrancheRole}
    BY <1>3
  <2> QED BY <2>1, <2>2, <2>3
<1>14. \A r \in TrancheRole :
          held[r] = [side |-> t.side, price |-> price, quantity |-> q, bar |-> e]
  BY DEF Filling
<1>15. ASSUME NEW r \in TrancheRole
       PROVE  MatchedFor(r, NoTrade, after.brackets, held, Items(after.queued), e)
  <2>1. NoTrade.tranches[r].state = "ABSENT"
    BY NoTradeIs
  <2>2. held[r] # NoEntry
    BY <1>2, <1>14 DEF NoEntry, OrderSide
  <2>3. HasClose(Items(after.queued), r)
    <3>1. CloseAction(r, q, why) \in Items(after.queued)
      BY <1>13
    <3>2. CloseAction(r, q, why).kind = "CLOSE" /\ CloseAction(r, q, why).role = r
      BY DEF CloseAction
    <3> QED BY <3>1, <3>2, Zenon DEF HasClose
  <2> QED BY <1>13, <2>1, <2>2, <2>3 DEF MatchedFor
<1>16. ASSUME NEW a \in Items(after.queued)
       PROVE  Meant(a, NoTrade, held)
  <2>1. PICK r \in TrancheRole : a = CloseAction(r, q, why)
    BY <1>13
  <2>2. a.kind = "CLOSE" /\ a.role = r /\ a.quantity = q
    BY <2>1 DEF CloseAction
  <2> QED BY <1>14, <2>2 DEF Meant
<1>17. Matched(NoTrade, after, held, e)
  BY <1>9, <1>15, <1>16 DEF Matched, ClosesTaken
<1>18. PICK d : d = AbortEntry(w, why)
  OBVIOUS
<1>19. d.trade = NoTrade /\ d.actions = gone.actions
  BY <1>12, <1>18 DEF Decision
<1> QED BY <1>1, <1>8, <1>9, <1>17, <1>18, <1>19, NoTradeIs DEF Carried
SetsTo(after, at, role, bracket) ==
    /\ after \in Ats
    /\ after.queued = at.queued
    /\ after.brackets = [at.brackets EXCEPT ![role] = bracket]

\* Brackets are set for what has been filled.
LEMMA RegisterSet ==
    ASSUME NEW at \in Ats, NEW tr, NEW i \in Int, NEW role \in TrancheRole,
           NEW stop \in Int, NEW target \in Int, NEW side \in SideOrNone,
           tr.tranches[role].quantity # 0, tr.tranches[role].side = side
    PROVE  SetsTo(Register(at, SetBrackets(role, stop, target), tr, i), at, role,
                  [side |-> side, stopLoss |-> stop, takeProfit |-> target,
                   activeFrom |-> i + 1, breakeven |-> FALSE])
<1>1. PICK action : action = SetBrackets(role, stop, target)
  OBVIOUS
<1>2. PICK bracket : bracket = [side |-> side, stopLoss |-> stop, takeProfit |-> target,
                                activeFrom |-> i + 1, breakeven |-> FALSE]
  OBVIOUS
<1>3. /\ action.kind = "SET_BRACKETS" /\ action.role = role
      /\ action.stopLoss = stop /\ action.takeProfit = target
  BY <1>1 DEF SetBrackets
<1>4. Register(at, action, tr, i) = [at EXCEPT !.brackets[role] = bracket]
  BY <1>2, <1>3, Zenon DEF Register
<1>5. at.brackets \in [TrancheRole -> Brackets] /\ at.queued \in Seq(Orders)
  BY DEF Ats
<1>6. bracket \in Brackets
  BY <1>2 DEF Brackets
<1>7. [at EXCEPT !.brackets[role] = bracket] =
          [brackets |-> [at.brackets EXCEPT ![role] = bracket], queued |-> at.queued]
  BY DEF Ats
<1>8. [at.brackets EXCEPT ![role] = bracket] \in [TrancheRole -> Brackets]
  BY <1>5, <1>6
<1>9. PICK after : after = Register(at, action, tr, i)
  OBVIOUS
<1>10. /\ after \in Ats /\ after.queued = at.queued
       /\ after.brackets = [at.brackets EXCEPT ![role] = bracket]
  <2>1. after = [brackets |-> [at.brackets EXCEPT ![role] = bracket], queued |-> at.queued]
    BY <1>4, <1>7, <1>9
  <2> QED BY <1>5, <1>8, <2>1 DEF Ats
<1> QED BY <1>1, <1>2, <1>9, <1>10 DEF SetsTo

\* The tranches after a fill that stands.
Standing(u, t, price, e, q, stop, target) ==
    /\ u \in Trades /\ u.side = t.side
    /\ \A r \in TrancheRole :
          u.tranches[r] = [t.tranches[r] EXCEPT !.quantity = q, !.state = "OPEN",
                              !.entryPrice = price, !.entryBar = e, !.stopLoss = stop,
                              !.takeProfit = IF r = "T1" THEN target ELSE 0]

\* The brackets after a fill that stands.
BothSet(after, at, side, e, stop, target) ==
    /\ after \in Ats /\ after.queued = at.queued
    /\ \A r \in TrancheRole :
          after.brackets[r] = [side |-> side, stopLoss |-> stop,
                               takeProfit |-> IF r = "T1" THEN target ELSE 0,
                               activeFrom |-> e + 1, breakeven |-> FALSE]

\* What setting both brackets does.
LEMMA BothRegister ==
    ASSUME NEW at \in Ats, NEW tr, NEW i \in Int, NEW stop \in Int, NEW target \in Int,
           NEW side \in SideOrNone,
           \A r \in TrancheRole : tr.tranches[r].quantity # 0 /\ tr.tranches[r].side = side
    PROVE  LET actions == Pair(TrancheRole, SetBrackets("T1", stop, target),
                               SetBrackets("T2", stop, 0))
           IN  /\ actions \in Seq(Actions)
               /\ BothSet(RegisterBrackets(at, Decision(tr, actions), i), at, side, i,
                          stop, target)
<1>1. PICK first : first = SetBrackets("T1", stop, target)
  OBVIOUS
<1>2. PICK second : second = SetBrackets("T2", stop, 0)
  OBVIOUS
<1>3. first \in Actions /\ second \in Actions /\ "T1" \in TrancheRole /\ "T2" \in TrancheRole
  BY <1>1, <1>2 DEF Actions, Stops0, TrancheRole
<1>4. PICK mid : mid = Register(at, first, tr, i)
  OBVIOUS
<1>5. PICK after : after = Register(mid, second, tr, i)
  OBVIOUS
<1>6. RegisterBrackets(at, Decision(tr, Pair(TrancheRole, first, second)), i) = after
  <2>1. RegisterBrackets(at, Decision(tr, Pair(TrancheRole, first, second)), i) =
            Rounds(at, TrancheRole, first, second, tr, i)
    BY <1>3, RegisterTwo
  <2> QED BY <1>3, <1>4, <1>5, <2>1 DEF Rounds
<1>7. PICK b1 : b1 = [side |-> side, stopLoss |-> stop, takeProfit |-> target,
                      activeFrom |-> i + 1, breakeven |-> FALSE]
  OBVIOUS
<1>8. PICK b2 : b2 = [side |-> side, stopLoss |-> stop, takeProfit |-> 0,
                      activeFrom |-> i + 1, breakeven |-> FALSE]
  OBVIOUS
<1>9. SetsTo(mid, at, "T1", b1)
  BY <1>1, <1>3, <1>4, <1>7, RegisterSet
<1>10. mid \in Ats
  BY <1>9 DEF SetsTo
<1>11. SetsTo(after, mid, "T2", b2)
  BY <1>2, <1>3, <1>5, <1>8, <1>10, RegisterSet
<1>12. after.brackets["T1"] = b1 /\ after.brackets["T2"] = b2
  <2>1. at.brackets \in [TrancheRole -> Brackets] /\ mid.brackets \in [TrancheRole -> Brackets]
    BY <1>10 DEF Ats
  <2>2. after.brackets = [mid.brackets EXCEPT !["T2"] = b2]
        /\ mid.brackets = [at.brackets EXCEPT !["T1"] = b1]
    BY <1>9, <1>11 DEF SetsTo
  <2> QED BY <1>3, <2>1, <2>2
<1>13. after \in Ats /\ after.queued = at.queued
  BY <1>9, <1>11 DEF SetsTo
<1>14. ASSUME NEW r \in TrancheRole
       PROVE  after.brackets[r] = [side |-> side, stopLoss |-> stop,
                                   takeProfit |-> IF r = "T1" THEN target ELSE 0,
                                   activeFrom |-> i + 1, breakeven |-> FALSE]
  <2>1. r = "T1" \/ r = "T2"
    BY DEF TrancheRole
  <2> QED BY <1>7, <1>8, <1>12, <2>1
<1>15. BothSet(after, at, side, i, stop, target)
  BY <1>13, <1>14, Zenon DEF BothSet
<1>16. Pair(TrancheRole, first, second) \in Seq(Actions)
  BY <1>3 DEF Pair
<1> QED BY <1>1, <1>2, <1>6, <1>15, <1>16
\* What a fill makes of the trade when the entry is not given up.
LEMMA StandingIs ==
    ASSUME NEW t, NEW at, NEW held, NEW price, NEW e \in Int, NEW q,
           Filling(t, at, held, price, e, q), NEW reference, NEW d,
           d = OnEntryFilled(t, price, e, q, reference),
           d # AbortEntry(WithQuantity(t, q), "ENTRY_GAP"),
           d # AbortEntry(WithQuantity(t, q), "INVALID_RISK")
    PROVE  \E stop, target \in Int :
              /\ Standing(d.trade, t, price, e, q, stop, target)
              /\ d.actions = Pair(TrancheRole, SetBrackets("T1", stop, target),
                                  SetBrackets("T2", stop, 0))
<1>1. PICK w : w = WithQuantity(t, q)
  OBVIOUS
<1>2. /\ t \in Trades /\ q \in Int /\ price \in Int
      /\ \A r \in TrancheRole : t.tranches[r].state = "PENDING_ENTRY"
  BY DEF Filling, Sound
<1>3. w = [side |-> t.side, pendingStop |-> t.pendingStop,
           referenceClose |-> t.referenceClose,
           tranches |-> [r \in TrancheRole |-> [t.tranches[r] EXCEPT !.quantity = q]]]
  BY <1>1, <1>2, WithQuantityIs
<1>4. ASSUME NEW r \in TrancheRole
      PROVE  r \in Pending(w) /\ w.tranches[r] = [t.tranches[r] EXCEPT !.quantity = q]
             /\ t.tranches[r] \in Tranches
  <2>1. t.tranches[r] \in Tranches
    BY <1>2 DEF Trades
  <2>2. w.tranches[r] = [t.tranches[r] EXCEPT !.quantity = q]
    BY <1>3
  <2> QED BY <1>2, <2>1, <2>2 DEF Pending, Tranches
<1>5. "T1" \in TrancheRole /\ "T2" \in TrancheRole
  BY DEF TrancheRole
<1>6. PICK stop \in Int : stop = w.pendingStop
  BY <1>2, <1>3 DEF Trades
<1>7. PICK risk \in Int : risk = IF w.side = "BUY" THEN price - stop ELSE stop - price
  <2>1. price - stop \in Int /\ stop - price \in Int
    BY <1>2
  <2> QED BY <2>1
<1>8. RrMult * risk \in Int
  <2>1. \A x, y \in Int : x * y \in Int
    OBVIOUS
  <2>2. RrMult \in Int
    BY TradeManagerAssumption
  <2> QED BY <2>1, <2>2
<1>9. PICK target \in Int : target = IF w.side = "BUY" THEN price + RrMult * risk
                                     ELSE price - RrMult * risk
  <2>1. price + RrMult * risk \in Int /\ price - RrMult * risk \in Int
    BY <1>2, <1>8
  <2> QED BY <2>1
<1> DEFINE W == WithQuantity(t, q)
           Stop == W.pendingStop
           Risk == IF W.side = "BUY" THEN price - Stop ELSE Stop - price
           Target == IF W.side = "BUY" THEN price + RrMult * Risk ELSE price - RrMult * Risk
           TargetOf(r) == IF r = "T1" THEN Target ELSE 0
           Now(r) == [W.tranches[r] EXCEPT !.state = "OPEN", !.entryPrice = price,
                          !.entryBar = e, !.stopLoss = Stop, !.takeProfit = TargetOf(r)]
<1>17. w = W /\ stop = Stop /\ risk = Risk /\ target = Target
  BY <1>1, <1>6, <1>7, <1>9, Zenon
<1>10. PICK after : after = [r \in TrancheRole |->
           IF r \in Pending(W) THEN Now(r) ELSE W.tranches[r]]
  OBVIOUS
<1>11. /\ d.trade = [w EXCEPT !.tranches = after]
       /\ d.actions = Pair(Pending(w), SetBrackets("T1", stop, target), SetBrackets("T2", stop, 0))
  <2>1. ~EntryGap(price, reference)
    <3>1. EntryGap(price, reference) => d = AbortEntry(W, "ENTRY_GAP")
      BY Zenon DEF OnEntryFilled
    <3> QED BY <3>1
  <2>2. ~(Risk <= 0)
    <3>1. Risk <= 0 => d = AbortEntry(W, "INVALID_RISK")
      BY <2>1, Zenon DEF OnEntryFilled
    <3> QED BY <3>1
  <2>3. d = Decision([W EXCEPT !.tranches = [r \in TrancheRole |->
                          IF r \in Pending(W) THEN Now(r) ELSE W.tranches[r]]],
                     Each(Pending(W), LAMBDA r : SetBrackets(r, Stop, TargetOf(r))))
    BY <2>1, <2>2, Zenon DEF OnEntryFilled
  <2>4. Each(Pending(W), LAMBDA r : SetBrackets(r, Stop, TargetOf(r))) =
            Pair(Pending(W), SetBrackets("T1", Stop, TargetOf("T1")),
                 SetBrackets("T2", Stop, TargetOf("T2")))
    BY Zenon DEF Each, Pair
  <2>5. TargetOf("T1") = Target /\ TargetOf("T2") = 0
    OBVIOUS
  <2> HIDE DEF W, Stop, Risk, Target, TargetOf, Now
  <2>6. d = Decision([w EXCEPT !.tranches = after],
                     Pair(Pending(w), SetBrackets("T1", stop, target), SetBrackets("T2", stop, 0)))
    BY <1>10, <1>17, <2>3, <2>4, <2>5, Zenon
  <2> QED BY <2>6 DEF Decision
<1>12. d.trade = [side |-> t.side, pendingStop |-> t.pendingStop,
                  referenceClose |-> t.referenceClose, tranches |-> after]
  BY <1>3, <1>11
<1>13. ASSUME NEW r \in TrancheRole
       PROVE  /\ after[r] = [t.tranches[r] EXCEPT !.quantity = q, !.state = "OPEN",
                                !.entryPrice = price, !.entryBar = e, !.stopLoss = stop,
                                !.takeProfit = IF r = "T1" THEN target ELSE 0]
              /\ after[r] \in Tranches
  <2>1. PICK x \in Tranches : x = t.tranches[r]
    BY <1>4
  <2>2. PICK tp \in Int : tp = IF r = "T1" THEN target ELSE 0
    OBVIOUS
  <2>3. after[r] = [[x EXCEPT !.quantity = q]
                       EXCEPT !.state = "OPEN", !.entryPrice = price, !.entryBar = e,
                              !.stopLoss = stop, !.takeProfit = tp]
    <3>1. after[r] = Now(r) /\ W.tranches[r] = [x EXCEPT !.quantity = q]
      <4> HIDE DEF W, Now
      <4> QED BY <1>4, <1>10, <1>17, <2>1
    <3>2. Stop = stop /\ TargetOf(r) = tp
      <4> HIDE DEF Stop, Target
      <4> QED BY <1>17, <2>2
    <3> HIDE DEF W, Stop, TargetOf
    <3> QED BY <3>1, <3>2
  <2>4. after[r] = [x EXCEPT !.quantity = q, !.state = "OPEN", !.entryPrice = price,
                             !.entryBar = e, !.stopLoss = stop, !.takeProfit = tp]
    BY <2>3
  <2>5. [x EXCEPT !.quantity = q, !.state = "OPEN", !.entryPrice = price,
                  !.entryBar = e, !.stopLoss = stop, !.takeProfit = tp] \in Tranches
    BY <1>2 DEF Tranches
  <2> QED BY <2>1, <2>2, <2>4, <2>5
<1> HIDE DEF W, Stop, Risk, Target, TargetOf, Now
<1>14. d.trade \in Trades
  <2>1. after \in [TrancheRole -> Tranches]
    BY <1>10, <1>13
  <2> QED BY <1>2, <1>12, <2>1 DEF Trades
<1>15. Standing(d.trade, t, price, e, q, stop, target)
  <2>1. d.trade.side = t.side /\ d.trade.tranches = after
    BY <1>12
  <2> QED BY <1>13, <1>14, <2>1, Zenon DEF Standing
<1>16. d.actions = Pair(TrancheRole, SetBrackets("T1", stop, target), SetBrackets("T2", stop, 0))
  <2>1. "T1" \in Pending(w) /\ "T2" \in Pending(w)
    BY <1>4, <1>5
  <2> QED BY <1>5, <1>11, <2>1 DEF Pair
<1> QED BY <1>15, <1>16

\* A fill is answered with brackets or with closes, for both tranches alike.
LEMMA FilledCarried ==
    ASSUME NEW t, NEW at, NEW held, NEW price, NEW e \in Int, NEW q,
           Filling(t, at, held, price, e, q), NEW reference, NEW b
    PROVE  LET d == OnEntryFilled(t, price, e, q, reference)
           IN  /\ Carried(d, at, held, e, d.trade)
               /\ NoPending(d.trade)
               /\ Quiet(d.trade, b, e)
<1>1. PICK d : d = OnEntryFilled(t, price, e, q, reference)
  OBVIOUS
<1>2. CASE \E why \in CloseReason : d = AbortEntry(WithQuantity(t, q), why)
  <2>1. PICK why \in CloseReason : d = AbortEntry(WithQuantity(t, q), why)
    BY <1>2
  <2>2. Carried(d, at, held, e, d.trade) /\ d.trade = NoTrade
    BY <2>1, AbortCarried
  <2>3. NoPending(d.trade) /\ d.trade.tranches["T1"].state # "OPEN"
    BY <2>2, NoTradeIs DEF TrancheRole
  <2> QED BY <1>1, <2>2, <2>3 DEF Quiet
<1>3. CASE ~ \E why \in CloseReason : d = AbortEntry(WithQuantity(t, q), why)
  <2>1. PICK stop \in Int, target \in Int :
            /\ Standing(d.trade, t, price, e, q, stop, target)
            /\ d.actions = Pair(TrancheRole, SetBrackets("T1", stop, target),
                                SetBrackets("T2", stop, 0))
    <3>1. "ENTRY_GAP" \in CloseReason /\ "INVALID_RISK" \in CloseReason
      BY DEF CloseReason
    <3>2. /\ d # AbortEntry(WithQuantity(t, q), "ENTRY_GAP")
          /\ d # AbortEntry(WithQuantity(t, q), "INVALID_RISK")
      BY <1>3, <3>1
    <3> QED BY <1>1, <3>2, StandingIs
  <2>2. PICK u : u = d.trade
    OBVIOUS
  <2>3. /\ t \in Trades /\ at \in Ats /\ q \in Int \ {0} /\ price \in Int
        /\ Items(at.queued) = {} /\ "T1" \in TrancheRole /\ "T2" \in TrancheRole
    BY DEF Filling, Sound, Items, TrancheRole
  <2>4. ASSUME NEW r \in TrancheRole
        PROVE  /\ u.tranches[r].side = t.side /\ u.tranches[r].state = "OPEN"
               /\ u.tranches[r].quantity = q /\ u.tranches[r].entryPrice = price
               /\ u.tranches[r].entryBar = e /\ u.tranches[r].stopLoss = stop
               /\ u.tranches[r].takeProfit = IF r = "T1" THEN target ELSE 0
               /\ u.tranches[r].breakevenMoved = FALSE
               /\ t.side \in OrderSide
    <3>1. PICK x \in Tranches : x = t.tranches[r]
      BY <2>3 DEF Trades
    <3>2. PICK tp \in Int : tp = IF r = "T1" THEN target ELSE 0
      OBVIOUS
    <3>3. u.tranches[r] = [x EXCEPT !.quantity = q, !.state = "OPEN", !.entryPrice = price,
                                    !.entryBar = e, !.stopLoss = stop, !.takeProfit = tp]
      BY <2>1, <2>2, <3>1, <3>2 DEF Standing
    <3>4. x.side = t.side /\ x.breakevenMoved = FALSE /\ t.side \in OrderSide
      <4>1. t.tranches[r].state = "PENDING_ENTRY"
        BY DEF Filling
      <4>2. r \in Live(t) /\ r \in Pending(t)
        BY <4>1 DEF Live, Pending
      <4>3. /\ t.tranches[r].side = t.side /\ t.side \in OrderSide
            /\ ~t.tranches[r].breakevenMoved
        BY <4>2 DEF Filling, Sound
      <4>4. x.breakevenMoved \in BOOLEAN
        BY DEF Tranches
      <4> QED BY <3>1, <4>3, <4>4
    <3>5. PICK y : y = u.tranches[r]
      OBVIOUS
    <3>6. /\ y.side = x.side /\ y.state = "OPEN" /\ y.quantity = q /\ y.entryPrice = price
          /\ y.entryBar = e /\ y.stopLoss = stop /\ y.takeProfit = tp
          /\ y.breakevenMoved = x.breakevenMoved
      BY <3>3, <3>5 DEF Tranches
    <3> QED BY <3>2, <3>4, <3>5, <3>6
  <2>5. u \in Trades /\ u.side = t.side /\ t.side \in OrderSide
    BY <2>1, <2>2, <2>3, <2>4 DEF Standing
  <2>6. NoPending(u)
    BY <2>4 DEF NoPending
  <2>7. Quiet(u, b, e)
    <3>1. u.tranches["T2"].entryBar = e
      BY <2>3, <2>4, Zenon
    <3>2. ~(e > e)
      OBVIOUS
    <3> QED BY <3>1, <3>2, Zenon DEF Quiet
  <2>8. Sound(u)
    <3>1. Pending(u) = {}
      BY <2>4 DEF Pending
    <3> QED BY <2>3, <2>4, <2>5, <3>1, Zenon DEF Sound
  <2>9. PICK after : after = RegisterBrackets(at, Decision(u, d.actions), e)
    OBVIOUS
  <2>10. d.actions \in Seq(Actions) /\ BothSet(after, at, t.side, e, stop, target)
    <3>1. \A r \in TrancheRole : u.tranches[r].quantity # 0 /\ u.tranches[r].side = t.side
      BY <2>3, <2>4
    <3>2. PICK side \in SideOrNone : side = t.side
      BY <2>5 DEF SideOrNone
    <3>3. PICK actions : actions = Pair(TrancheRole, SetBrackets("T1", stop, target),
                                        SetBrackets("T2", stop, 0))
      OBVIOUS
    <3>4. actions \in Seq(Actions)
          /\ BothSet(RegisterBrackets(at, Decision(u, actions), e), at, side, e, stop, target)
      BY <2>3, <3>1, <3>2, <3>3, BothRegister
    <3> QED BY <2>1, <2>9, <3>2, <3>3, <3>4
  <2>11. ASSUME NEW r \in TrancheRole
         PROVE  MatchedFor(r, u, after.brackets, held, Items(after.queued), e)
    <3>1. held[r] = [side |-> t.side, price |-> price, quantity |-> q, bar |-> e]
      BY DEF Filling
    <3>2. after.brackets[r] = [side |-> t.side, stopLoss |-> stop,
                               takeProfit |-> IF r = "T1" THEN target ELSE 0,
                               activeFrom |-> e + 1, breakeven |-> FALSE]
      BY <2>10 DEF BothSet
    <3>3. held[r] # NoEntry
      BY <2>5, <3>1 DEF NoEntry, OrderSide
    <3>4. Kept(u, r, after.brackets, held, e)
      <4>1. PICK tp : tp = IF r = "T1" THEN target ELSE 0
        OBVIOUS
      <4>2. /\ held[r].side = t.side /\ held[r].price = price /\ held[r].quantity = q
        BY <3>1
      <4>3. /\ after.brackets[r].side = t.side /\ after.brackets[r].stopLoss = stop
            /\ after.brackets[r].takeProfit = tp /\ after.brackets[r].activeFrom = e + 1
            /\ after.brackets[r].breakeven = FALSE
        <5>1. after.brackets[r] = [side |-> t.side, stopLoss |-> stop, takeProfit |-> tp,
                                   activeFrom |-> e + 1, breakeven |-> FALSE]
          BY <3>2, <4>1
        <5> QED BY <5>1
      <4>4. e + 1 <= e + 1 /\ e <= e /\ q # 0
        BY <2>3
      <4>5. u.tranches[r].takeProfit = tp
        BY <2>4, <4>1
      <4> QED BY <2>4, <2>5, <4>2, <4>3, <4>4, <4>5, Zenon DEF Kept
    <3>5. ~HasClose(Items(after.queued), r)
      BY <2>3, <2>10 DEF BothSet, HasClose
    <3> QED BY <2>4, <3>3, <3>4, <3>5 DEF MatchedFor
  <2>12. Matched(u, after, held, e)
    <3>1. Items(after.queued) = {}
      BY <2>3, <2>10 DEF BothSet
    <3> QED BY <2>10, <2>11, <3>1 DEF Matched, BothSet
  <2> QED BY <1>1, <2>2, <2>6, <2>7, <2>8, <2>9, <2>10, <2>12 DEF Carried
<1> QED BY <1>2, <1>3
------------------------------------------------------------------------------
(* Inside a bar.                                                             *)

StopHit(b, br)   == IF b.side = "BUY" THEN br.low <= b.stopLoss ELSE br.high >= b.stopLoss
TargetHit(b, br) == b.takeProfit # 0 /\ Touched(b.side, b.takeProfit, br)

\* How a bracket may be hit: the stop comes first.
ExitKnown(x, b, br) ==
    /\ x.price \in Int /\ x.reason \in CloseReason \cup {"NONE"}
    /\ x.reason = "NONE" <=> ~StopHit(b, br) /\ ~TargetHit(b, br)
    /\ ~StopHit(b, br) /\ TargetHit(b, br) => x.reason = "TAKE_PROFIT"

\* The exit of a bracket follows from its stop, its target and the bar.
LEMMA BracketExitIs ==
    ASSUME NEW b \in Brackets, NEW br \in Bars
    PROVE  ExitKnown(BracketExit(b, br), b, br)
<1> PICK x : x = BracketExit(b, br)
  OBVIOUS
<1>1. /\ b.stopLoss \in Int /\ b.takeProfit \in Int /\ br.open \in Int
      /\ br.low \in Int /\ br.high \in Int
  BY DEF Brackets, Bars
<1>2. \A p, q \in Int : S!Least(p, q) \in Int /\ S!Greatest(p, q) \in Int
  BY DEF S!Least, S!Greatest
<1>3. CASE StopHit(b, br)
  <2>1. x = [price |-> IF b.side = "BUY" THEN S!Least(br.open, b.stopLoss)
                       ELSE S!Greatest(br.open, b.stopLoss),
             reason |-> IF b.breakeven THEN "BREAKEVEN_STOP" ELSE "STOP_LOSS"]
    BY <1>3, Zenon DEF BracketExit, StopHit
  <2>2. x.price \in Int
    <3>1. PICK low \in Int : low = S!Least(br.open, b.stopLoss)
      BY <1>1, <1>2
    <3>2. PICK high \in Int : high = S!Greatest(br.open, b.stopLoss)
      BY <1>1, <1>2
    <3> QED BY <2>1, <3>1, <3>2
  <2>3. x.reason \in {"BREAKEVEN_STOP", "STOP_LOSS"}
    BY <2>1
  <2> QED BY <1>3, <2>2, <2>3 DEF ExitKnown, CloseReason
<1>4. CASE ~StopHit(b, br) /\ TargetHit(b, br)
  <2>1. x = [price |-> IF b.side = "BUY" THEN S!Greatest(br.open, b.takeProfit)
                       ELSE S!Least(br.open, b.takeProfit), reason |-> "TAKE_PROFIT"]
    <3>1. /\ ~(IF b.side = "BUY" THEN br.low <= b.stopLoss ELSE br.high >= b.stopLoss)
          /\ b.takeProfit # 0 /\ Touched(b.side, b.takeProfit, br)
      BY <1>4, Zenon DEF StopHit, TargetHit
    <3> QED BY <3>1, Zenon DEF BracketExit
  <2>2. x.price \in Int
    <3>1. PICK low \in Int : low = S!Least(br.open, b.takeProfit)
      BY <1>1, <1>2
    <3>2. PICK high \in Int : high = S!Greatest(br.open, b.takeProfit)
      BY <1>1, <1>2
    <3> QED BY <2>1, <3>1, <3>2
  <2> QED BY <1>4, <2>1, <2>2 DEF ExitKnown, CloseReason
<1>5. CASE ~StopHit(b, br) /\ ~TargetHit(b, br)
  <2>1. x = [price |-> 0, reason |-> "NONE"]
    <3>1. /\ ~(IF b.side = "BUY" THEN br.low <= b.stopLoss ELSE br.high >= b.stopLoss)
          /\ ~(b.takeProfit # 0 /\ Touched(b.side, b.takeProfit, br))
      BY <1>5, Zenon DEF StopHit, TargetHit
    <3> QED BY <3>1, Zenon DEF BracketExit
  <2> QED BY <1>5, <2>1 DEF ExitKnown
<1> QED BY <1>3, <1>4, <1>5

\* The brackets of brs that bar br hits at index i.
HitsOf(brs, br, i) ==
    {r \in TrancheRole : /\ brs[r] # NoBracket /\ brs[r].activeFrom <= i
                         /\ BracketExit(brs[r], br).reason # "NONE"}

Tell(t, hits, why1, why2) ==
    LET first == IF "T1" \in hits THEN OnTrancheClosed(t, "T1", why1) ELSE t
    IN  IF "T2" \in hits THEN OnTrancheClosed(first, "T2", why2) ELSE first

TakeOut(bk, hits, p1, p2) ==
    LET first == IF "T1" \in hits THEN RecordExit(bk, "T1", p1) ELSE bk
    IN  IF "T2" \in hits THEN RecordExit(first, "T2", p2) ELSE first

\* The exits of some roles, in the books.
TakenOut(after, bk, hits) ==
    /\ after \in Books /\ Balanced(after)
    /\ after.entries = bk.entries
    /\ bk.ruined => after.ruined
    /\ \A r \in TrancheRole : after.held[r] = IF r \in hits THEN NoEntry ELSE bk.held[r]

\* What the exits of a bar do to the books.
LEMMA TakeOutIs ==
    ASSUME NEW bk \in Books, Balanced(bk), NEW hits, NEW p1 \in Int, NEW p2 \in Int
    PROVE  TakenOut(TakeOut(bk, hits, p1, p2), bk, hits)
<1>1. PICK first : first = IF "T1" \in hits THEN RecordExit(bk, "T1", p1) ELSE bk
  OBVIOUS
<1>2. PICK after : after = IF "T2" \in hits THEN RecordExit(first, "T2", p2) ELSE first
  OBVIOUS
<1>3. "T1" \in TrancheRole /\ "T2" \in TrancheRole
      /\ \A r \in TrancheRole : r = "T1" \/ r = "T2"
  BY DEF TrancheRole
<1>4. /\ first \in Books /\ Balanced(first) /\ first.entries = bk.entries
      /\ bk.ruined => first.ruined
      /\ first.held = IF "T1" \in hits THEN [bk.held EXCEPT !["T1"] = NoEntry] ELSE bk.held
  <2>1. CASE "T1" \in hits
    BY <1>1, <1>3, <2>1, RecordExitIs
  <2>2. CASE "T1" \notin hits
    BY <1>1, <2>2
  <2> QED BY <2>1, <2>2
<1>5. /\ after \in Books /\ Balanced(after) /\ after.entries = first.entries
      /\ first.ruined => after.ruined
      /\ after.held = IF "T2" \in hits THEN [first.held EXCEPT !["T2"] = NoEntry] ELSE first.held
  <2>1. CASE "T2" \in hits
    BY <1>2, <1>3, <1>4, <2>1, RecordExitIs
  <2>2. CASE "T2" \notin hits
    BY <1>2, <1>4, <2>2
  <2> QED BY <2>1, <2>2
<1>6. \A r \in TrancheRole : after.held[r] = IF r \in hits THEN NoEntry ELSE bk.held[r]
  <2>1. bk.held \in [TrancheRole -> Entries] /\ first.held \in [TrancheRole -> Entries]
    BY <1>4 DEF Books
  <2> QED BY <1>3, <1>4, <1>5, <2>1
<1>7. after = TakeOut(bk, hits, p1, p2)
  BY <1>1, <1>2, Zenon DEF TakeOut
<1> QED BY <1>4, <1>5, <1>6, <1>7, Zenon DEF TakenOut

\* A tranche that is closed is closed for good, and the trade with its last.
LEMMA TrancheClosedIs ==
    ASSUME NEW t \in Trades, NEW role \in Live(t), NEW why \in CloseReason
    PROVE  \E v : /\ ClosesKnown(v, t, {role}, why)
                  /\ OnTrancheClosed(t, role, why) = IF IsFlat(v) THEN NoTrade ELSE v
<1>1. role \in TrancheRole
  BY DEF Live
<1>2. PICK x \in Tranches : x = t.tranches[role]
  BY <1>1 DEF Trades
<1>3. PICK closed : closed = [x EXCEPT !.state = "CLOSED", !.closeReason = why]
  OBVIOUS
<1>4. closed \in Tranches
  BY <1>3 DEF Tranches
<1>5. PICK v : v = [side |-> t.side, pendingStop |-> t.pendingStop,
                    referenceClose |-> t.referenceClose,
                    tranches |-> [t.tranches EXCEPT ![role] = closed]]
  OBVIOUS
<1>6. t.tranches \in [TrancheRole -> Tranches]
  BY DEF Trades
<1>7. v \in Trades /\ v.side = t.side
  <2>1. [t.tranches EXCEPT ![role] = closed] \in [TrancheRole -> Tranches]
    BY <1>4, <1>6
  <2> QED BY <1>5, <2>1 DEF Trades
<1>8. v = [t EXCEPT !.tranches[role].state = "CLOSED", !.tranches[role].closeReason = why]
  <2>1. PICK t1 : t1 = [t EXCEPT !.tranches[role].state = "CLOSED"]
    OBVIOUS
  <2>2. PICK x1 : x1 = [x EXCEPT !.state = "CLOSED"]
    OBVIOUS
  <2>3. t1 = [side |-> t.side, pendingStop |-> t.pendingStop,
              referenceClose |-> t.referenceClose,
              tranches |-> [t.tranches EXCEPT ![role] = x1]]
    BY <1>1, <1>2, <1>6, <2>1, <2>2 DEF Trades
  <2>4. closed = [x1 EXCEPT !.closeReason = why]
    BY <1>3, <2>2
  <2>5. v = [t1 EXCEPT !.tranches[role].closeReason = why]
    BY <1>1, <1>5, <1>6, <2>3, <2>4
  <2> QED BY <2>1, <2>5
<1>9. ClosesKnown(v, t, {role}, why)
  <2>1. ASSUME NEW r \in TrancheRole
        PROVE  /\ r \in {role} => v.tranches[r] = [t.tranches[r] EXCEPT !.state = "CLOSED",
                                                                       !.closeReason = why]
               /\ r \notin {role} => v.tranches[r] = t.tranches[r]
    BY <1>1, <1>2, <1>3, <1>5, <1>6
  <2> QED BY <1>7, <2>1, Zenon DEF ClosesKnown
<1>10. OnTrancheClosed(t, role, why) = IF IsFlat(v) THEN NoTrade ELSE v
  BY <1>8, Zenon DEF OnTrancheClosed, FlattenIfDone
<1> QED BY <1>9, <1>10
\* Nothing is queued inside a bar.
Resting(brs) == [brackets |-> brs, queued |-> <<>>]

\* What is matched with nothing queued.
LEMMA RestingIs ==
    ASSUME NEW t, NEW brs, NEW held, NEW e
    PROVE  Matched(t, Resting(brs), held, e) <=>
               /\ brs \in [TrancheRole -> Brackets]
               /\ \A r \in TrancheRole : MatchedFor(r, t, brs, held, {}, e)
<1>1. PICK at : at = Resting(brs)
  OBVIOUS
<1>2. at.brackets = brs /\ at.queued = <<>>
  BY <1>1 DEF Resting
<1>3. Items(at.queued) = {}
  BY <1>2 DEF Items
<1>4. at \in Ats <=> brs \in [TrancheRole -> Brackets]
  <2>1. <<>> \in Seq(Orders)
    OBVIOUS
  <2> QED BY <1>1, <2>1 DEF Resting, Ats
<1> QED BY <1>1, <1>2, <1>3, <1>4 DEF Matched

\* When everything that is open is hit, the trade is over.
LEMMA AllToldIs ==
    ASSUME NEW t \in Trades, NEW hits, NEW why1, NEW why2,
           NoPending(t), hits # {},
           \A r : r \in hits <=> r \in TrancheRole /\ t.tranches[r].state = "OPEN",
           "T1" \in hits => why1 \in CloseReason,
           "T2" \in hits => why2 \in CloseReason
    PROVE  Tell(t, hits, why1, why2) = NoTrade
<1>1. \A r : r \in hits <=> r \in Live(t)
  BY DEF NoPending, Live
<1>2. PICK first : first = IF "T1" \in hits THEN OnTrancheClosed(t, "T1", why1) ELSE t
  OBVIOUS
<1>3. \A r \in TrancheRole : r = "T1" \/ r = "T2"
  BY DEF TrancheRole
<1>10. PICK told : told = IF "T2" \in hits THEN OnTrancheClosed(first, "T2", why2) ELSE first
  OBVIOUS
<1>11. told = Tell(t, hits, why1, why2)
  BY <1>2, <1>10, Zenon DEF Tell
<1>4. CASE "T1" \in hits
  <2>1. PICK v : /\ ClosesKnown(v, t, {"T1"}, why1)
                 /\ OnTrancheClosed(t, "T1", why1) = IF IsFlat(v) THEN NoTrade ELSE v
    BY <1>1, <1>4, TrancheClosedIs
  <2>2. v \in Trades /\ v.tranches["T1"].state = "CLOSED"
        /\ ("T2" \in TrancheRole => v.tranches["T2"] = t.tranches["T2"])
    <3>1. "T1" \in TrancheRole /\ t.tranches["T1"] \in Tranches
      BY <1>4 DEF Trades
    <3> QED BY <2>1, <3>1 DEF ClosesKnown, Tranches
  <2>3. CASE "T2" \in hits
    <3>1. "T2" \in Live(v)
      BY <1>1, <2>2, <2>3 DEF Live
    <3>2. first = v
      BY <1>2, <1>4, <2>1, <3>1 DEF IsFlat
    <3>3. PICK x : /\ ClosesKnown(x, v, {"T2"}, why2)
                   /\ OnTrancheClosed(v, "T2", why2) = IF IsFlat(x) THEN NoTrade ELSE x
      BY <2>2, <2>3, <3>1, TrancheClosedIs
    <3>4. IsFlat(x)
      <4>1. "T1" \in TrancheRole /\ "T2" \in TrancheRole /\ v.tranches["T2"] \in Tranches
        BY <1>4, <2>2, <2>3 DEF Trades
      <4>2. x.tranches["T1"].state = "CLOSED" /\ x.tranches["T2"].state = "CLOSED"
        BY <2>2, <3>3, <4>1 DEF ClosesKnown, Tranches
      <4> QED BY <1>3, <4>2 DEF IsFlat, Live
    <3> QED BY <1>10, <1>11, <2>3, <3>2, <3>3, <3>4
  <2>4. CASE "T2" \notin hits
    <3>1. IsFlat(v)
      BY <1>1, <1>3, <2>2, <2>4 DEF IsFlat, Live
    <3> QED BY <1>2, <1>4, <1>10, <1>11, <2>1, <2>4, <3>1
  <2> QED BY <2>3, <2>4
<1>5. CASE "T1" \notin hits
  <2>1. "T2" \in hits /\ first = t
    BY <1>2, <1>3, <1>5
  <2>2. PICK v : /\ ClosesKnown(v, t, {"T2"}, why2)
                 /\ OnTrancheClosed(t, "T2", why2) = IF IsFlat(v) THEN NoTrade ELSE v
    BY <1>1, <2>1, TrancheClosedIs
  <2>3. IsFlat(v)
    <3>1. "T2" \in TrancheRole /\ t.tranches["T2"] \in Tranches
      BY <2>1 DEF Trades
    <3>2. v.tranches["T2"].state = "CLOSED"
          /\ ("T1" \in TrancheRole => v.tranches["T1"] = t.tranches["T1"])
      BY <2>2, <3>1 DEF ClosesKnown, Tranches
    <3> QED BY <1>1, <1>3, <1>5, <3>2 DEF IsFlat, Live
  <2> QED BY <1>10, <1>11, <2>1, <2>2, <2>3
<1> QED BY <1>4, <1>5

\* What the broker hits inside a bar, the trade manager is told; what it does not
\* hit, the trade manager has no reason to move.
LEMMA InsideMid ==
    ASSUME NEW t, NEW brs, NEW bk, NEW br \in Bars, NEW i \in Int,
           Mid(t, Resting(brs), bk.held, i - 1),
           NEW hits, hits = HitsOf(brs, br, i), NEW after, TakenOut(after, bk, hits),
           NEW u, u = Tell(t, hits, BracketExit(brs["T1"], br).reason,
                                    BracketExit(brs["T2"], br).reason)
    PROVE  /\ Mid(u, Resting([r \in TrancheRole |-> IF r \in hits THEN NoBracket ELSE brs[r]]),
                  after.held, i - 1)
           /\ Quiet(u, br, i)
<1>1. /\ t \in Trades /\ NoPending(t) /\ Sound(t)
      /\ brs \in [TrancheRole -> Brackets]
      /\ \A r \in TrancheRole : MatchedFor(r, t, brs, bk.held, {}, i - 1)
  BY RestingIs DEF Mid, Sound
<1>2. /\ "T1" \in TrancheRole /\ "T2" \in TrancheRole
      /\ \A r \in TrancheRole : r = "T1" \/ r = "T2"
  BY DEF TrancheRole
<1>3. ASSUME NEW r \in TrancheRole
      PROVE  r \in hits => t.tranches[r].state = "OPEN"
  BY <1>1 DEF HitsOf, MatchedFor
<1>4. ASSUME NEW r \in TrancheRole, t.tranches[r].state = "OPEN"
      PROVE  /\ r \in hits <=> StopHit(brs[r], br) \/ TargetHit(brs[r], br)
             /\ brs[r].side = t.side /\ brs[r].stopLoss = t.tranches[r].stopLoss
             /\ brs[r].takeProfit = t.tranches[r].takeProfit
             /\ t.tranches[r].side = t.side
  <2>1. Kept(t, r, brs, bk.held, i - 1)
    BY <1>1, <1>4 DEF MatchedFor
  <2>2. brs[r] # NoBracket
    BY <2>1 DEF Kept, NoBracket, OrderSide
  <2>3. brs[r].activeFrom <= i
    <3>1. (i - 1) + 1 = i
      OBVIOUS
    <3> QED BY <2>1, <3>1 DEF Kept
  <2>4. brs[r] \in Brackets
    BY <1>1
  <2>5. ExitKnown(BracketExit(brs[r], br), brs[r], br)
    BY <2>4, BracketExitIs
  <2>6. r \in hits <=> BracketExit(brs[r], br).reason # "NONE"
    BY <2>2, <2>3 DEF HitsOf
  <2>7. r \in hits <=> StopHit(brs[r], br) \/ TargetHit(brs[r], br)
    BY <2>5, <2>6 DEF ExitKnown
  <2>8. t.tranches[r].side = t.side
    BY <1>1 DEF Sound
  <2> QED BY <2>1, <2>7, <2>8 DEF Kept
<1>5. ASSUME t.tranches["T1"].state = "OPEN", t.tranches["T2"].state = "OPEN"
      PROVE  /\ StopHit(brs["T1"], br) <=> StopHit(brs["T2"], br)
             /\ ~TargetHit(brs["T2"], br)
  <2>1. /\ t.tranches["T2"].stopLoss = t.tranches["T1"].stopLoss
        /\ t.tranches["T2"].takeProfit = 0
    BY <1>1, <1>5 DEF Sound
  <2>2. /\ brs["T1"].side = brs["T2"].side /\ brs["T1"].stopLoss = brs["T2"].stopLoss
        /\ brs["T2"].takeProfit = 0
    BY <1>2, <1>4, <1>5, <2>1
  <2> QED BY <2>2, Zenon DEF StopHit, TargetHit
<1>6. ASSUME NEW r \in hits
      PROVE  BracketExit(brs[r], br).reason \in CloseReason
  <2>1. r \in TrancheRole /\ BracketExit(brs[r], br).reason # "NONE"
    BY DEF HitsOf
  <2>2. ExitKnown(BracketExit(brs[r], br), brs[r], br)
    BY <1>1, <2>1, BracketExitIs
  <2> QED BY <2>1, <2>2 DEF ExitKnown
<1>7. PICK brs2 : brs2 = [r \in TrancheRole |-> IF r \in hits THEN NoBracket ELSE brs[r]]
  OBVIOUS
<1>8. brs2 \in [TrancheRole -> Brackets]
  <2>1. NoBracket \in Brackets
    BY DEF NoBracket, Brackets, SideOrNone
  <2> QED BY <1>1, <1>7, <2>1
<1>9. \A r \in TrancheRole :
         /\ brs2[r] = IF r \in hits THEN NoBracket ELSE brs[r]
         /\ after.held[r] = IF r \in hits THEN NoEntry ELSE bk.held[r]
  BY <1>7 DEF TakenOut
<1>10. hits \subseteq TrancheRole /\ \A r : ~HasClose({}, r)
  BY DEF HitsOf, HasClose
<1>11. CASE hits = {}
  <2>1. u = t
    BY <1>11, Zenon DEF Tell
  <2>2. ASSUME NEW r \in TrancheRole
        PROVE  MatchedFor(r, t, brs2, after.held, {}, i - 1)
    <3>1. brs2[r] = brs[r] /\ after.held[r] = bk.held[r]
      BY <1>9, <1>11
    <3>2. MatchedFor(r, t, brs, bk.held, {}, i - 1)
      BY <1>1
    <3> QED BY <3>1, <3>2 DEF MatchedFor, Kept
  <2>3. Mid(t, Resting(brs2), after.held, i - 1)
    BY <1>1, <1>8, <2>2, RestingIs DEF Mid
  <2>4. Quiet(t, br, i)
    <3>1. CASE t.tranches["T1"].state = "OPEN"
      <4>1. /\ ~TargetHit(brs["T1"], br)
            /\ brs["T1"].side = t.side
            /\ brs["T1"].takeProfit = t.tranches["T1"].takeProfit
        BY <1>2, <1>4, <1>11, <3>1
      <4>2. t.tranches["T2"].side = t.side
        BY <1>1, <1>2 DEF Sound
      <4> QED BY <4>1, <4>2 DEF Quiet, TargetHit
    <3>2. CASE t.tranches["T1"].state # "OPEN"
      BY <3>2 DEF Quiet
    <3> QED BY <3>1, <3>2
  <2> QED BY <1>7, <2>1, <2>3, <2>4
<1>12. CASE hits # {} /\ \A r \in TrancheRole : t.tranches[r].state = "OPEN" => r \in hits
  <2>1. u = NoTrade
    <3>1. \A r : r \in hits <=> r \in TrancheRole /\ t.tranches[r].state = "OPEN"
      BY <1>3, <1>10, <1>12
    <3> QED BY <1>1, <1>6, <1>12, <3>1, AllToldIs
  <2>2. ASSUME NEW r \in TrancheRole
        PROVE  MatchedFor(r, NoTrade, brs2, after.held, {}, i - 1)
    <3>1. NoTrade.tranches[r].state = "ABSENT"
      BY NoTradeIs
    <3>2. brs2[r] = NoBracket /\ after.held[r] = NoEntry
      <4>1. CASE r \in hits
        BY <1>9, <4>1
      <4>2. CASE r \notin hits
        <5>1. MatchedFor(r, t, brs, bk.held, {}, i - 1) /\ t.tranches[r].state # "OPEN"
          BY <1>1, <1>12, <4>2
        <5> QED BY <1>9, <1>10, <4>2, <5>1 DEF MatchedFor
      <4> QED BY <4>1, <4>2
    <3> QED BY <1>10, <3>1, <3>2 DEF MatchedFor
  <2>3. Mid(NoTrade, Resting(brs2), after.held, i - 1)
    BY <1>8, <2>2, RestingIs, NoTradeIs DEF Mid
  <2>4. Quiet(NoTrade, br, i)
    BY <1>2, NoTradeIs DEF Quiet
  <2> QED BY <1>7, <2>1, <2>3, <2>4
<1>13. CASE /\ "T1" \in hits /\ "T2" \notin hits
            /\ t.tranches["T2"].state = "OPEN"
  <2>1. t.tranches["T1"].state = "OPEN"
    BY <1>2, <1>3, <1>13
  <2>2. BracketExit(brs["T1"], br).reason = "TAKE_PROFIT"
    <3>1. ~StopHit(brs["T2"], br)
      BY <1>2, <1>4, <1>13
    <3>2. ~StopHit(brs["T1"], br) /\ TargetHit(brs["T1"], br)
      BY <1>2, <1>4, <1>5, <1>13, <2>1, <3>1
    <3>3. ExitKnown(BracketExit(brs["T1"], br), brs["T1"], br)
      BY <1>1, <1>2, BracketExitIs
    <3> QED BY <3>2, <3>3 DEF ExitKnown
  <2>3. PICK why \in CloseReason : why = "TAKE_PROFIT"
    BY DEF CloseReason
  <2>4. "T1" \in Live(t)
    BY <1>2, <2>1 DEF Live
  <2>5. PICK v : /\ ClosesKnown(v, t, {"T1"}, why)
                 /\ OnTrancheClosed(t, "T1", why) = IF IsFlat(v) THEN NoTrade ELSE v
    BY <1>1, <2>4, TrancheClosedIs
  <2>6. /\ v \in Trades /\ v.side = t.side
        /\ v.tranches["T2"] = t.tranches["T2"]
        /\ v.tranches["T1"].side = t.tranches["T1"].side
        /\ v.tranches["T1"].state = "CLOSED"
        /\ v.tranches["T1"].closeReason = "TAKE_PROFIT"
        /\ v.tranches["T1"].breakevenMoved = t.tranches["T1"].breakevenMoved
    <3>1. PICK x \in Tranches : x = t.tranches["T1"]
      BY <1>1, <1>2 DEF Trades
    <3>2. PICK y : y = v.tranches["T1"]
      OBVIOUS
    <3>3. y = [x EXCEPT !.state = "CLOSED", !.closeReason = "TAKE_PROFIT"]
      BY <1>2, <2>3, <2>5, <3>1, <3>2 DEF ClosesKnown
    <3>4. /\ y.side = x.side /\ y.state = "CLOSED" /\ y.closeReason = "TAKE_PROFIT"
          /\ y.breakevenMoved = x.breakevenMoved
      BY <3>3 DEF Tranches
    <3>5. v \in Trades /\ v.side = t.side /\ v.tranches["T2"] = t.tranches["T2"]
      BY <1>2, <2>5 DEF ClosesKnown
    <3> QED BY <3>1, <3>2, <3>4, <3>5
  <2>7. ~IsFlat(v)
    BY <1>2, <1>13, <2>6 DEF IsFlat, Live
  <2>8. u = v
    <3>1. u = OnTrancheClosed(t, "T1", why)
      BY <1>13, <2>2, <2>3, Zenon DEF Tell
    <3> QED BY <2>5, <2>7, <3>1
  <2>9. NoPending(v)
    BY <1>2, <1>13, <2>6 DEF NoPending
  <2>10. Sound(v)
    <3>1. /\ \A r \in TrancheRole : t.tranches[r].side = t.side
          /\ t.side \in OrderSide
          /\ ~t.tranches["T1"].breakevenMoved /\ t.tranches["T2"].takeProfit = 0
          /\ ~t.tranches["T2"].breakevenMoved
      BY <1>1, <1>2, <1>13, <2>1, <2>4 DEF Sound
    <3>2. Pending(v) = {}
      BY <2>9 DEF Pending, NoPending
    <3>3. \A r \in TrancheRole : v.tranches[r].side = v.side
      BY <1>2, <2>6, <3>1
    <3> QED BY <1>13, <2>6, <3>1, <3>2, <3>3 DEF Sound
  <2>11. ASSUME NEW r \in TrancheRole
         PROVE  MatchedFor(r, v, brs2, after.held, {}, i - 1)
    <3>1. CASE r = "T1"
      <4>1. brs2[r] = NoBracket /\ after.held[r] = NoEntry
        BY <1>9, <1>13, <3>1
      <4> QED BY <1>10, <2>6, <3>1, <4>1 DEF MatchedFor
    <3>2. CASE r = "T2"
      <4>1. brs2[r] = brs[r] /\ after.held[r] = bk.held[r]
        BY <1>9, <1>13, <3>2
      <4>2. MatchedFor(r, t, brs, bk.held, {}, i - 1)
        BY <1>1
      <4> QED BY <1>13, <2>6, <3>2, <4>1, <4>2 DEF MatchedFor, Kept
    <3> QED BY <1>2, <3>1, <3>2
  <2>12. Mid(v, Resting(brs2), after.held, i - 1)
    BY <1>8, <2>9, <2>10, <2>11, RestingIs DEF Mid
  <2>13. Quiet(v, br, i)
    BY <2>6 DEF Quiet
  <2> QED BY <1>7, <2>8, <2>12, <2>13
<1>14. \/ hits = {}
       \/ hits # {} /\ \A r \in TrancheRole : t.tranches[r].state = "OPEN" => r \in hits
       \/ "T1" \in hits /\ "T2" \notin hits /\ t.tranches["T2"].state = "OPEN"
  <2>1. ~(t.tranches["T1"].state = "OPEN" /\ "T1" \notin hits /\ "T2" \in hits)
    <3> SUFFICES ASSUME t.tranches["T1"].state = "OPEN", "T1" \notin hits, "T2" \in hits
                 PROVE  FALSE
      OBVIOUS
    <3>1. t.tranches["T2"].state = "OPEN"
      BY <1>2, <1>3
    <3>2. StopHit(brs["T2"], br) \/ TargetHit(brs["T2"], br)
      BY <1>2, <1>4, <3>1
    <3>3. ~StopHit(brs["T1"], br)
      BY <1>2, <1>4
    <3> QED BY <1>5, <3>1, <3>2, <3>3
  <2> QED BY <1>2, <1>10, <2>1
<1> QED BY <1>11, <1>12, <1>13, <1>14
------------------------------------------------------------------------------
(* The bars of a run.                                                        *)

At == [brackets |-> brackets, queued |-> queued]

\* The inductive invariant.  Before an open everything is matched as of the bar
\* before; inside a bar nothing is queued, and either all is matched still or
\* both tranches have just been filled.
Placed ==
    /\ index \in Nat /\ bar \in Bars /\ phase \in {"open", "inside", "close"}
    /\ book \in Books /\ Balanced(book) /\ Sound(trade)

BeforeOpen == phase = "open" => Matched(trade, At, book.held, index - 1)

InsideBar ==
    phase # "open" =>
        /\ queued = <<>>
        /\ entered = 0 => Mid(trade, Resting(brackets), book.held, index - 1)
        /\ entered # 0 => Filling(trade, Resting(brackets), book.held, bar.open, index, entered)
        /\ phase = "close" /\ entered = 0 => Quiet(trade, bar, index)

IInv == Placed /\ BeforeOpen /\ InsideBar

\* A run starts without a position, a bracket or an order.
LEMMA InitIInv == Init => IInv
<1> SUFFICES ASSUME Init PROVE IInv
  OBVIOUS
<1>1. /\ index = 0 /\ phase = "open" /\ bar = NoBar /\ trade = NoTrade
      /\ brackets = [r \in TrancheRole |-> NoBracket] /\ queued = <<>>
      /\ book = [held |-> [r \in TrancheRole |-> NoEntry], equity |-> InitialEquity,
                 ruined |-> FALSE, entries |-> 0, exits |-> 0]
  BY DEF Init
<1>2. InitialEquity \in Int
  BY BacktestAssumption
<1>3. NoEntry \in Entries /\ NoBracket \in Brackets /\ NoBar \in Bars
  BY DEF NoEntry, Entries, NoBracket, Brackets, NoBar, Bars, SideOrNone
<1>4. book \in Books
  BY <1>1, <1>2, <1>3 DEF Books
<1>5. Balanced(book)
  <2>1. HeldIn(book) = {} /\ book.entries = 0 /\ book.exits = 0
    BY <1>1 DEF HeldIn
  <2> QED BY <2>1, FS_EmptySet DEF Balanced
<1>6. At = Resting(brackets)
  BY <1>1 DEF At, Resting
<1>7. Matched(trade, Resting(brackets), book.held, index - 1)
  <2>1. brackets \in [TrancheRole -> Brackets]
    BY <1>1, <1>3
  <2>2. ASSUME NEW r \in TrancheRole
        PROVE  MatchedFor(r, trade, brackets, book.held, {}, index - 1)
    <3>1. trade.tranches[r].state = "ABSENT"
      BY <1>1, NoTradeIs
    <3>2. brackets[r] = NoBracket /\ book.held[r] = NoEntry
      BY <1>1
    <3> QED BY <3>1, <3>2 DEF MatchedFor, HasClose
  <2>3. PICK before : before = index - 1
    OBVIOUS
  <2> QED BY <2>1, <2>2, <2>3, RestingIs
<1>8. Placed
  BY <1>1, <1>3, <1>4, <1>5, NoTradeIs DEF Placed
<1> QED BY <1>1, <1>6, <1>7, <1>8 DEF IInv, BeforeOpen, InsideBar

\* What the closes leave at an open: the trade manager sees no difference.
Settling(bk) ==
    /\ TakenOut(bk, book, {r \in TrancheRole : ClosesOf(r) # {}})
    /\ Unbracketed \in [TrancheRole -> Brackets]
    /\ \A r \in TrancheRole :
          /\ trade.tranches[r].state = "OPEN" =>
                 /\ Kept(trade, r, Unbracketed, bk.held, index - 1)
                 /\ bk.held[r] # NoEntry
          /\ trade.tranches[r].state # "OPEN" =>
                 Unbracketed[r] = NoBracket /\ bk.held[r] = NoEntry

\* The queue at an open, as the set of its orders.
LEMMA QueueIs ==
    ASSUME IInv, phase = "open"
    PROVE  /\ queued \in Seq(Orders)
           /\ \A r \in TrancheRole : ClosesOf(r) # {} <=> HasClose(Items(queued), r)
           /\ \A r \in TrancheRole : MatchedFor(r, trade, brackets, book.held, Items(queued), index - 1)
           /\ \A a \in Items(queued) : a \in Orders /\ Meant(a, trade, book.held)
           /\ EntryIsQueued <=> \A r \in TrancheRole : trade.tranches[r].state = "PENDING_ENTRY"
           /\ ~EntryIsQueued => NoPending(trade)
<1>1. Matched(trade, At, book.held, index - 1)
  BY DEF IInv, BeforeOpen
<1>2. At.brackets = brackets /\ At.queued = queued
  BY DEF At
<1>3. queued \in Seq(Orders)
  BY <1>1, <1>2 DEF Matched, Ats
<1>4. \A r \in TrancheRole : MatchedFor(r, trade, brackets, book.held, Items(queued), index - 1)
  BY <1>1, <1>2 DEF Matched
<1>5. \A a \in Items(queued) : a \in Orders /\ Meant(a, trade, book.held)
  BY <1>1, <1>2, <1>3 DEF Matched, Items
<1>6. ASSUME NEW r \in TrancheRole
      PROVE  ClosesOf(r) # {} <=> HasClose(Items(queued), r)
  BY DEF ClosesOf, HasClose, Items
<1>7. EntryIsQueued <=> \E a \in Items(queued) : a.kind = "OPEN"
  BY DEF EntryIsQueued, Items
<1>8. /\ "T1" \in TrancheRole /\ "T2" \in TrancheRole
      /\ \A r \in TrancheRole : r = "T1" \/ r = "T2"
      /\ trade.tranches["T1"].state = "PENDING_ENTRY" <=> trade.tranches["T2"].state = "PENDING_ENTRY"
  BY DEF IInv, Placed, Sound, TrancheRole
<1>9. ASSUME EntryIsQueued
      PROVE  \A r \in TrancheRole : trade.tranches[r].state = "PENDING_ENTRY"
  <2>1. PICK a \in Items(queued) : a.kind = "OPEN"
    BY <1>7, <1>9
  <2>2. a \in Orders /\ trade.tranches[a.role].state = "PENDING_ENTRY"
    BY <1>5, <2>1 DEF Meant
  <2>3. a.role \in TrancheRole
    BY <2>2 DEF Orders, Opens, Closes, OpenAction, CloseAction
  <2> QED BY <1>8, <2>2, <2>3
<1>10. ASSUME NEW r \in TrancheRole, trade.tranches[r].state = "PENDING_ENTRY"
       PROVE  EntryIsQueued
  <2>1. OpenAction(r, trade.side) \in Items(queued)
    BY <1>4, <1>10 DEF MatchedFor
  <2>2. OpenAction(r, trade.side).kind = "OPEN"
    BY DEF OpenAction
  <2> QED BY <1>7, <2>1, <2>2
<1> QED BY <1>3, <1>4, <1>5, <1>6, <1>8, <1>9, <1>10 DEF NoPending

\* The closes at an open take away what the trade manager has given up, and
\* nothing else.
LEMMA OpenSettles ==
    ASSUME IInv, phase = "open", NEW price \in Prices
    PROVE  Settling(AfterCloses(price))
<1>1. PICK bk : bk = AfterCloses(price)
  OBVIOUS
<1>2. /\ queued \in Seq(Orders)
      /\ \A r \in TrancheRole : ClosesOf(r) # {} <=> HasClose(Items(queued), r)
      /\ \A r \in TrancheRole : MatchedFor(r, trade, brackets, book.held, Items(queued), index - 1)
  BY QueueIs
<1>3. price \in Int /\ book \in Books /\ Balanced(book)
  BY BacktestAssumption DEF IInv, Placed
<1>4. PICK actions \in Seq(Orders) : actions = queued
  BY <1>2
<1>5. PICK given \in Books : given = book
  BY <1>3
<1>6. /\ bk \in Books /\ Balanced(bk)
      /\ bk.entries = book.entries
      /\ book.ruined => bk.ruined
      /\ \A r \in TrancheRole :
            bk.held[r] = IF HasClose(Items(queued), r) THEN NoEntry ELSE book.held[r]
  <2>1. bk = Settled(given, actions, price)
    BY <1>1, <1>4, <1>5 DEF AfterCloses
  <2>2. Balanced(given)
    BY <1>3, <1>5
  <2>3. /\ bk \in Books /\ Balanced(bk)
        /\ bk.entries = given.entries
        /\ given.ruined => bk.ruined
        /\ \A r \in TrancheRole :
              bk.held[r] = IF HasClose(Items(actions), r) THEN NoEntry ELSE given.held[r]
    BY <1>3, <2>1, <2>2, SettledIs
  <2> QED BY <1>4, <1>5, <2>3
<1>7. TakenOut(bk, book, {r \in TrancheRole : ClosesOf(r) # {}})
  BY <1>2, <1>6 DEF TakenOut
<1>8. \A r \in TrancheRole :
         Unbracketed[r] = IF HasClose(Items(queued), r) THEN NoBracket ELSE brackets[r]
  BY <1>2 DEF Unbracketed
<1>9. Unbracketed \in [TrancheRole -> Brackets]
  <2>1. NoBracket \in Brackets
    BY DEF NoBracket, Brackets, SideOrNone
  <2>2. brackets \in [TrancheRole -> Brackets]
    BY DEF IInv, BeforeOpen, Matched, Ats, At
  <2> QED BY <2>1, <2>2 DEF Unbracketed
<1>10. ASSUME NEW r \in TrancheRole
       PROVE  /\ trade.tranches[r].state = "OPEN" =>
                     /\ Kept(trade, r, Unbracketed, bk.held, index - 1)
                     /\ bk.held[r] # NoEntry
              /\ trade.tranches[r].state # "OPEN" =>
                     Unbracketed[r] = NoBracket /\ bk.held[r] = NoEntry
  <2>1. MatchedFor(r, trade, brackets, book.held, Items(queued), index - 1)
    BY <1>2
  <2>2. CASE HasClose(Items(queued), r)
    <3>1. trade.tranches[r].state # "OPEN"
      BY <2>1, <2>2 DEF MatchedFor
    <3> QED BY <1>6, <1>8, <2>2, <3>1
  <2>3. CASE ~HasClose(Items(queued), r)
    <3>1. Unbracketed[r] = brackets[r] /\ bk.held[r] = book.held[r]
      BY <1>6, <1>8, <2>3
    <3> QED BY <2>1, <2>3, <3>1 DEF MatchedFor, Kept
  <2> QED BY <2>2, <2>3
<1> QED BY <1>1, <1>7, <1>9, <1>10 DEF Settling
\* Without an entry in the queue the trade goes on as it was.
LEMMA StepWithoutEntry ==
    ASSUME IInv, NEW price \in Prices, OpenWithoutEntry(price)
    PROVE  IInv'
<1>1. PICK bk : bk = AfterCloses(price)
  OBVIOUS
<1>2. /\ phase = "open" /\ phase' = "inside" /\ index' = index /\ queued' = <<>>
      /\ bar' = [open |-> price, high |-> price, low |-> price, close |-> price]
      /\ brackets' = Unbracketed /\ book' = bk /\ entered' = 0 /\ trade' = trade
      /\ ~EntryIsQueued
  BY <1>1 DEF OpenWithoutEntry, BeginBar
<1>3. Settling(bk)
  BY <1>1, <1>2, OpenSettles
<1>4. NoPending(trade)
  BY <1>2, QueueIs
<1>5. ASSUME NEW r \in TrancheRole
      PROVE  MatchedFor(r, trade, Unbracketed, bk.held, {}, index - 1)
  <2>1. trade.tranches[r].state # "PENDING_ENTRY" /\ ~HasClose({}, r)
    BY <1>4 DEF NoPending, HasClose
  <2>2. CASE trade.tranches[r].state = "OPEN"
    <3>1. Kept(trade, r, Unbracketed, bk.held, index - 1) /\ bk.held[r] # NoEntry
      BY <1>3, <2>2 DEF Settling
    <3> QED BY <2>1, <2>2, <3>1 DEF MatchedFor
  <2>3. CASE trade.tranches[r].state # "OPEN"
    <3>1. Unbracketed[r] = NoBracket /\ bk.held[r] = NoEntry
      BY <1>3, <2>3 DEF Settling
    <3> QED BY <2>1, <2>3, <3>1 DEF MatchedFor
  <2> QED BY <2>2, <2>3
<1>6. Mid(trade, Resting(Unbracketed), bk.held, index - 1)
  <2>1. Sound(trade)
    BY DEF IInv, Placed
  <2>2. PICK e : e = index - 1
    OBVIOUS
  <2>3. Unbracketed \in [TrancheRole -> Brackets]
    BY <1>3 DEF Settling
  <2>4. PICK brs : brs = Unbracketed
    OBVIOUS
  <2>5. Matched(trade, Resting(brs), bk.held, e)
    BY <1>5, <2>2, <2>3, <2>4, RestingIs
  <2> QED BY <1>4, <2>1, <2>2, <2>4, <2>5 DEF Mid
<1>7. /\ index \in Nat /\ Sound(trade) /\ bk \in Books /\ Balanced(bk)
  BY <1>3 DEF IInv, Placed, Settling, TakenOut
<1>8. bar' \in Bars
  <2>1. price \in Int
    BY BacktestAssumption
  <2> QED BY <1>2, <2>1 DEF Bars
<1>9. Placed'
  BY <1>2, <1>7, <1>8 DEF Placed
<1>10. BeforeOpen' /\ InsideBar'
  BY <1>2, <1>6 DEF BeforeOpen, InsideBar
<1> QED BY <1>9, <1>10 DEF IInv

\* When an entry is dropped nothing is left: the tranches that waited were all
\* there was.
LEMMA StepSkippingEntry ==
    ASSUME IInv, NEW price \in Prices, OpenSkippingEntry(price)
    PROVE  IInv'
<1>1. PICK bk : bk = AfterCloses(price)
  OBVIOUS
<1>2. /\ phase = "open" /\ phase' = "inside" /\ index' = index /\ queued' = <<>>
      /\ bar' = [open |-> price, high |-> price, low |-> price, close |-> price]
      /\ brackets' = Unbracketed /\ book' = bk /\ entered' = 0 /\ trade' = NoTrade
      /\ EntryIsQueued
  BY <1>1 DEF OpenSkippingEntry, BeginBar
<1>3. Settling(bk)
  BY <1>1, <1>2, OpenSettles
<1>4. \A r \in TrancheRole : trade.tranches[r].state = "PENDING_ENTRY"
  BY <1>2, QueueIs
<1>5. ASSUME NEW r \in TrancheRole
      PROVE  MatchedFor(r, NoTrade, Unbracketed, bk.held, {}, index - 1)
  <2>1. Unbracketed[r] = NoBracket /\ bk.held[r] = NoEntry
    BY <1>3, <1>4 DEF Settling
  <2>2. NoTrade.tranches[r].state = "ABSENT"
    BY NoTradeIs
  <2> QED BY <2>1, <2>2 DEF MatchedFor, HasClose
<1>6. Mid(NoTrade, Resting(Unbracketed), bk.held, index - 1)
  <2>2. PICK e : e = index - 1
    OBVIOUS
  <2>3. Unbracketed \in [TrancheRole -> Brackets]
    BY <1>3 DEF Settling
  <2>4. PICK brs : brs = Unbracketed
    OBVIOUS
  <2>5. Matched(NoTrade, Resting(brs), bk.held, e)
    BY <1>5, <2>2, <2>3, <2>4, RestingIs
  <2> QED BY <2>2, <2>4, <2>5, NoTradeIs DEF Mid
<1>7. /\ index \in Nat /\ bk \in Books /\ Balanced(bk)
  BY <1>3 DEF IInv, Placed, Settling, TakenOut
<1>8. bar' \in Bars
  <2>1. price \in Int
    BY BacktestAssumption
  <2> QED BY <1>2, <2>1 DEF Bars
<1>9. Placed'
  BY <1>2, <1>7, <1>8, NoTradeIs DEF Placed
<1>10. BeforeOpen' /\ InsideBar'
  BY <1>2, <1>6 DEF BeforeOpen, InsideBar
<1> QED BY <1>9, <1>10 DEF IInv
\* The product of positive numbers is positive.
LEMMA ProductPositive ==
    ASSUME NEW a \in Nat \ {0}, NEW b \in Nat \ {0}
    PROVE  a * b \in Nat \ {0}
OBVIOUS

\* A position that is taken is not empty.
LEMMA LotsAreTaken ==
    ASSUME NEW cfg \in S!Configs, NEW spec \in S!Specs, NEW distance \in Int,
           NEW equity \in Int,
           NEW lots, lots = S!SizeEntry(cfg, spec, distance, equity).lots, lots # 0
    PROVE  lots * spec.contract \in Int \ {0}
<1>1. /\ cfg.pct \in Nat \ {0} /\ cfg.whole \in Nat \ {0}
      /\ cfg.max \in Nat \ {0} /\ cfg.base \in Nat \ {0}
  BY DEF S!Configs
<1>2. /\ spec.contract \in Nat \ {0} /\ spec.max \in Nat \ {0}
      /\ spec.min \in Nat \ {0} /\ spec.step \in Nat \ {0}
  BY DEF S!Specs
<1>3. PICK out : out = S!SizeEntry(cfg, spec, distance, equity)
  OBVIOUS
<1>4. PICK budget : budget = S!Budget(cfg, equity)
  OBVIOUS
<1>5. PICK risk : risk = S!RiskPerLot(cfg, spec, distance)
  OBVIOUS
<1>6. PICK floor : floor = S!FloorLots(cfg, spec)
  OBVIOUS
<1>7. PICK share : share = S!Least(budget \div risk, S!Least(cfg.max, spec.max))
  OBVIOUS
<1>8. /\ distance <= 0 => out = S!Rejected("NON_POSITIVE_RISK")
      /\ ~(distance <= 0) => \/ out = S!Finalise(floor, spec, FALSE)
                             \/ out = S!Finalise(floor, spec, TRUE)
                             \/ out = S!Finalise(share, spec, FALSE)
  BY <1>3, <1>4, <1>5, <1>6, <1>7, Zenon DEF S!SizeEntry
<1>9. ~(distance <= 0)
  <2>1. S!Rejected("NON_POSITIVE_RISK").lots = 0
    BY DEF S!Rejected
  <2> QED BY <1>3, <1>8, <2>1
<1>10. risk \in Nat \ {0}
  <2>1. distance \in Nat \ {0}
    BY <1>9
  <2>2. distance * spec.contract \in Nat \ {0}
    BY <1>2, <2>1, ProductPositive
  <2> QED BY <1>1, <1>5, <2>2, ProductPositive DEF S!RiskPerLot
<1>11. budget \in Int
  <2>1. equity * cfg.pct \in Int
    BY <1>1
  <2> QED BY <1>4, <2>1 DEF S!Budget, S!Abs
<1>12. floor \in Int /\ share \in Int
  <2>1. budget \div risk \in Int
    BY <1>10, <1>11
  <2> QED BY <1>1, <1>2, <1>6, <1>7, <2>1 DEF S!FloorLots, S!Greatest, S!Least
<1>13. PICK asked \in Int : \E c : out = S!Finalise(asked, spec, c)
  BY <1>8, <1>9, <1>12, Zenon
<1>14. PICK quantised : quantised = S!FloorToStep(asked, spec.step)
  OBVIOUS
<1>15. quantised \in Int
  <2>1. asked \div spec.step \in Int
    BY <1>2
  <2> QED BY <1>2, <1>14, <2>1 DEF S!FloorToStep
<1>16. lots = quantised /\ ~(quantised < spec.min)
  <2>1. PICK c : out = S!Finalise(asked, spec, c)
    BY <1>13
  <2>2. out = IF quantised < spec.min THEN S!Rejected("BELOW_BROKER_MINIMUM")
              ELSE [lots |-> quantised, confirm |-> c, rejection |-> "NONE"]
    BY <1>14, <2>1, Zenon DEF S!Finalise
  <2>3. S!Rejected("BELOW_BROKER_MINIMUM").lots = 0
    BY DEF S!Rejected
  <2> QED BY <1>3, <2>2, <2>3
<1>17. lots \in Nat \ {0}
  BY <1>2, <1>15, <1>16
<1> QED BY <1>2, <1>17, ProductPositive

\* An entry that is taken fills both tranches at once.
LEMMA StepWithEntry ==
    ASSUME IInv, NEW price \in Prices, OpenWithEntry(price)
    PROVE  IInv'
<1>1. PICK bk : bk = AfterCloses(price)
  OBVIOUS
<1>2. PICK q : q = Entry(price, bk).lots * Symbol.contract
  OBVIOUS
<1>3. PICK entry : entry = [side |-> trade.side, price |-> price, quantity |-> q, bar |-> index]
  OBVIOUS
<1>4. /\ phase = "open" /\ phase' = "inside" /\ index' = index /\ queued' = <<>>
      /\ bar' = [open |-> price, high |-> price, low |-> price, close |-> price]
      /\ brackets' = Unbracketed /\ entered' = q /\ trade' = trade
      /\ EntryIsQueued /\ ~Skipped(price, bk)
      /\ book' = [bk EXCEPT !.held = [r \in TrancheRole |-> entry], !.entries = @ + 2]
  BY <1>1, <1>2, <1>3 DEF OpenWithEntry, BeginBar
<1>5. Settling(bk)
  BY <1>1, <1>4, OpenSettles
<1>6. \A r \in TrancheRole : trade.tranches[r].state = "PENDING_ENTRY"
  BY <1>4, QueueIs
<1>7. /\ index \in Nat /\ Sound(trade) /\ bk \in Books /\ Balanced(bk) /\ price \in Int
  BY <1>5, BacktestAssumption DEF IInv, Placed, Settling, TakenOut
<1>8. trade.pendingStop \in Int /\ trade.side \in OrderSide
  <2>1. "T1" \in Live(trade)
    BY <1>6 DEF Live, TrancheRole
  <2> QED BY <1>7, <2>1 DEF Sound, Trades, Live
<1>9. q \in Int \ {0}
  <2>1. PICK distance : distance = Distance(price, trade.pendingStop)
    OBVIOUS
  <2>2. distance \in Int
    BY <1>7, <1>8, <2>1 DEF Distance
  <2>3. PICK lots : lots = Entry(price, bk).lots
    OBVIOUS
  <2>4. lots # 0
    BY <1>4, <2>3 DEF Skipped
  <2>5. PICK equity \in Int : equity = bk.equity
    BY <1>7 DEF Books
  <2>6. lots = S!SizeEntry(Config, Symbol, distance, equity).lots
    BY <2>1, <2>3, <2>5, Zenon DEF Entry
  <2>7. Config \in S!Configs /\ Symbol \in S!Specs
    BY BacktestAssumption DEF S!Valid
  <2>8. lots * Symbol.contract \in Int \ {0}
    BY <2>2, <2>4, <2>6, <2>7, LotsAreTaken
  <2> QED BY <1>2, <2>3, <2>8
<1>10. \A r \in TrancheRole : Unbracketed[r] = NoBracket /\ bk.held[r] = NoEntry
  BY <1>5, <1>6 DEF Settling
<1>11. PICK after : after = book'
  OBVIOUS
<1>12. after = [held |-> [r \in TrancheRole |-> entry], equity |-> bk.equity,
                ruined |-> bk.ruined, entries |-> bk.entries + 2, exits |-> bk.exits]
  BY <1>4, <1>7, <1>11 DEF Books
<1>13. after \in Books
  <2>1. entry \in Entries
    BY <1>3, <1>7, <1>8, <1>9 DEF Entries, SideOrNone
  <2>2. [r \in TrancheRole |-> entry] \in [TrancheRole -> Entries]
    BY <2>1
  <2> QED BY <1>7, <1>12, <2>2 DEF Books
<1>14. Balanced(after)
  <2>1. HeldIn(bk) = {}
    BY <1>10 DEF HeldIn
  <2>2. bk.entries - bk.exits = 0
    BY <1>7, <2>1, FS_EmptySet DEF Balanced
  <2>3. entry # NoEntry
    BY <1>3, <1>8 DEF NoEntry, OrderSide
  <2>4. HeldIn(after) = {"T1", "T2"}
    BY <1>12, <2>3 DEF HeldIn, TrancheRole
  <2>5. Cardinality({"T1", "T2"}) = 2
    <3>1. IsFiniteSet({"T1"}) /\ Cardinality({"T1"}) = 1
      BY FS_Singleton
    <3>2. "T2" \notin {"T1"} /\ {"T1"} \cup {"T2"} = {"T1", "T2"}
      OBVIOUS
    <3>3. Cardinality({"T1"} \cup {"T2"}) = Cardinality({"T1"}) + 1
      BY <3>1, <3>2, FS_AddElement
    <3> QED BY <3>1, <3>2, <3>3
  <2>6. (bk.entries + 2) - bk.exits = 2
    BY <1>7, <2>2 DEF Books
  <2> QED BY <1>12, <2>4, <2>5, <2>6 DEF Balanced
<1>15. Filling(trade, Resting(Unbracketed), after.held, price, index, q)
  <2>1. Resting(Unbracketed) \in Ats
    <3>1. <<>> \in Seq(Orders)
      OBVIOUS
    <3>2. Unbracketed \in [TrancheRole -> Brackets]
      BY <1>5 DEF Settling
    <3> QED BY <3>1, <3>2 DEF Ats, Resting
  <2>2. Resting(Unbracketed).queued = <<>> /\ Resting(Unbracketed).brackets = Unbracketed
    BY DEF Resting
  <2>3. \A r \in TrancheRole : after.held[r] = entry
    BY <1>12
  <2> QED BY <1>3, <1>6, <1>7, <1>9, <1>10, <2>1, <2>2, <2>3 DEF Filling
<1>16. bar' \in Bars /\ bar'.open = price
  BY <1>4, <1>7 DEF Bars
<1>17. Placed'
  BY <1>4, <1>7, <1>11, <1>13, <1>14, <1>16 DEF Placed
<1>18. BeforeOpen' /\ InsideBar'
  BY <1>4, <1>9, <1>11, <1>15, <1>16 DEF BeforeOpen, InsideBar
<1> QED BY <1>17, <1>18 DEF IInv
\* What is hit inside a bar leaves the books and the trade in agreement, and
\* enters nothing.
LEMMA StepInside ==
    ASSUME IInv, NEW high \in Prices, NEW low \in Prices, Inside(high, low)
    PROVE  IInv' /\ book'.entries = book.entries
<1>1. PICK br : br = [bar EXCEPT !.high = high, !.low = low]
  OBVIOUS
<1>2. PICK hits : hits = Hits(br)
  OBVIOUS
<1>3. /\ phase = "inside" /\ phase' = "close" /\ bar' = br
      /\ index' = index /\ queued' = queued /\ entered' = entered
      /\ brackets' = [r \in TrancheRole |-> IF r \in hits THEN NoBracket ELSE brackets[r]]
  BY <1>1, <1>2 DEF Inside
<1>4. PICK why1 : why1 = BracketExit(brackets["T1"], br).reason
  OBVIOUS
<1>5. PICK why2 : why2 = BracketExit(brackets["T2"], br).reason
  OBVIOUS
<1>6. PICK p1 : p1 = BracketExit(brackets["T1"], br).price
  OBVIOUS
<1>7. PICK p2 : p2 = BracketExit(brackets["T2"], br).price
  OBVIOUS
<1>8. trade' = Tell(trade, hits, why1, why2) /\ book' = TakeOut(book, hits, p1, p2)
  BY <1>1, <1>2, <1>4, <1>5, <1>6, <1>7, Zenon DEF Inside, Tell, TakeOut
<1>9. /\ index \in Nat /\ bar \in Bars /\ book \in Books /\ Balanced(book) /\ Sound(trade)
      /\ queued = <<>>
      /\ entered = 0 => Mid(trade, Resting(brackets), book.held, index - 1)
      /\ entered # 0 => Filling(trade, Resting(brackets), book.held, bar.open, index, entered)
  BY <1>3 DEF IInv, Placed, InsideBar
<1>10. br \in Bars /\ br.open = bar.open
  <2>1. high \in Int /\ low \in Int
    BY BacktestAssumption
  <2> QED BY <1>1, <1>9, <2>1 DEF Bars
<1>11. hits = HitsOf(brackets, br, index) /\ hits \subseteq TrancheRole
  BY <1>2, Zenon DEF Hits, HitsOf
<1>12. brackets \in [TrancheRole -> Brackets]
  <2>1. Resting(brackets) \in Ats
    BY <1>9 DEF Mid, Matched, Filling
  <2> QED BY <2>1 DEF Resting, Ats
<1>13. p1 \in Int /\ p2 \in Int
  <2>1. brackets["T1"] \in Brackets /\ brackets["T2"] \in Brackets
    BY <1>12 DEF TrancheRole
  <2>2. /\ ExitKnown(BracketExit(brackets["T1"], br), brackets["T1"], br)
        /\ ExitKnown(BracketExit(brackets["T2"], br), brackets["T2"], br)
    BY <1>10, <2>1, BracketExitIs
  <2> QED BY <1>6, <1>7, <2>2 DEF ExitKnown
<1>14. TakenOut(book', book, hits)
  <2>1. PICK given \in Books : given = book
    BY <1>9
  <2>2. Balanced(given)
    BY <1>9, <2>1
  <2>3. TakenOut(TakeOut(given, hits, p1, p2), given, hits)
    BY <1>13, <2>2, TakeOutIs
  <2> QED BY <1>8, <2>1, <2>3
<1>15. PICK brs2 : brs2 = [r \in TrancheRole |-> IF r \in hits THEN NoBracket ELSE brackets[r]]
  OBVIOUS
<1>16. ASSUME entered = 0
      PROVE  IInv'
  <2>1. Mid(trade', Resting(brs2), book'.held, index - 1) /\ Quiet(trade', br, index)
    <3>1. PICK i \in Int : i = index
      BY <1>9
    <3>2. PICK t : t = trade
      OBVIOUS
    <3>3. PICK brs : brs = brackets
      OBVIOUS
    <3>4. PICK bk : bk = book
      OBVIOUS
    <3>5. PICK after : after = book'
      OBVIOUS
    <3>6. PICK u : u = trade'
      OBVIOUS
    <3>7. Mid(t, Resting(brs), bk.held, i - 1)
      BY <1>9, <1>16, <3>1, <3>2, <3>3, <3>4
    <3>8. hits = HitsOf(brs, br, i)
      BY <1>11, <3>1, <3>3
    <3>9. TakenOut(after, bk, hits)
      BY <1>14, <3>4, <3>5
    <3>10. u = Tell(t, hits, BracketExit(brs["T1"], br).reason, BracketExit(brs["T2"], br).reason)
      BY <1>4, <1>5, <1>8, <3>2, <3>3, <3>6, Zenon
    <3>11. /\ Mid(u, Resting([r \in TrancheRole |-> IF r \in hits THEN NoBracket ELSE brs[r]]),
                  after.held, i - 1)
           /\ Quiet(u, br, i)
      BY <1>10, <3>7, <3>8, <3>9, <3>10, InsideMid
    <3> QED BY <1>15, <3>1, <3>3, <3>5, <3>6, <3>11
  <2>2. book' \in Books /\ Balanced(book') /\ Sound(trade')
    BY <1>14, <2>1 DEF TakenOut, Mid
  <2>3. Placed'
    BY <1>3, <1>9, <1>10, <2>2 DEF Placed
  <2>4. BeforeOpen' /\ InsideBar'
    BY <1>3, <1>9, <1>15, <1>16, <2>1 DEF BeforeOpen, InsideBar
  <2> QED BY <2>3, <2>4 DEF IInv
<1>17. ASSUME entered # 0
      PROVE  IInv'
  <2>1. Filling(trade, Resting(brackets), book.held, bar.open, index, entered)
    BY <1>9, <1>17
  <2>2. \A r \in TrancheRole : brackets[r] = NoBracket
    BY <2>1 DEF Filling, Resting
  <2>3. hits = {}
    BY <1>11, <2>2 DEF HitsOf
  <2>4. trade' = trade /\ book' = book
    BY <1>8, <2>3, Zenon DEF Tell, TakeOut
  <2>5. brackets' = brackets
    BY <1>3, <1>12, <2>3
  <2>6. Placed'
    BY <1>3, <1>9, <1>10, <2>4 DEF Placed
  <2>7. BeforeOpen' /\ InsideBar'
    BY <1>3, <1>9, <1>10, <1>17, <2>1, <2>4, <2>5 DEF BeforeOpen, InsideBar
  <2> QED BY <2>6, <2>7 DEF IInv
<1>18. book'.entries = book.entries
  BY <1>14 DEF TakenOut
<1> QED BY <1>16, <1>17, <1>18

\* The decision on a fill is a decision: a trade and its actions.
LEMMA FillDecides ==
    ASSUME NEW t, NEW price, NEW e, NEW q, NEW reference
    PROVE  \E u, actions : OnEntryFilled(t, price, e, q, reference) = Decision(u, actions)
<1>1. CASE EntryGap(price, reference)
  <2>1. OnEntryFilled(t, price, e, q, reference) = AbortEntry(WithQuantity(t, q), "ENTRY_GAP")
    BY <1>1, Zenon DEF OnEntryFilled
  <2> QED BY <2>1, Zenon DEF AbortEntry
<1>2. CASE ~EntryGap(price, reference)
  <2> DEFINE w    == WithQuantity(t, q)
             stop == w.pendingStop
             risk == IF w.side = "BUY" THEN price - stop ELSE stop - price
  <2>1. CASE risk <= 0
    <3>1. OnEntryFilled(t, price, e, q, reference) = AbortEntry(w, "INVALID_RISK")
      BY <1>2, <2>1, Zenon DEF OnEntryFilled
    <3> QED BY <3>1, Zenon DEF AbortEntry
  <2>2. CASE ~(risk <= 0)
    BY <1>2, <2>2, Zenon DEF OnEntryFilled
  <2> QED BY <2>1, <2>2
<1> QED BY <1>1, <1>2

\* The close of a bar only moves its close.
LEMMA QuietStays ==
    ASSUME NEW t, NEW b \in Bars, NEW i, Quiet(t, b, i), NEW price
    PROVE  Quiet(t, [b EXCEPT !.close = price], i)
<1>1. PICK c : c = [b EXCEPT !.close = price]
  OBVIOUS
<1>2. c.high = b.high /\ c.low = b.low
  BY <1>1 DEF Bars
<1>3. \A side, p : Touched(side, p, c) <=> Touched(side, p, b)
  BY <1>2 DEF Touched
<1> QED BY <1>1, <1>3 DEF Quiet
\* After the fill is heard of, all is matched as of this bar.
LEMMA FillHeard ==
    ASSUME NEW t, NEW brs, NEW held, NEW price, NEW e \in Int, NEW q,
           NEW reference, NEW b \in Bars, NEW d,
           d = IF q # 0 THEN OnEntryFilled(t, price, e, q, reference) ELSE Decision(t, <<>>),
           q = 0 => Mid(t, Resting(brs), held, e - 1) /\ Quiet(t, b, e),
           q # 0 => Filling(t, Resting(brs), held, price, e, q)
    PROVE  /\ Mid(d.trade, RegisterBrackets(Resting(brs), d, e), held, e)
           /\ Quiet(d.trade, b, e)
<1>1. PICK at : at = Resting(brs)
  OBVIOUS
<1>2. CASE q = 0
  <2>1. d = Decision(t, <<>>)
    BY <1>2
  <2>2. d.trade = t
    BY <2>1 DEF Decision
  <2>3. RegisterBrackets(at, d, e) = at
    BY <2>1, RegisterNone
  <2>4. Mid(t, at, held, e)
    <3>1. Sound(t) /\ NoPending(t) /\ Matched(t, at, held, e - 1) /\ t \in Trades
      BY <1>1, <1>2 DEF Mid, Sound
    <3>2. Matched(t, at, held, e)
      BY <3>1, MatchedLater
    <3> QED BY <3>1, <3>2 DEF Mid
  <2> QED BY <1>1, <1>2, <2>2, <2>3, <2>4
<1>3. CASE q # 0
  <2>1. d = OnEntryFilled(t, price, e, q, reference)
    BY <1>3
  <2>2. PICK u, actions : d = Decision(u, actions)
    BY <2>1, FillDecides
  <2>3. d.trade = u /\ d.actions = actions
    BY <2>2 DEF Decision
  <2>4. Filling(t, at, held, price, e, q)
    BY <1>1, <1>3
  <2>5. Carried(d, at, held, e, d.trade) /\ NoPending(d.trade) /\ Quiet(d.trade, b, e)
    BY <2>1, <2>4, FilledCarried
  <2>6. RegisterBrackets(at, Decision(d.trade, d.actions), e) = RegisterBrackets(at, d, e)
    BY <2>2, <2>3
  <2> QED BY <1>1, <2>5, <2>6 DEF Carried, Mid
<1> QED BY <1>2, <1>3

\* And after the bar is judged, for the next open.
LEMMA BarJudged ==
    ASSUME NEW t, NEW at, NEW held, NEW e \in Int, Mid(t, at, held, e),
           NEW b \in Bars, NEW signal \in Signals, Quiet(t, b, signal.index),
           NEW d, d = OnBarClose(t, b, signal)
    PROVE  Sound(d.trade) /\ Matched(d.trade, RegisterBrackets(at, d, e), held, e)
<1>1. PICK u, actions : d = Decision(u, actions)
  BY Zenon DEF OnBarClose
<1>2. d.trade = u /\ d.actions = actions
  BY <1>1 DEF Decision
<1>3. Carried(d, at, held, e, d.trade)
  BY OnBarCloseCarried
<1>4. RegisterBrackets(at, Decision(d.trade, d.actions), e) = RegisterBrackets(at, d, e)
  BY <1>1, <1>2
<1> QED BY <1>3, <1>4 DEF Carried

\* What the trade manager decides at a close and what the broker has registered
\* by then agree.
LEMMA StepClose ==
    ASSUME IInv, NEW price \in Prices, NEW side \in SideOrNone,
           NEW flip \in {"NONE", "UP", "DOWN"}, NEW stop \in Stops(side),
           Close(price, [index |-> index, side |-> side, stop |-> stop, hullFlip |-> flip])
    PROVE  IInv'
<1>1. PICK signal : signal = [index |-> index, side |-> side, stop |-> stop, hullFlip |-> flip]
  OBVIOUS
<1>2. PICK br : br = [bar EXCEPT !.close = price]
  OBVIOUS
<1>3. PICK filled : filled = IF entered # 0
                             THEN OnEntryFilled(trade, bar.open, index, entered, trade.referenceClose)
                             ELSE Decision(trade, <<>>)
  OBVIOUS
<1>4. PICK judged : judged = OnBarClose(filled.trade, br, signal)
  OBVIOUS
<1>5. PICK mid : mid = RegisterBrackets(At, filled, index)
  OBVIOUS
<1>6. PICK after : after = RegisterBrackets(mid, judged, index)
  OBVIOUS
<1>7. /\ phase = "close" /\ phase' = "open" /\ index' = index + 1 /\ bar' = NoBar
      /\ trade' = judged.trade /\ brackets' = after.brackets /\ queued' = after.queued
      /\ book' = book
  BY <1>1, <1>2, <1>3, <1>4, <1>5, <1>6, Zenon DEF Close, At
<1>8. /\ index \in Nat /\ bar \in Bars /\ book \in Books /\ Balanced(book) /\ queued = <<>>
      /\ entered = 0 => Mid(trade, Resting(brackets), book.held, index - 1)
                        /\ Quiet(trade, bar, index)
      /\ entered # 0 => Filling(trade, Resting(brackets), book.held, bar.open, index, entered)
  BY <1>7 DEF IInv, Placed, InsideBar
<1>9. price \in Int /\ stop \in Int /\ RrMult \in Int
  <2>1. \A p \in Prices : p \in Int
    BY BacktestAssumption
  <2>2. stop \in {0} \cup Prices
    BY DEF Stops
  <2> QED BY <2>1, <2>2, TradeManagerAssumption
<1>10. br \in Bars /\ (Quiet(trade, bar, index) => Quiet(trade, br, index))
  BY <1>2, <1>8, <1>9, QuietStays DEF Bars
<1>11. signal \in Signals /\ signal.index = index
  BY <1>1, <1>8, <1>9 DEF Signals
<1>12. At = Resting(brackets)
  BY <1>8 DEF At, Resting
<1>13. PICK e \in Int : e = index
  BY <1>8
<1>14. Mid(filled.trade, mid, book.held, e) /\ Quiet(filled.trade, br, e)
  <2>1. PICK t : t = trade
    OBVIOUS
  <2>2. PICK brs : brs = brackets
    OBVIOUS
  <2>3. PICK held : held = book.held
    OBVIOUS
  <2>4. PICK q : q = entered
    OBVIOUS
  <2>5. PICK open : open = bar.open
    OBVIOUS
  <2>6. PICK reference : reference = trade.referenceClose
    OBVIOUS
  <2>7. filled = IF q # 0 THEN OnEntryFilled(t, open, e, q, reference) ELSE Decision(t, <<>>)
    BY <1>3, <1>13, <2>1, <2>4, <2>5, <2>6
  <2>8. /\ q = 0 => Mid(t, Resting(brs), held, e - 1) /\ Quiet(t, br, e)
        /\ q # 0 => Filling(t, Resting(brs), held, open, e, q)
    BY <1>8, <1>10, <1>13, <2>1, <2>2, <2>3, <2>4, <2>5
  <2>9. /\ Mid(filled.trade, RegisterBrackets(Resting(brs), filled, e), held, e)
        /\ Quiet(filled.trade, br, e)
    BY <1>10, <2>7, <2>8, FillHeard
  <2> QED BY <1>5, <1>12, <1>13, <2>2, <2>3, <2>9
<1>15. Sound(judged.trade) /\ Matched(judged.trade, after, book.held, e)
  <2>1. PICK held : held = book.held
    OBVIOUS
  <2>2. PICK t : t = filled.trade
    OBVIOUS
  <2>3. Mid(t, mid, held, e) /\ Quiet(t, br, signal.index) /\ judged = OnBarClose(t, br, signal)
    BY <1>4, <1>11, <1>13, <1>14, <2>1, <2>2
  <2>4. Sound(judged.trade) /\ Matched(judged.trade, RegisterBrackets(mid, judged, e), held, e)
    BY <1>10, <1>11, <2>3, BarJudged
  <2> QED BY <1>6, <1>13, <2>1, <2>4
<1>16. At' = after
  <2>1. after \in Ats
    BY <1>15 DEF Matched
  <2>2. after = [brackets |-> after.brackets, queued |-> after.queued]
    BY <2>1 DEF Ats
  <2> QED BY <1>7, <2>2 DEF At
<1>17. Placed'
  <2>1. NoBar \in Bars /\ index + 1 \in Nat
    BY <1>8 DEF NoBar, Bars
  <2> QED BY <1>7, <1>8, <1>15, <2>1 DEF Placed
<1>18. BeforeOpen'
  <2>1. index' - 1 = e
    BY <1>7, <1>8, <1>13
  <2> QED BY <1>7, <1>15, <1>16, <2>1 DEF BeforeOpen
<1>19. InsideBar'
  BY <1>7 DEF InsideBar
<1> QED BY <1>17, <1>18, <1>19 DEF IInv

\* Every step keeps the invariant.
LEMMA StepIInv == IInv /\ [Next]_vars => IInv'
<1> SUFFICES ASSUME IInv, [Next]_vars PROVE IInv'
  OBVIOUS
<1>1. ASSUME NEW p \in Prices,
             OpenWithoutEntry(p) \/ OpenSkippingEntry(p) \/ OpenWithEntry(p)
      PROVE  IInv'
  BY <1>1, StepWithoutEntry, StepSkippingEntry, StepWithEntry
<1>2. ASSUME NEW high \in Prices, NEW low \in Prices, Inside(high, low)
      PROVE  IInv'
  BY <1>2, StepInside
<1>3. ASSUME NEW p \in Prices, NEW side \in OrderSide \cup {"NONE"},
             NEW flip \in {"NONE", "UP", "DOWN"}, NEW stop \in Stops(side),
             Close(p, [index |-> index, side |-> side, stop |-> stop, hullFlip |-> flip])
      PROVE  IInv'
  <2>1. side \in SideOrNone
    BY DEF SideOrNone
  <2> QED BY <1>3, <2>1, StepClose
<1>4. CASE UNCHANGED vars
  <2>1. /\ index' = index /\ phase' = phase /\ bar' = bar /\ trade' = trade
        /\ brackets' = brackets /\ queued' = queued /\ entered' = entered /\ book' = book
    BY <1>4 DEF vars
  <2> QED BY <2>1 DEF IInv, Placed, BeforeOpen, InsideBar, At
<1> QED BY <1>1, <1>2, <1>3, <1>4 DEF Next

\* The trade manager and the simulated broker stay in step through a run.
THEOREM StayInStep == Spec => []IInv
<1> QED BY InitIInv, StepIInv, PTL DEF Spec
------------------------------------------------------------------------------
(* The properties.                                                           *)

\* Between bars every position, bracket and order has its tranche, and every
\* tranche its position, bracket and order.
THEOREM BooksAgreeHolds == Spec => []BooksAgree
<1>1. IInv => BooksAgree
  <2> SUFFICES ASSUME IInv, phase = "open", NEW r \in TrancheRole
               PROVE  LET t == trade.tranches[r] IN
                      /\ book.held[r] # NoEntry <=> t.state = "OPEN" \/ ClosesOf(r) # {}
                      /\ t.state = "OPEN" =>
                             /\ book.held[r].side = t.side /\ book.held[r].price = t.entryPrice
                             /\ brackets[r].stopLoss = t.stopLoss
                             /\ brackets[r].takeProfit = t.takeProfit
                             /\ brackets[r].breakeven = t.breakevenMoved
                      /\ t.state # "OPEN" => brackets[r] = NoBracket
                      /\ t.state = "PENDING_ENTRY" <=>
                             \E i \in DOMAIN queued : queued[i] = OpenAction(r, trade.side)
    BY DEF BooksAgree
  <2>1. /\ MatchedFor(r, trade, brackets, book.held, Items(queued), index - 1)
        /\ ClosesOf(r) # {} <=> HasClose(Items(queued), r)
        /\ EntryIsQueued <=> \A x \in TrancheRole : trade.tranches[x].state = "PENDING_ENTRY"
    BY QueueIs
  <2>2. trade.tranches[r].side = trade.side
    BY DEF IInv, Placed, Sound
  <2>3. trade.tranches[r].state = "PENDING_ENTRY" <=>
            \E i \in DOMAIN queued : queued[i] = OpenAction(r, trade.side)
    <3>1. ASSUME trade.tranches[r].state = "PENDING_ENTRY"
          PROVE  \E i \in DOMAIN queued : queued[i] = OpenAction(r, trade.side)
      BY <2>1, <3>1 DEF MatchedFor, Items
    <3>2. ASSUME NEW i \in DOMAIN queued, queued[i] = OpenAction(r, trade.side)
          PROVE  trade.tranches[r].state = "PENDING_ENTRY"
      <4>1. queued[i].kind = "OPEN"
        BY <3>2 DEF OpenAction
      <4> QED BY <2>1, <4>1 DEF EntryIsQueued
    <3> QED BY <3>1, <3>2
  <2> QED BY <2>1, <2>2, <2>3 DEF MatchedFor, Kept
<1> QED BY <1>1, StayInStep, PTL

\* No entry is overwritten and none is closed twice.
THEOREM NoPositionIsLostHolds == Spec => []NoPositionIsLost
<1>1. IInv => NoPositionIsLost
  BY DEF IInv, Placed, Balanced, HeldIn, NoPositionIsLost
<1> QED BY <1>1, StayInStep, PTL

\* A breakeven stop has been earned by the other tranche's profit.
THEOREM BreakevenIsEarnedHolds == Spec => []BreakevenIsEarned
<1>1. IInv => BreakevenIsEarned
  BY DEF IInv, Placed, Sound, BreakevenIsEarned
<1> QED BY <1>1, StayInStep, PTL

\* A queued close names what is held.
THEOREM ClosesNameTheQuantityHolds == Spec => []ClosesNameTheQuantity
<1>1. IInv => ClosesNameTheQuantity
  <2> SUFFICES ASSUME IInv, phase = "open", NEW i \in DOMAIN queued, queued[i].kind = "CLOSE"
               PROVE  queued[i].quantity = book.held[queued[i].role].quantity
    BY DEF ClosesNameTheQuantity
  <2>1. queued[i] \in Items(queued)
    BY DEF Items
  <2>2. Meant(queued[i], trade, book.held)
    BY <2>1, QueueIs
  <2>3. queued[i] # OpenAction(queued[i].role, trade.side)
    BY DEF OpenAction
  <2> QED BY <2>2, <2>3 DEF Meant
<1> QED BY <1>1, StayInStep, PTL

\* A ruined account enters nothing any more.
THEOREM RuinIsFinalHolds == Spec => RuinIsFinal
<1>1. IInv /\ [Next]_vars => (book.ruined => book'.entries = book.entries)
  <2> SUFFICES ASSUME IInv, [Next]_vars, book.ruined
               PROVE  book'.entries = book.entries
    OBVIOUS
  <2>1. ASSUME NEW p \in Prices, phase = "open"
        PROVE  AfterCloses(p).entries = book.entries /\ AfterCloses(p).ruined
    <3>1. Settling(AfterCloses(p))
      BY <2>1, OpenSettles
    <3> QED BY <3>1 DEF Settling, TakenOut
  <2>2. ASSUME NEW p \in Prices, OpenWithoutEntry(p) \/ OpenSkippingEntry(p)
        PROVE  book'.entries = book.entries
    BY <2>1, <2>2 DEF OpenWithoutEntry, OpenSkippingEntry, BeginBar
  <2>3. ASSUME NEW p \in Prices, OpenWithEntry(p)
        PROVE  FALSE
    BY <2>1, <2>3 DEF OpenWithEntry, BeginBar, Skipped
  <2>4. ASSUME NEW high \in Prices, NEW low \in Prices, Inside(high, low)
        PROVE  book'.entries = book.entries
    BY <2>4, StepInside
  <2>5. ASSUME NEW p \in Prices, NEW signal, Close(p, signal)
        PROVE  book'.entries = book.entries
    BY <2>5 DEF Close
  <2>6. CASE UNCHANGED vars
    BY <2>6 DEF vars
  <2> QED BY <2>2, <2>3, <2>4, <2>5, <2>6 DEF Next
<1> QED BY <1>1, StayInStep, PTL DEF Spec, RuinIsFinal
=============================================================================
