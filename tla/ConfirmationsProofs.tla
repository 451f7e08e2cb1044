-------------------------- MODULE ConfirmationsProofs --------------------------
(***************************************************************************)
(* The safety of Confirmations for any questions, batch size, patience and *)
(* number of faults.                                                       *)
(***************************************************************************)
EXTENDS Confirmations, FiniteSetTheorems, WellFoundedInduction, TLAPS

\* What a notifier's next getUpdates acknowledges has been returned by one.
SkippedIsHeard ==
    \A p \in Pollers : offset[p] # NoOffset =>
        \A i \in DOMAIN updates :
            i < offset[p] /\ updates[i].kind = "owner" => i \in Heard

\* What a notifier returned lies below its offset, so it is not asked for again.
ReturnedIsSkipped ==
    \A p \in Pollers, i \in Ids :
        \/ returned[p][i] = 0
        \/ returned[p][i] = 1 /\ offset[p] # NoOffset /\ i < offset[p]

\* An update is about a question that was asked, and is not from the future.
PressesAreDated ==
    \A i \in DOMAIN updates : updates[i].about \in DOMAIN deadline /\ updates[i].at <= now

\* A response was received when its update was there.
ResponsesAreDated ==
    \A r \in responses :
        updates[r.update].at <= r.received_at /\ r.received_at <= now

IInv ==
    /\ TypeOK
    /\ AwaitedMeansShown
    /\ NothingForgottenUnread
    /\ SkippedIsHeard
    /\ ReturnedIsSkipped
    /\ PressesAreDated
    /\ ResponsesAreDated
------------------------------------------------------------------------------
(***************************************************************************)
(* Greatest elements.                                                      *)
(***************************************************************************)
LEMMA MaxOfTwo ==
    ASSUME NEW a \in Int, NEW b \in Int
    PROVE  Max({a, b}) = IF a >= b THEN a ELSE b
  BY DEF Max

LEMMA MinOfTwo ==
    ASSUME NEW a \in Int, NEW b \in Int
    PROVE  Min({a, b}) = IF a <= b THEN a ELSE b
  BY DEF Min

\* A bounded set of numbers that is not empty has a greatest one, and Max is it:
\* of what lies above its members up to the bound, one part contains no other.
LEMMA MaxIsGreatest ==
    ASSUME NEW n \in Nat, NEW S \in SUBSET (1..n), S # {}
    PROVE  Max(S) \in S /\ \A i \in S : i <= Max(S)
  <1> DEFINE R == StrictSubsetOrdering(Nat)
             T == {(i + 1)..n : i \in S}
  <1>1. T # {} /\ T \subseteq FiniteSubsetsOf(Nat)
    <2>1. ASSUME NEW i \in S
          PROVE  (i + 1)..n \in FiniteSubsetsOf(Nat)
      <3>1. IsFiniteSet((i + 1)..n) /\ (i + 1)..n \subseteq Nat
        BY FS_Interval
      <3> QED
        BY <3>1 DEF FiniteSubsetsOf
    <2> QED
      BY <2>1
  <1>2. IsWellFoundedOn(R, FiniteSubsetsOf(Nat))
    BY FS_StrictSubsetOrderingWellFounded
  <1>3. PICK x \in T : \A y \in T : <<y, x>> \notin R
    BY <1>1, <1>2, WFMin
  <1>4. PICK m \in S : x = (m + 1)..n
    OBVIOUS
  <1>5. \A i \in S : i <= m
    <2> SUFFICES ASSUME NEW i \in S, i > m
                 PROVE  FALSE
      OBVIOUS
    <2>1. (i + 1)..n \subseteq (m + 1)..n /\ i \in (m + 1)..n /\ i \notin (i + 1)..n
      OBVIOUS
    <2>2. <<(i + 1)..n, x>> \in R
      BY <1>4, <2>1 DEF StrictSubsetOrdering
    <2> QED
      BY <1>3, <2>2
  <1> QED
    BY <1>5 DEF Max
------------------------------------------------------------------------------
(***************************************************************************)
(* One getUpdates.                                                         *)
(***************************************************************************)
LEMMA ForgottenTypes ==
    ASSUME TypeOK, NEW p \in Pollers
    PROVE  /\ ForgottenBy(p) \in 0..Len(updates) /\ ForgottenBy(p) >= forgotten
           /\ offset[p] # NoOffset => /\ offset[p] \in 2..(Len(updates) + 1)
                                     /\ ForgottenBy(p) >= offset[p] - 1
           /\ ForgottenBy(p) > forgotten =>
                 offset[p] # NoOffset /\ ForgottenBy(p) = offset[p] - 1
  <1>0. /\ Len(updates) \in Nat /\ forgotten \in 0..Len(updates)
        /\ offset[p] \in {NoOffset} \cup 2..(Len(updates) + 1)
    BY DEF TypeOK
  <1>1. CASE offset[p] = NoOffset
    BY <1>0, <1>1 DEF ForgottenBy
  <1>2. CASE offset[p] # NoOffset
    <2>1. offset[p] \in 2..(Len(updates) + 1)
      BY <1>0, <1>2
    <2>2. forgotten \in Int /\ offset[p] - 1 \in Int
      BY <1>0, <2>1
    <2>3. ForgottenBy(p) = IF forgotten >= offset[p] - 1 THEN forgotten ELSE offset[p] - 1
      BY <1>2, <2>2, MaxOfTwo DEF ForgottenBy
    <2> QED
      BY <1>0, <1>2, <2>1, <2>3
  <1> QED
    BY <1>1, <1>2

\* What a getUpdates has Telegram forget was returned before.
LEMMA ForgottenIsHeard ==
    ASSUME TypeOK, NothingForgottenUnread, SkippedIsHeard, NEW p \in Pollers,
           NEW i \in DOMAIN updates, i <= ForgottenBy(p), updates[i].kind = "owner"
    PROVE  i \in Heard
  <1>1. /\ forgotten \in Nat /\ ForgottenBy(p) \in Nat /\ i \in Nat
        /\ offset[p] # NoOffset => offset[p] \in Nat
    BY ForgottenTypes, SMTT(30) DEF TypeOK
  <1>2. CASE i <= forgotten
    BY <1>2 DEF NothingForgottenUnread
  <1>3. CASE i > forgotten
    BY <1>1, <1>3, ForgottenTypes DEF SkippedIsHeard
  <1> QED
    BY <1>1, <1>2, <1>3

\* The offset moves past all that was returned, and past nothing else that was
\* not forgotten already.
LEMMA OffsetTypes ==
    ASSUME TypeOK, NEW p \in Pollers
    PROVE  /\ Returned(p) \subseteq DOMAIN updates
           /\ \A i \in Returned(p) : i > ForgottenBy(p)
           /\ Returned(p) = {} => OffsetAfter(p, Returned(p)) = offset[p]
           /\ Returned(p) # {} =>
                 /\ OffsetAfter(p, Returned(p)) \in 2..(Len(updates) + 1)
                 /\ \A i \in Returned(p) : i < OffsetAfter(p, Returned(p))
                 /\ \A i \in DOMAIN updates : i < OffsetAfter(p, Returned(p)) =>
                       i <= ForgottenBy(p) \/ i \in Returned(p)
  <1> DEFINE S == Returned(p)
  <1>1. Len(updates) \in Nat /\ DOMAIN updates = 1..Len(updates)
    BY DEF TypeOK
  <1>2. ForgottenBy(p) \in Nat /\ Batch \in Nat
    BY ForgottenTypes, ConfirmationsAssumption
  <1>3. S \subseteq 1..Len(updates) /\ \A i \in S : i > ForgottenBy(p)
    BY <1>1 DEF Returned
  <1>4. ASSUME S # {}
        PROVE  /\ OffsetAfter(p, S) \in 2..(Len(updates) + 1)
               /\ \A i \in S : i < OffsetAfter(p, S)
               /\ \A i \in DOMAIN updates : i < OffsetAfter(p, S) =>
                     i <= ForgottenBy(p) \/ i \in S
    <2>1. Max(S) \in S /\ \A i \in S : i <= Max(S)
      BY <1>1, <1>3, <1>4, MaxIsGreatest
    <2>2. OffsetAfter(p, S) = Max(S) + 1
      BY <1>4 DEF OffsetAfter
    <2>3. Max(S) <= ForgottenBy(p) + Batch
      BY <2>1 DEF Returned
    <2>4. ASSUME NEW i \in DOMAIN updates, i < Max(S) + 1, i > ForgottenBy(p)
          PROVE  i \in S
      <3>1. i <= ForgottenBy(p) + Batch
        BY <1>1, <1>2, <1>3, <2>1, <2>3, <2>4
      <3> QED
        BY <2>4, <3>1 DEF Returned
    <2>5. Max(S) \in 1..Len(updates)
      BY <1>3, <2>1
    <2>6. \A i \in S : i < Max(S) + 1
      BY <1>1, <1>3, <2>1, <2>5
    <2> QED
      BY <1>1, <1>2, <2>2, <2>4, <2>5, <2>6
  <1>5. S = {} => OffsetAfter(p, S) = offset[p]
    BY DEF OffsetAfter
  <1> QED
    BY <1>1, <1>3, <1>4, <1>5------------------------------------------------------------------------------
(***************************************************************************)
(* The steps.                                                              *)
(***************************************************************************)
\* A press adds one update to the queue and leaves the others alone.
LEMMA PressAdds ==
    ASSUME TypeOK, Press
    PROVE  /\ updates' \in Seq([about : Questions, kind : {"owner", "stray"}, at : 0..MaxTime])
           /\ Len(updates') = Len(updates) + 1 /\ Len(updates') <= MaxUpdates
           /\ DOMAIN updates' = DOMAIN updates \cup {Len(updates) + 1}
           /\ \A i \in DOMAIN updates : updates'[i] = updates[i]
           /\ updates'[Len(updates) + 1].about \in shown
           /\ updates'[Len(updates) + 1].at = now
           /\ \A i \in DOMAIN updates : i <= Len(updates)
           /\ DOMAIN updates \subseteq Int
  <1>1. PICK q \in shown, kind \in {"owner", "stray"} :
           updates' = Append(updates, [about |-> q, kind |-> kind, at |-> now])
    BY DEF Press
  <1> DEFINE u == [about |-> q, kind |-> kind, at |-> now]
             U == [about : Questions, kind : {"owner", "stray"}, at : 0..MaxTime]
  <1>2. u \in U /\ u.about = q /\ u.at = now
    BY DEF TypeOK
  <1>3. updates \in Seq(U) /\ Len(updates) < MaxUpdates /\ Len(updates) \in Nat
        /\ MaxUpdates \in Nat
    BY ConfirmationsAssumption DEF TypeOK, Press
  <1> HIDE DEF u, U
  <1>4. /\ updates' = Append(updates, u)
        /\ updates' \in Seq(U) /\ Len(updates') = Len(updates) + 1
        /\ DOMAIN updates' = DOMAIN updates \cup {Len(updates) + 1}
        /\ \A i \in DOMAIN updates : updates'[i] = updates[i]
        /\ updates'[Len(updates) + 1] = u
        /\ \A i \in DOMAIN updates : i <= Len(updates)
        /\ DOMAIN updates \subseteq Int
    BY <1>1, <1>2, <1>3 DEF u
  <1> QED
    BY <1>2, <1>3, <1>4 DEF U

\* A getUpdates that returns.
LEMMA PollEffect ==
    ASSUME TypeOK, NEW p \in Pollers, PollReturns(p)
    PROVE  /\ forgotten' = ForgottenBy(p)
           /\ offset' = [offset EXCEPT ![p] = OffsetAfter(p, Returned(p))]
           /\ OffsetAfter(p, Returned(p)) \in {NoOffset} \cup 2..(Len(updates) + 1)
           /\ returned' \in [Pollers -> [Ids -> 0..2]]
           /\ \A x \in Pollers, i \in Ids :
                 \/ returned'[x][i] = returned[x][i] /\ ~(x = p /\ i \in Accepted(Returned(p)))
                 \/ /\ x = p /\ i \in Accepted(Returned(p))
                    /\ returned[p][i] = 0 => returned'[p][i] = 1
           /\ responses' = responses \cup
                 {[update |-> i, received_at |-> now] : i \in Accepted(Returned(p))}
           /\ Accepted(Returned(p)) \subseteq Returned(p)
           /\ Heard' = Heard \cup Accepted(Returned(p))
  <1> DEFINE A == Accepted(Returned(p))
  <1>1. OffsetAfter(p, Returned(p)) \in {NoOffset} \cup 2..(Len(updates) + 1)
    <2>1. CASE Returned(p) = {}
      <3>1. offset[p] \in {NoOffset} \cup 2..(Len(updates) + 1)
        BY DEF TypeOK
      <3> QED
        BY <2>1, <3>1, OffsetTypes
    <2>2. CASE Returned(p) # {}
      BY <2>2, OffsetTypes
    <2> QED
      BY <2>1, <2>2
  <1>2. /\ returned' = [returned EXCEPT ![p] =
                          [i \in Ids |-> IF i \in A THEN Min({2, returned[p][i] + 1})
                                                    ELSE returned[p][i]]]
        /\ returned \in [Pollers -> [Ids -> 0..2]]
    BY DEF PollReturns, TypeOK
  <1>3. \A n \in 0..2 : Min({2, n + 1}) \in 0..2 /\ (n = 0 => Min({2, n + 1}) = 1)
    <2>1. \A n \in 0..2 : Min({2, n + 1}) = IF 2 <= n + 1 THEN 2 ELSE n + 1
      BY MinOfTwo
    <2> QED
      BY <2>1
  <1> HIDE DEF A
  <1>4. /\ returned' \in [Pollers -> [Ids -> 0..2]]
        /\ \A x \in Pollers, i \in Ids :
              \/ returned'[x][i] = returned[x][i] /\ ~(x = p /\ i \in A)
              \/ x = p /\ i \in A /\ (returned[p][i] = 0 => returned'[p][i] = 1)
    BY <1>2, <1>3
  <1>5. responses' = responses \cup {[update |-> i, received_at |-> now] : i \in A}
    BY DEF PollReturns, ReceivedAt, A
  <1>6. Heard' = Heard \cup A
    <2>1. {r.update : r \in {[update |-> i, received_at |-> now] : i \in A}} = A
      <3> DEFINE R == {[update |-> i, received_at |-> now] : i \in A}
      <3>1. \A i \in A : [update |-> i, received_at |-> now] \in R
                       /\ [update |-> i, received_at |-> now].update = i
        OBVIOUS
      <3>2. \A r \in R : r.update \in A
        OBVIOUS
      <3> HIDE DEF R
      <3>3. {r.update : r \in R} = A
        BY <3>1, <3>2
      <3> QED
        BY <3>3 DEF R
    <2>2. \A S, T : {r.update : r \in S \cup T} = {r.update : r \in S} \cup {r.update : r \in T}
      OBVIOUS
    <2> QED
      BY <1>5, <2>1, <2>2 DEF Heard
  <1>7. A \subseteq Returned(p)
    BY DEF A, Accepted
  <1> QED
    BY <1>1, <1>4, <1>5, <1>6, <1>7 DEF PollReturns, A

LEMMA TypeStep == TypeOK /\ [Next]_vars => TypeOK'
  <1> SUFFICES ASSUME TypeOK, [Next]_vars
               PROVE  TypeOK'
    OBVIOUS
  <1> USE ConfirmationsAssumption DEF telegram, poller, Fault
  <1>1. ASSUME Tick
        PROVE  TypeOK'
    BY <1>1 DEF Tick, TypeOK
  <1>2. ASSUME Press
        PROVE  TypeOK'
    <2>1. DOMAIN updates \subseteq DOMAIN updates' /\ Len(updates) \in Nat
      BY <1>2, PressAdds DEF TypeOK
    <2>2. /\ forgotten \in 0..Len(updates')
          /\ offset \in [Pollers -> {NoOffset} \cup 2..(Len(updates') + 1)]
          /\ responses \subseteq [update : DOMAIN updates', received_at : 0..MaxTime]
      BY <1>2, <2>1, PressAdds DEF TypeOK
    <2> QED
      BY <1>2, <2>2, PressAdds DEF Press, TypeOK
  <1>3. ASSUME Restart
        PROVE  TypeOK'
    BY <1>3 DEF Restart, TypeOK, Pollers, Fresh
  <1>4. ASSUME NEW p \in Pollers, NEW q \in Asks[p], Ask(p, q)
        PROVE  TypeOK'
    <2>1. q \in Questions
      BY DEF Questions
    <2>2. /\ DOMAIN deadline' = DOMAIN deadline \cup {q}
          /\ \A x \in DOMAIN deadline' : deadline'[x] \in Nat
      BY <1>4 DEF Ask, SetDeadline, TypeOK
    <2>3. /\ shown' \subseteq shown \cup {q} /\ delivered' \subseteq delivered \cup {q}
          /\ faults' \in 0..MaxFaults
      BY <1>4 DEF Ask, TypeOK
    <2> QED
      BY <1>4, <2>1, <2>2, <2>3 DEF Ask, TypeOK
  <1>5. ASSUME NEW p \in Pollers, Request(p)
        PROVE  TypeOK'
    BY <1>5 DEF Request, TypeOK
  <1>6. ASSUME NEW p \in Pollers, PollReturns(p)
        PROVE  TypeOK'
    <2>1. responses' \subseteq [update : DOMAIN updates, received_at : 0..MaxTime]
      BY <1>6, PollEffect, OffsetTypes, SMTT(30) DEF TypeOK
    <2>2. forgotten' \in 0..Len(updates)
      BY <1>6, PollEffect, ForgottenTypes
    <2>3. offset' \in [Pollers -> {NoOffset} \cup 2..(Len(updates) + 1)]
      <3> DEFINE Offsets == {NoOffset} \cup 2..(Len(updates) + 1)
      <3>1. /\ offset' = [offset EXCEPT ![p] = OffsetAfter(p, Returned(p))]
            /\ OffsetAfter(p, Returned(p)) \in Offsets
        BY <1>6, PollEffect
      <3>2. offset \in [Pollers -> Offsets]
        BY DEF TypeOK
      <3> HIDE DEF Offsets
      <3>3. offset' \in [Pollers -> Offsets]
        BY <3>1, <3>2
      <3> QED
        BY <3>3 DEF Offsets
    <2>4. /\ phase' \in [Pollers -> {"idle", "polling", "done"}]
          /\ sentAt' \in [Pollers -> 0..MaxTime]
      BY <1>6 DEF PollReturns, PhaseAfter, TypeOK
    <2> QED
      BY <1>6, <2>1, <2>2, <2>3, <2>4, PollEffect DEF PollReturns, TypeOK
  <1>7. ASSUME NEW p \in Pollers, PollFails(p)
        PROVE  TypeOK'
    <2>1. forgotten' \in 0..Len(updates)
      BY <1>7, ForgottenTypes DEF PollFails, TypeOK
    <2> QED
      BY <1>7, <2>1 DEF PollFails, TypeOK
  <1>8. CASE UNCHANGED vars
    BY <1>8 DEF vars, TypeOK
  <1> QED
    BY <1>1, <1>2, <1>3, <1>4, <1>5, <1>6, <1>7, <1>8 DEF Next
\* What an update of the queue says has a type.
LEMMA UpdateTypes ==
    ASSUME TypeOK
    PROVE  /\ \A i \in DOMAIN updates : i \in Nat /\ updates[i].at \in Nat
           /\ now \in Nat /\ forgotten \in Nat
           /\ \A r \in responses : r.update \in DOMAIN updates /\ r.received_at \in Nat
  <1> DEFINE U == [about : Questions, kind : {"owner", "stray"}, at : 0..MaxTime]
  <1>1. updates \in Seq(U) /\ MaxTime \in Nat
    BY ConfirmationsAssumption DEF TypeOK
  <1>2. \A u \in U : u.at \in Nat
    BY <1>1
  <1> HIDE DEF U
  <1>3. \A i \in DOMAIN updates : i \in Nat /\ updates[i] \in U
    BY <1>1
  <1>4. now \in Nat /\ forgotten \in Nat
    BY <1>1 DEF TypeOK
  <1>5. \A r \in responses : r.update \in DOMAIN updates /\ r.received_at \in Nat
    BY <1>1 DEF TypeOK
  <1> QED
    BY <1>2, <1>3, <1>4, <1>5

LEMMA ShownStep == AwaitedMeansShown /\ [Next]_vars => AwaitedMeansShown'
  <1> SUFFICES ASSUME AwaitedMeansShown, [Next]_vars
               PROVE  AwaitedMeansShown'
    OBVIOUS
  <1> USE DEF AwaitedMeansShown, telegram
  <1>1. ASSUME NEW p \in Pollers, NEW q \in Asks[p], Ask(p, q)
        PROVE  AwaitedMeansShown'
    BY <1>1 DEF Ask
  <1> QED
    BY <1>1 DEF Next, vars, Tick, Press, Restart, Request, PollReturns, PollFails

LEMMA DatesStep ==
    ASSUME TypeOK, PressesAreDated, ResponsesAreDated, [Next]_vars
    PROVE  PressesAreDated' /\ ResponsesAreDated'
  <1> USE DEF PressesAreDated, ResponsesAreDated, telegram, poller
  <1>1. ASSUME Tick
        PROVE  PressesAreDated' /\ ResponsesAreDated'
    <2>1. now' = now + 1 /\ UNCHANGED <<deadline, updates, responses>>
      BY <1>1 DEF Tick
    <2> QED
      BY <2>1, UpdateTypes
  <1>2. ASSUME Press
        PROVE  PressesAreDated' /\ ResponsesAreDated'
    <2>1. UNCHANGED <<now, deadline, responses>> /\ shown \subseteq DOMAIN deadline
      BY <1>2 DEF Press, TypeOK
    <2> DEFINE n == Len(updates) + 1
    <2>2. /\ DOMAIN updates' = DOMAIN updates \cup {n}
          /\ \A i \in DOMAIN updates : updates'[i] = updates[i]
          /\ updates'[n].about \in shown /\ updates'[n].at = now
      BY <1>2, PressAdds
    <2> HIDE DEF n
    <2> QED
      BY <2>1, <2>2, UpdateTypes
  <1>3. ASSUME NEW p \in Pollers, NEW q \in Asks[p], Ask(p, q)
        PROVE  PressesAreDated' /\ ResponsesAreDated'
    <2>1. DOMAIN deadline \subseteq DOMAIN deadline' /\ UNCHANGED <<now, updates, responses>>
      BY <1>3 DEF Ask, SetDeadline
    <2> QED
      BY <2>1
  <1>4. ASSUME NEW p \in Pollers, PollReturns(p)
        PROVE  PressesAreDated' /\ ResponsesAreDated'
    <2>1. UNCHANGED <<now, deadline, updates>>
      BY <1>4 DEF PollReturns
    <2>2. Accepted(Returned(p)) \subseteq DOMAIN updates
      BY OffsetTypes DEF Accepted
    <2>3. \A r \in responses' : updates[r.update].at <= r.received_at /\ r.received_at <= now
      BY <1>4, <2>2, PollEffect, UpdateTypes
    <2> QED
      BY <2>1, <2>3
  <1>5. CASE UNCHANGED <<now, deadline, updates, responses>>
    BY <1>5
  <1> QED
    BY <1>1, <1>2, <1>3, <1>4, <1>5 DEF Next, vars, Restart, Request, PollFails

LEMMA HeardStep ==
    ASSUME TypeOK, NothingForgottenUnread, SkippedIsHeard, [Next]_vars
    PROVE  NothingForgottenUnread' /\ SkippedIsHeard'
  <1> USE DEF NothingForgottenUnread, SkippedIsHeard, telegram, poller
  <1>1. ASSUME Press
        PROVE  NothingForgottenUnread' /\ SkippedIsHeard'
    <2> DEFINE n == Len(updates) + 1
    <2>1. UNCHANGED <<forgotten, offset, responses>>
      BY <1>1 DEF Press
    <2>2. /\ DOMAIN updates' = DOMAIN updates \cup {n}
          /\ \A i \in DOMAIN updates : updates'[i] = updates[i]
      BY <1>1, PressAdds
    <2>3. /\ ~(n <= forgotten)
          /\ \A p \in Pollers : offset[p] # NoOffset => ~(n < offset[p])
      BY DEF TypeOK
    <2> HIDE DEF n
    <2> QED
      BY <2>1, <2>2, <2>3 DEF Heard
  <1>2. ASSUME Restart
        PROVE  NothingForgottenUnread' /\ SkippedIsHeard'
    BY <1>2 DEF Restart, Pollers, TypeOK, Heard
  <1>3. ASSUME NEW p \in Pollers, PollReturns(p)
        PROVE  NothingForgottenUnread' /\ SkippedIsHeard'
    <2>1. /\ UNCHANGED updates
          /\ forgotten' = ForgottenBy(p)
          /\ offset' = [offset EXCEPT ![p] = OffsetAfter(p, Returned(p))]
          /\ Heard' = Heard \cup Accepted(Returned(p))
      BY <1>3, PollEffect DEF PollReturns
    <2>2. ASSUME NEW i \in DOMAIN updates, updates[i].kind = "owner",
                 i <= ForgottenBy(p) \/ i \in Returned(p)
          PROVE  i \in Heard'
      BY <2>1, <2>2, ForgottenIsHeard DEF Accepted
    <2>3. NothingForgottenUnread'
      BY <2>1, <2>2
    <2>4. ASSUME OffsetAfter(p, Returned(p)) # NoOffset,
                 NEW i \in DOMAIN updates, updates[i].kind = "owner",
                 i < OffsetAfter(p, Returned(p))
          PROVE  i \in Heard'
      <3>1. CASE Returned(p) = {}
        BY <2>1, <2>4, <3>1, OffsetTypes
      <3>2. CASE Returned(p) # {}
        BY <2>2, <2>4, <3>2, OffsetTypes
      <3> QED
        BY <3>1, <3>2
    <2>5. \A x \in Pollers : offset'[x] = IF x = p THEN OffsetAfter(p, Returned(p)) ELSE offset[x]
      BY <2>1 DEF TypeOK
    <2>6. SkippedIsHeard'
      BY <2>1, <2>4, <2>5
    <2> QED
      BY <2>3, <2>6
  <1>4. ASSUME NEW p \in Pollers, PollFails(p)
        PROVE  NothingForgottenUnread' /\ SkippedIsHeard'
    <2>1. UNCHANGED <<updates, offset, responses>> /\ forgotten' \in {forgotten, ForgottenBy(p)}
      BY <1>4 DEF PollFails
    <2> QED
      BY <2>1, ForgottenIsHeard DEF Heard
  <1>5. CASE UNCHANGED <<updates, forgotten, offset, responses>>
    BY <1>5 DEF Heard
  <1> QED
    BY <1>1, <1>2, <1>3, <1>4, <1>5 DEF Next, vars, Tick, Ask, Request

LEMMA ReturnedStep ==
    ASSUME TypeOK, ReturnedIsSkipped, [Next]_vars
    PROVE  ReturnedIsSkipped'
  <1> USE DEF ReturnedIsSkipped, telegram, poller
  <1>1. ASSUME Restart
        PROVE  ReturnedIsSkipped'
    BY <1>1 DEF Restart, Fresh, TypeOK
  <1>2. ASSUME NEW p \in Pollers, PollReturns(p)
        PROVE  ReturnedIsSkipped'
    <2> SUFFICES ASSUME NEW x \in Pollers, NEW i \in Ids
                 PROVE  \/ returned'[x][i] = 0
                        \/ returned'[x][i] = 1 /\ offset'[x] # NoOffset /\ i < offset'[x]
      OBVIOUS
    <2>1. \A y \in Pollers : offset'[y] = IF y = p THEN OffsetAfter(p, Returned(p)) ELSE offset[y]
      BY <1>2, PollEffect, SMTT(30) DEF TypeOK
    <2>2. CASE x # p
      BY <1>2, <2>1, <2>2, PollEffect
    <2>3. CASE x = p /\ i \in Accepted(Returned(p))
      <3>1. /\ i > ForgottenBy(p) /\ i < offset'[p] /\ i \in DOMAIN updates
            /\ offset'[p] \in 2..(Len(updates) + 1)
        BY <2>1, <2>3, OffsetTypes DEF Accepted
      <3>2. offset[p] # NoOffset => ForgottenBy(p) >= offset[p] - 1 /\ offset[p] \in Int
        BY ForgottenTypes
      <3>3. i \in Int /\ ForgottenBy(p) \in Int
        BY <3>1, ForgottenTypes, UpdateTypes
      <3>4. returned[p][i] = 0
        BY <3>1, <3>2, <3>3
      <3>5. returned'[p][i] = 1
        BY <1>2, <2>3, <3>4, PollEffect
      <3>6. offset'[p] # NoOffset
        BY <3>1, ConfirmationsAssumption DEF TypeOK
      <3> QED
        BY <2>3, <3>1, <3>5, <3>6
    <2>4. CASE x = p /\ i \notin Accepted(Returned(p))
      <3>1. returned'[p][i] = returned[p][i]
        BY <1>2, <2>4, PollEffect
      <3>2. CASE Returned(p) = {}
        BY <2>1, <2>4, <3>1, <3>2, OffsetTypes
      <3>3. CASE Returned(p) # {} /\ returned[p][i] # 0
        <4>1. PICK k \in Returned(p) : TRUE
          BY <3>3
        <4>2. k > ForgottenBy(p) /\ k < offset'[p] /\ k \in DOMAIN updates
          BY <2>1, OffsetTypes
        <4>3. offset'[p] \in 2..(Len(updates) + 1)
          BY <2>1, <3>3, OffsetTypes
        <4>4. offset[p] # NoOffset /\ i < offset[p] /\ offset[p] \in Int
              /\ ForgottenBy(p) >= offset[p] - 1 /\ ForgottenBy(p) \in Int
          BY <3>3, ForgottenTypes
        <4>5. i < offset'[p]
          BY <4>2, <4>3, <4>4, UpdateTypes DEF Ids
        <4>6. offset'[p] # NoOffset
          BY <4>3, ConfirmationsAssumption DEF TypeOK
        <4> QED
          BY <2>4, <3>1, <3>3, <4>5, <4>6
      <3> QED
        BY <2>4, <3>1, <3>2, <3>3
    <2> QED
      BY <2>2, <2>3, <2>4
  <1>3. CASE UNCHANGED <<offset, returned>>
    BY <1>3
  <1> QED
    BY <1>1, <1>2, <1>3 DEF Next, vars, Tick, Press, Ask, Request, PollFails
------------------------------------------------------------------------------
LEMMA InitIInv == Init => IInv
  <1> SUFFICES ASSUME Init
               PROVE  IInv
    OBVIOUS
  <1>1. TypeOK
    BY ConfirmationsAssumption DEF Init, TypeOK, Fresh
  <1> QED
    BY <1>1 DEF Init, IInv, AwaitedMeansShown, NothingForgottenUnread, SkippedIsHeard,
                ReturnedIsSkipped, PressesAreDated, ResponsesAreDated, Fresh

\* The inductive invariant of the confirmations.
THEOREM InductiveInvariant == Spec => []IInv
  <1>1. IInv /\ [Next]_vars => IInv'
    BY TypeStep, ShownStep, DatesStep, HeardStep, ReturnedStep DEF IInv
  <1> QED
    BY InitIInv, <1>1, PTL DEF Spec

\* request_confirmation that does not raise has put the question in the chat.
THEOREM AwaitedMeansShownHolds == Spec => []AwaitedMeansShown
  <1>1. IInv => AwaitedMeansShown
    BY DEF IInv
  <1> QED
    BY InductiveInvariant, <1>1, PTL

\* Whatever polls fail, whoever polls and however often the bot restarts, Telegram
\* forgets no press of the owner that no notifier has returned.
THEOREM NothingForgottenUnreadHolds == Spec => []NothingForgottenUnread
  <1>1. IInv => NothingForgottenUnread
    BY DEF IInv
  <1> QED
    BY InductiveInvariant, <1>1, PTL

\* No notifier returns a press twice.
THEOREM RepeatsNeedANewNotifierHolds == Spec => []RepeatsNeedANewNotifier
  <1>1. IInv => RepeatsNeedANewNotifier
    BY DEF IInv, ReturnedIsSkipped, RepeatsNeedANewNotifier
  <1> QED
    BY InductiveInvariant, <1>1, PTL

\* is_expired lets no response pass whose button was pressed after the deadline.
THEOREM InTimeMeansPressedInTimeHolds == Spec => []InTimeMeansPressedInTime
  <1>1. IInv => InTimeMeansPressedInTime
    <2> SUFFICES ASSUME IInv, NEW r \in responses,
                        ~IsExpired(updates[r.update].about, r.received_at)
                 PROVE  updates[r.update].at < deadline[updates[r.update].about]
      BY DEF InTimeMeansPressedInTime
    <2>1. /\ r.update \in DOMAIN updates /\ r.received_at \in Nat
          /\ updates[r.update].at \in Nat
      BY UpdateTypes DEF IInv
    <2>2. deadline[updates[r.update].about] \in Nat
      BY <2>1 DEF IInv, PressesAreDated, TypeOK
    <2>3. updates[r.update].at <= r.received_at
      BY DEF IInv, ResponsesAreDated
    <2> QED
      BY <2>1, <2>2, <2>3 DEF IsExpired
  <1> QED
    BY InductiveInvariant, <1>1, PTL
==============================================================================
