--------------------------- MODULE IntentIntakeProofs ---------------------------
(***************************************************************************)
(* The safety of IntentIntake for any clients and requests, and that it    *)
(* implements the creating step of OrderLifecycle.                         *)
(***************************************************************************)
EXTENDS IntentIntake, FiniteSetTheorems, WellFoundedInduction, TLAPS

\* A row carries the key and the columns of the request it came from, and no
\* two rows carry the same key.
RowsAreKeyed ==
    /\ \A row \in rows : row.key = Key(row.request)
    /\ \A a, b \in rows : a.key = b.key => a = b

\* A flushed insert has its key for itself: the unique index has seen it.
FlushedIsAlone ==
    \A c \in Clients : pc[c] = "flushed" =>
        /\ ~KeyTaken(c)
        /\ \A d \in Clients \ {c} : pc[d] = "flushed" => Key(request[d]) # Key(request[c])

\* What a transaction serves passed the risk engine or is an exit; what it is
\* about to reject is no exit.
RiskWasAsked ==
    /\ \A c \in Clients : pc[c] \in {"inserting", "flushed"} =>
           Allows(request[c]) \/ request[c].reduceOnly
    /\ \A c \in Clients : pc[c] = "rejecting" => ~request[c].reduceOnly
    /\ \A row \in rows : Allows(row.request) \/ row.request.reduceOnly
    /\ \A i \in DOMAIN answers :
           answers[i].answer = "RISK_REJECTED" => ~answers[i].request.reduceOnly

IInv ==
    /\ TypeOK
    /\ RowsAreKeyed
    /\ FlushedIsAlone
    /\ RiskWasAsked
    /\ EvidenceIsComplete
    /\ AnswersAreTrue
    /\ RejectionsAreAudited
------------------------------------------------------------------------------
(***************************************************************************)
(* Keys and limits.                                                        *)
(***************************************************************************)
\* Two requests ask for the same order exactly when their keys are equal.
LEMMA KeyTellsTheOrder ==
    ASSUME NEW r, NEW s
    PROVE  SameOrder(r, s) <=> Key(r) = Key(s)
  BY DEF SameOrder, Key

\* A set of numbers that is not empty has a least one, and Min is it: of the
\* initial segments that end in the set, one contains no other.
LEMMA MinIsLeast ==
    ASSUME NEW S \in SUBSET Nat, S # {}
    PROVE  Min(S) \in S /\ \A n \in S : Min(S) <= n
  <1> DEFINE R == StrictSubsetOrdering(Nat)
             T == {0..n : n \in S}
  <1>1. T # {} /\ T \subseteq FiniteSubsetsOf(Nat)
    <2>1. ASSUME NEW n \in S
          PROVE  0..n \in FiniteSubsetsOf(Nat)
      <3>1. IsFiniteSet(0..n) /\ 0..n \subseteq Nat
        BY FS_Interval
      <3> QED
        BY <3>1 DEF FiniteSubsetsOf
    <2> QED
      BY <2>1
  <1>2. IsWellFoundedOn(R, FiniteSubsetsOf(Nat))
    BY FS_StrictSubsetOrderingWellFounded
  <1>3. PICK x \in T : \A y \in T : <<y, x>> \notin R
    BY <1>1, <1>2, WFMin
  <1>4. PICK m \in S : x = 0..m
    OBVIOUS
  <1>5. \A n \in S : m <= n
    <2> SUFFICES ASSUME NEW n \in S, n < m
                 PROVE  FALSE
      OBVIOUS
    <2>1. 0..n \subseteq 0..m /\ 0..n # 0..m
      OBVIOUS
    <2>2. <<0..n, x>> \in R
      BY <1>4, <2>1 DEF StrictSubsetOrdering
    <2> QED
      BY <1>3, <2>2
  <1> QED
    BY <1>5 DEF Min

\* A request that the risk engine allows meets every rule it came with, and no
\* metric is without one.
LEMMA AllowedMeetsEveryRule ==
    ASSUME NEW r \in Requests, Allows(r)
    PROVE  /\ \A rule \in r.rules : Actual(r)[rule.metric] <= rule.limit
           /\ {rule.metric : rule \in r.rules} = Metrics
  <1>1. r.rules \subseteq RiskRule /\ r \in CreateIntentRequest
    BY IntakeAssumption DEF CreateIntentRequest
  <1>2. \A rule \in r.rules : rule.metric \in Metrics /\ rule.limit \in Nat
    BY <1>1 DEF RiskRule
  <1>3. \A m \in Metrics : Actual(r)[m] \in Int
    BY <1>1 DEF Actual, CreateIntentRequest, Anchor, Metrics
  <1>4. ASSUME NEW rule \in r.rules
        PROVE  Actual(r)[rule.metric] <= rule.limit
    <2>1. rule.limit \in Limits(r, rule.metric) /\ Limits(r, rule.metric) \subseteq Nat
      BY <1>2 DEF Limits
    <2>2. Min(Limits(r, rule.metric)) <= rule.limit /\ Min(Limits(r, rule.metric)) \in Nat
      BY <2>1, MinIsLeast
    <2> QED
      BY <1>2, <1>3, <2>2 DEF Allows
  <1>5. {rule.metric : rule \in r.rules} = Metrics
    BY <1>2 DEF Allows, Limits
  <1> QED
    BY <1>4, <1>5
------------------------------------------------------------------------------
(***************************************************************************)
(* What a commit does.                                                     *)
(***************************************************************************)
LEMMA Kinds ==
    /\ "QUEUED" \in StartState /\ "ABSENT" \notin StartState
    /\ \A r \in Requests : Decide(r) \in StartState /\ Key(r) \in Keys
  BY DEF StartState, Decide, Keys

\* The row that a commit of client c's insert makes visible.
NewRow(c) == [key |-> Key(request[c]), state |-> draft[c], request |-> request[c],
              columns |-> Columns(request[c])]

LEMMA CommitTypes ==
    ASSUME TypeOK, NEW c \in Clients, pc[c] \in {"flushed", "rejecting"}, CommitEffect(c)
    PROVE  /\ rows' \subseteq [key : Keys, state : StartState, request : Requests,
                               columns : {Columns(r) : r \in Requests}]
           /\ audits' \subseteq {"RISK_DECIDED", "APPROVAL_DECIDED", "RISK_REJECTED"} \X Keys
           /\ outbox' \subseteq Keys
  <1> USE DEF TypeOK
  <1>1. request[c] \in Requests /\ Key(request[c]) \in Keys /\ draft[c] \in StartState
    BY Kinds
  <1>2. NewRow(c) \in [key : Keys, state : StartState, request : Requests,
                       columns : {Columns(r) : r \in Requests}]
    BY <1>1 DEF NewRow
  <1>3. CASE pc[c] = "flushed"
    BY <1>1, <1>2, <1>3 DEF CommitEffect, NewRow
  <1>4. CASE pc[c] = "rejecting"
    BY <1>1, <1>4 DEF CommitEffect
  <1> QED
    BY <1>3, <1>4

LEMMA AnswerTypes ==
    ASSUME TypeOK, NEW r \in Requests, NEW a \in AnswerKind, Answer(r, a)
    PROVE  /\ answers' \in Seq([request : Requests, answer : AnswerKind])
           /\ DOMAIN answers' = DOMAIN answers \cup {Len(answers) + 1}
           /\ \A i \in DOMAIN answers : answers'[i] = answers[i]
           /\ answers'[Len(answers) + 1] = [request |-> r, answer |-> a]
           /\ Len(answers) + 1 \notin DOMAIN answers
  BY DEF Answer, TypeOK

\* An answer on the list was there or is the one just given.
LEMMA NewAnswer ==
    ASSUME TypeOK, NEW r \in Requests, NEW a \in AnswerKind, Answer(r, a)
    PROVE  \A i \in DOMAIN answers' :
              \/ i \in DOMAIN answers /\ answers'[i] = answers[i]
              \/ answers'[i].request = r /\ answers'[i].answer = a
  <1> DEFINE n == Len(answers) + 1
  <1>1. /\ DOMAIN answers' = DOMAIN answers \cup {n}
        /\ \A i \in DOMAIN answers : answers'[i] = answers[i]
        /\ answers'[n] = [request |-> r, answer |-> a]
    BY AnswerTypes
  <1> HIDE DEF n
  <1> QED
    BY <1>1
------------------------------------------------------------------------------
(***************************************************************************)
(* The steps.                                                              *)
(***************************************************************************)
LEMMA TypeStep == TypeOK /\ [Next]_vars => TypeOK'
  <1> SUFFICES ASSUME TypeOK, [Next]_vars
               PROVE  TypeOK'
    OBVIOUS
  <1> USE IntakeAssumption, Kinds DEF TypeOK, Goto, store
  <1>1. ASSUME Tick
        PROVE  TypeOK'
    BY <1>1 DEF Tick
  <1>2. ASSUME NEW c \in Clients, NEW r \in Requests, RefuseInvalid(c, r)
        PROVE  TypeOK'
    BY <1>2, AnswerTypes DEF RefuseInvalid, AnswerKind
  <1>3. ASSUME NEW c \in Clients, NEW r \in Requests, Deny(c, r)
        PROVE  TypeOK'
    BY <1>3 DEF Deny
  <1>4. ASSUME NEW c \in Clients, NEW r \in Requests, Admit(c, r)
        PROVE  TypeOK'
    BY <1>4 DEF Admit
  <1>5. ASSUME NEW c \in Clients, Flush(c)
        PROVE  TypeOK'
    BY <1>5 DEF Flush
  <1>6. ASSUME NEW c \in Clients, Duplicate(c)
        PROVE  TypeOK'
    BY <1>6, AnswerTypes DEF Duplicate, AnswerKind
  <1>7. ASSUME NEW c \in Clients, Commit(c)
        PROVE  TypeOK'
    BY <1>7, CommitTypes, AnswerTypes DEF Commit, AnswerKind
  <1>8. ASSUME NEW c \in Clients, Break(c)
        PROVE  TypeOK'
    <2>1. /\ rows' \subseteq [key : Keys, state : StartState, request : Requests,
                              columns : {Columns(r) : r \in Requests}]
          /\ audits' \subseteq {"RISK_DECIDED", "APPROVAL_DECIDED", "RISK_REJECTED"} \X Keys
          /\ outbox' \subseteq Keys
      BY <1>8, CommitTypes DEF Break
    <2>2. answers' \in Seq([request : Requests, answer : AnswerKind])
      BY <1>8, AnswerTypes DEF Break, AnswerKind
    <2> QED
      BY <1>8, <2>1, <2>2 DEF Break
  <1>9. CASE UNCHANGED vars
    BY <1>9 DEF vars
  <1> QED
    BY <1>1, <1>2, <1>3, <1>4, <1>5, <1>6, <1>7, <1>8, <1>9 DEF Next
\* A commit of an insert adds its row and the row's evidence, one of a rejection
\* its audit event.
LEMMA CommitShows ==
    ASSUME TypeOK, NEW c \in Clients, CommitEffect(c)
    PROVE  /\ pc[c] = "flushed" =>
                 /\ rows' = rows \cup {NewRow(c)}
                 /\ audits' = audits \cup {<<"RISK_DECIDED", Key(request[c])>>,
                                           <<"APPROVAL_DECIDED", Key(request[c])>>}
                 /\ outbox' = outbox \cup
                        (IF draft[c] = "QUEUED" THEN {Key(request[c])} ELSE {})
           /\ pc[c] = "rejecting" =>
                 /\ audits' = audits \cup {<<"RISK_REJECTED", Key(request[c])>>}
                 /\ rows' = rows /\ outbox' = outbox
           /\ NewRow(c).key = Key(request[c]) /\ NewRow(c).state = draft[c]
           /\ NewRow(c).request = request[c]
  BY DEF CommitEffect, NewRow

\* Committing the row of a flushed insert keeps the keys unique, and the flushed
\* inserts that are left are still alone.
LEMMA CommitKeepsKeys ==
    ASSUME TypeOK, RowsAreKeyed, FlushedIsAlone, NEW c \in Clients,
           pc[c] \in {"flushed", "rejecting"}, CommitEffect(c),
           pc' = [pc EXCEPT ![c] = "idle"], request' = request
    PROVE  RowsAreKeyed' /\ FlushedIsAlone'
  <1> USE DEF TypeOK, RowsAreKeyed, FlushedIsAlone, KeyTaken
  <1>1. CASE pc[c] = "flushed"
    <2>1. /\ rows' = rows \cup {NewRow(c)}
          /\ NewRow(c).key = Key(request[c]) /\ NewRow(c).request = request[c]
      BY <1>1, CommitShows
    <2>2. \A row \in rows : row.key # Key(request[c])
      BY <1>1
    <2>3. RowsAreKeyed'
      BY <2>1, <2>2
    <2>4. FlushedIsAlone'
      BY <1>1, <2>1
    <2> QED
      BY <2>3, <2>4
  <1>2. CASE pc[c] = "rejecting"
    BY <1>2, CommitShows
  <1> QED
    BY <1>1, <1>2

LEMMA KeysStep ==
    TypeOK /\ RowsAreKeyed /\ FlushedIsAlone /\ [Next]_vars
        => RowsAreKeyed' /\ FlushedIsAlone'
  <1> SUFFICES ASSUME TypeOK, RowsAreKeyed, FlushedIsAlone, [Next]_vars
               PROVE  RowsAreKeyed' /\ FlushedIsAlone'
    OBVIOUS
  <1> USE DEF TypeOK, RowsAreKeyed, FlushedIsAlone, KeyTaken, Goto, store
  <1>1. ASSUME Tick
        PROVE  RowsAreKeyed' /\ FlushedIsAlone'
    BY <1>1 DEF Tick
  <1>2. ASSUME NEW c \in Clients, NEW r \in Requests, RefuseInvalid(c, r)
        PROVE  RowsAreKeyed' /\ FlushedIsAlone'
    BY <1>2 DEF RefuseInvalid
  <1>3. ASSUME NEW c \in Clients, NEW r \in Requests, Deny(c, r)
        PROVE  RowsAreKeyed' /\ FlushedIsAlone'
    BY <1>3 DEF Deny
  <1>4. ASSUME NEW c \in Clients, NEW r \in Requests, Admit(c, r)
        PROVE  RowsAreKeyed' /\ FlushedIsAlone'
    BY <1>4 DEF Admit
  <1>5. ASSUME NEW c \in Clients, Flush(c)
        PROVE  RowsAreKeyed' /\ FlushedIsAlone'
    BY <1>5 DEF Flush, KeyInFlight
  <1>6. ASSUME NEW c \in Clients, Duplicate(c)
        PROVE  RowsAreKeyed' /\ FlushedIsAlone'
    BY <1>6 DEF Duplicate
  <1>7. ASSUME NEW c \in Clients, Commit(c)
        PROVE  RowsAreKeyed' /\ FlushedIsAlone'
    BY <1>7, CommitKeepsKeys DEF Commit
  <1>8. ASSUME NEW c \in Clients, Break(c)
        PROVE  RowsAreKeyed' /\ FlushedIsAlone'
    <2>1. CASE UNCHANGED store
      BY <1>8, <2>1 DEF Break
    <2>2. CASE pc[c] \in {"flushed", "rejecting"} /\ CommitEffect(c)
      BY <1>8, <2>2, CommitKeepsKeys DEF Break
    <2> QED
      BY <1>8, <2>1, <2>2 DEF Break
  <1>9. CASE UNCHANGED vars
    BY <1>9 DEF vars
  <1> QED
    BY <1>1, <1>2, <1>3, <1>4, <1>5, <1>6, <1>7, <1>8, <1>9 DEF Next
LEMMA RiskStep ==
    TypeOK /\ RiskWasAsked /\ [Next]_vars => RiskWasAsked'
  <1> SUFFICES ASSUME TypeOK, RiskWasAsked, [Next]_vars
               PROVE  RiskWasAsked'
    OBVIOUS
  <1> USE DEF TypeOK, RiskWasAsked, Goto, store
  <1>1. ASSUME Tick
        PROVE  RiskWasAsked'
    BY <1>1 DEF Tick
  <1>2. ASSUME NEW c \in Clients, NEW r \in Requests, RefuseInvalid(c, r)
        PROVE  RiskWasAsked'
    <2>1. Answer(r, "INVALID") /\ UNCHANGED <<pc, request, rows>>
      BY <1>2 DEF RefuseInvalid
    <2>2. \A i \in DOMAIN answers' :
             answers'[i].answer = "RISK_REJECTED" => ~answers'[i].request.reduceOnly
      BY <2>1, NewAnswer DEF AnswerKind
    <2> QED
      BY <2>1, <2>2
  <1>3. ASSUME NEW c \in Clients, NEW r \in Requests, Deny(c, r)
        PROVE  RiskWasAsked'
    BY <1>3 DEF Deny
  <1>4. ASSUME NEW c \in Clients, NEW r \in Requests, Admit(c, r)
        PROVE  RiskWasAsked'
    BY <1>4 DEF Admit
  <1>5. ASSUME NEW c \in Clients, Flush(c)
        PROVE  RiskWasAsked'
    BY <1>5 DEF Flush
  <1>6. ASSUME NEW c \in Clients, Duplicate(c)
        PROVE  RiskWasAsked'
    <2>1. Answer(request[c], "DUPLICATE") /\ request[c] \in Requests
      BY <1>6 DEF Duplicate
    <2>2. \A i \in DOMAIN answers' :
             answers'[i].answer = "RISK_REJECTED" => ~answers'[i].request.reduceOnly
      BY <2>1, NewAnswer DEF AnswerKind
    <2> QED
      BY <1>6, <2>2 DEF Duplicate
  <1>7. ASSUME NEW c \in Clients, Commit(c)
        PROVE  RiskWasAsked'
    <2>1. \A row \in rows' : Allows(row.request) \/ row.request.reduceOnly
      BY <1>7, CommitShows DEF Commit
    <2>2. \A i \in DOMAIN answers' :
             answers'[i].answer = "RISK_REJECTED" => ~answers'[i].request.reduceOnly
      <3> DEFINE a == IF pc[c] = "flushed" THEN "CREATED" ELSE "RISK_REJECTED"
      <3>1. /\ Answer(request[c], a) /\ request[c] \in Requests /\ a \in AnswerKind
            /\ a = "RISK_REJECTED" => ~request[c].reduceOnly
        BY <1>7 DEF Commit, AnswerKind
      <3> HIDE DEF a
      <3> QED
        BY <3>1, NewAnswer
    <2> QED
      BY <1>7, <2>1, <2>2 DEF Commit
  <1>8. ASSUME NEW c \in Clients, Break(c)
        PROVE  RiskWasAsked'
    <2>1. \A row \in rows' : Allows(row.request) \/ row.request.reduceOnly
      BY <1>8, CommitShows DEF Break
    <2>2. Answer(request[c], "ERROR") /\ request[c] \in Requests
      BY <1>8 DEF Break
    <2>3. \A i \in DOMAIN answers' :
             answers'[i].answer = "RISK_REJECTED" => ~answers'[i].request.reduceOnly
      BY <2>2, NewAnswer DEF AnswerKind
    <2> QED
      BY <1>8, <2>1, <2>3 DEF Break
  <1>9. CASE UNCHANGED vars
    BY <1>9 DEF vars
  <1> QED
    BY <1>1, <1>2, <1>3, <1>4, <1>5, <1>6, <1>7, <1>8, <1>9 DEF Next

\* The store changes by a commit or not at all.
LEMMA StoreStep ==
    ASSUME TypeOK, [Next]_vars
    PROVE  \/ UNCHANGED store
           \/ \E c \in Clients : pc[c] \in {"flushed", "rejecting"} /\ CommitEffect(c)
  BY DEF Next, vars, Tick, RefuseInvalid, Deny, Admit, Flush, Duplicate, Commit, Break

LEMMA EvidenceStep ==
    TypeOK /\ EvidenceIsComplete /\ [Next]_vars => EvidenceIsComplete'
  <1> SUFFICES ASSUME TypeOK, EvidenceIsComplete,
                      NEW c \in Clients, pc[c] \in {"flushed", "rejecting"}, CommitEffect(c)
               PROVE  EvidenceIsComplete'
    BY StoreStep DEF EvidenceIsComplete, store
  <1> USE DEF EvidenceIsComplete
  <1>1. CASE pc[c] = "rejecting"
    BY <1>1, CommitShows
  <1>2. CASE pc[c] = "flushed"
    <2>1. /\ rows' = rows \cup {NewRow(c)}
          /\ NewRow(c).key = Key(request[c]) /\ NewRow(c).state = draft[c]
          /\ outbox' = outbox \cup (IF draft[c] = "QUEUED" THEN {Key(request[c])} ELSE {})
          /\ audits' = audits \cup {<<"RISK_DECIDED", Key(request[c])>>,
                                    <<"APPROVAL_DECIDED", Key(request[c])>>}
      BY <1>2, CommitShows
    <2>2. outbox' = {row.key : row \in {x \in rows' : x.state = "QUEUED"}}
      BY <2>1
    <2>3. \A row \in rows' : {<<"RISK_DECIDED", row.key>>,
                              <<"APPROVAL_DECIDED", row.key>>} \subseteq audits'
      BY <2>1
    <2> QED
      BY <2>2, <2>3
  <1> QED
    BY <1>1, <1>2
------------------------------------------------------------------------------
(***************************************************************************)
(* What clients are told.                                                  *)
(***************************************************************************)
\* Rows and audit events are never taken back.
LEMMA StoreGrows ==
    ASSUME TypeOK, [Next]_vars
    PROVE  rows \subseteq rows' /\ audits \subseteq audits'
  BY StoreStep, CommitShows DEF store

\* A row of the order was there or is the one just committed; and the answer
\* CREATED is given only with a row whose key was free.
LEMMA AnswerStep ==
    ASSUME TypeOK, FlushedIsAlone, [Next]_vars
    PROVE  \/ answers' = answers
           \/ \E r \in Requests, a \in AnswerKind :
                 /\ Answer(r, a)
                 /\ a \in {"CREATED", "DUPLICATE"} => \E row \in rows' : row.key = Key(r)
                 /\ a = "CREATED" => \A row \in rows : row.key # Key(r)
                 /\ a = "RISK_REJECTED" => <<"RISK_REJECTED", Key(r)>> \in audits'
  <1> USE DEF TypeOK, AnswerKind
  <1> DEFINE Told == \E r \in Requests, a \in AnswerKind :
                 /\ Answer(r, a)
                 /\ a \in {"CREATED", "DUPLICATE"} => \E row \in rows' : row.key = Key(r)
                 /\ a = "CREATED" => \A row \in rows : row.key # Key(r)
                 /\ a = "RISK_REJECTED" => <<"RISK_REJECTED", Key(r)>> \in audits'
  <1>1. ASSUME NEW c \in Clients, NEW r \in Requests, RefuseInvalid(c, r)
        PROVE  Told
    BY <1>1 DEF RefuseInvalid
  <1>2. ASSUME NEW c \in Clients, Duplicate(c)
        PROVE  Told
    <2>1. Answer(request[c], "DUPLICATE") /\ request[c] \in Requests
      BY <1>2 DEF Duplicate
    <2>2. \E row \in rows' : row.key = Key(request[c])
      BY <1>2 DEF Duplicate, KeyTaken, store
    <2> QED
      BY <2>1, <2>2
  <1>3. ASSUME NEW c \in Clients, Commit(c)
        PROVE  Told
    <2>1. request[c] \in Requests /\ CommitEffect(c)
      BY <1>3 DEF Commit
    <2>2. CASE pc[c] = "flushed"
      <3>1. Answer(request[c], "CREATED") /\ \A row \in rows : row.key # Key(request[c])
        BY <1>3, <2>2 DEF Commit, FlushedIsAlone, KeyTaken
      <3>2. NewRow(c) \in rows' /\ NewRow(c).key = Key(request[c])
        BY <2>1, <2>2, CommitShows
      <3> QED
        BY <2>1, <3>1, <3>2
    <2>3. CASE pc[c] = "rejecting"
      <3>1. Answer(request[c], "RISK_REJECTED")
        BY <1>3, <2>3 DEF Commit
      <3>2. <<"RISK_REJECTED", Key(request[c])>> \in audits'
        BY <2>1, <2>3, CommitShows
      <3> QED
        BY <2>1, <3>1, <3>2
    <2> QED
      BY <1>3, <2>2, <2>3 DEF Commit
  <1>4. ASSUME NEW c \in Clients, Break(c)
        PROVE  Told
    BY <1>4 DEF Break
  <1> QED
    BY <1>1, <1>2, <1>3, <1>4 DEF Next, vars, Tick, Deny, Admit, Flush

LEMMA AnswersStep ==
    ASSUME TypeOK, TypeOK', RowsAreKeyed, RowsAreKeyed', FlushedIsAlone, AnswersAreTrue,
           RejectionsAreAudited, [Next]_vars
    PROVE  AnswersAreTrue' /\ RejectionsAreAudited'
  <1> DEFINE HasRow(r) == \E row \in rows : row.key = Key(r)
  <1>1. \A r \in Requests :
           (\E row \in rows : SameOrder(row.request, r)) <=> HasRow(r)
    BY KeyTellsTheOrder DEF RowsAreKeyed
  <1>2. \A r \in Requests :
           (\E row \in rows' : SameOrder(row.request, r)) <=> (\E row \in rows' : row.key = Key(r))
    BY KeyTellsTheOrder DEF RowsAreKeyed
  <1>3. rows \subseteq rows' /\ audits \subseteq audits'
    BY StoreGrows
  <1>4. CASE answers' = answers
    BY <1>3, <1>4 DEF AnswersAreTrue, RejectionsAreAudited
  <1>5. ASSUME NEW r \in Requests, NEW a \in AnswerKind, Answer(r, a),
               a \in {"CREATED", "DUPLICATE"} => \E row \in rows' : row.key = Key(r),
               a = "CREATED" => \A row \in rows : row.key # Key(r),
               a = "RISK_REJECTED" => <<"RISK_REJECTED", Key(r)>> \in audits'
        PROVE  AnswersAreTrue' /\ RejectionsAreAudited'
    <2> DEFINE n == Len(answers) + 1
    <2>1. /\ DOMAIN answers' = DOMAIN answers \cup {n}
          /\ \A i \in DOMAIN answers : answers'[i] = answers[i]
          /\ answers'[n] = [request |-> r, answer |-> a]
          /\ n \notin DOMAIN answers
      BY <1>5, AnswerTypes
    <2>2. answers'[n].answer = a /\ answers'[n].request = r
      BY <2>1
    <2>3. \A i \in DOMAIN answers : answers[i].request \in Requests
      <3> DEFINE Told == [request : Requests, answer : AnswerKind]
      <3>1. answers \in Seq(Told)
        BY DEF TypeOK
      <3>2. \A t \in Told : t.request \in Requests
        OBVIOUS
      <3> HIDE DEF Told
      <3>3. \A i \in DOMAIN answers : answers[i] \in Told
        BY <3>1
      <3> QED
        BY <3>2, <3>3
    <2> HIDE DEF n
    <2>4. \A i \in DOMAIN answers' : answers'[i].answer \in {"CREATED", "DUPLICATE"} =>
             \E row \in rows' : SameOrder(row.request, answers'[i].request)
      BY <1>2, <1>3, <1>5, <2>1, <2>2, <2>3 DEF AnswersAreTrue
    <2>5. ASSUME a = "CREATED", NEW i \in DOMAIN answers, answers[i].answer = "CREATED"
          PROVE  Key(answers[i].request) # Key(r)
      BY <1>1, <1>5, <2>3, <2>5 DEF AnswersAreTrue
    <2>6. \A i, j \in DOMAIN answers' :
             /\ answers'[i].answer = "CREATED" /\ answers'[j].answer = "CREATED"
             /\ SameOrder(answers'[i].request, answers'[j].request)
             => i = j
      BY <2>1, <2>2, <2>5, KeyTellsTheOrder DEF AnswersAreTrue
    <2>7. RejectionsAreAudited'
      BY <1>3, <1>5, <2>1, <2>2 DEF RejectionsAreAudited
    <2> QED
      BY <2>4, <2>6, <2>7 DEF AnswersAreTrue
  <1> QED
    BY <1>4, <1>5, AnswerStep------------------------------------------------------------------------------
LEMMA InitIInv == Init => IInv
  <1> SUFFICES ASSUME Init
               PROVE  IInv
    OBVIOUS
  <1>1. TypeOK
    <2>1. (CHOOSE r \in Requests : TRUE) \in Requests
      BY IntakeAssumption
    <2> QED
      BY <2>1, IntakeAssumption DEF Init, TypeOK, StartState
  <1>2. RowsAreKeyed /\ FlushedIsAlone /\ RiskWasAsked
    BY DEF Init, RowsAreKeyed, FlushedIsAlone, RiskWasAsked
  <1>3. EvidenceIsComplete
    BY DEF Init, EvidenceIsComplete
  <1>4. AnswersAreTrue /\ RejectionsAreAudited
    BY DEF Init, AnswersAreTrue, RejectionsAreAudited
  <1> QED
    BY <1>1, <1>2, <1>3, <1>4 DEF IInv

\* The inductive invariant of the intake.
THEOREM InductiveInvariant == Spec => []IInv
  <1>1. IInv /\ [Next]_vars => IInv'
    BY TypeStep, KeysStep, RiskStep, EvidenceStep, AnswersStep DEF IInv
  <1> QED
    BY InitIInv, <1>1, PTL DEF Spec

\* However create_intent's transactions interleave, break and are repeated, the
\* table holds at most one row for an order.
THEOREM OneRowPerOrderHolds == Spec => []OneRowPerOrder
  <1>1. IInv => OneRowPerOrder
    BY KeyTellsTheOrder DEF IInv, RowsAreKeyed, OneRowPerOrder
  <1> QED
    BY InductiveInvariant, <1>1, PTL

\* A row, its two audit events and its outbox event are visible together.
THEOREM EvidenceIsCompleteHolds == Spec => []EvidenceIsComplete
  <1>1. IInv => EvidenceIsComplete
    BY DEF IInv
  <1> QED
    BY InductiveInvariant, <1>1, PTL

\* CREATED is answered once for an order, CREATED and DUPLICATE only with its row.
THEOREM AnswersAreTrueHolds == Spec => []AnswersAreTrue
  <1>1. IInv => AnswersAreTrue
    BY DEF IInv
  <1> QED
    BY InductiveInvariant, <1>1, PTL

\* RISK_REJECTED is answered only with the decision in the audit trail.
THEOREM RejectionsAreAuditedHolds == Spec => []RejectionsAreAudited
  <1>1. IInv => RejectionsAreAudited
    BY DEF IInv
  <1> QED
    BY InductiveInvariant, <1>1, PTL

\* An entry with a row meets every rule it came with and lacks none, whatever
\* the rules are; no exit is told that a limit stopped it.
THEOREM LimitsBindEntriesHolds == Spec => []LimitsBindEntries
  <1>1. IInv => LimitsBindEntries
    <2> SUFFICES ASSUME IInv
                 PROVE  LimitsBindEntries
      OBVIOUS
    <2>1. \A row \in rows : row.request \in Requests
      BY DEF IInv, TypeOK
    <2>2. \A row \in rows : Allows(row.request) \/ row.request.reduceOnly
      BY DEF IInv, RiskWasAsked
    <2>3. ASSUME NEW row \in rows, ~row.request.reduceOnly
          PROVE  /\ \A rule \in row.request.rules :
                        Actual(row.request)[rule.metric] <= rule.limit
                 /\ {rule.metric : rule \in row.request.rules} = Metrics
      BY <2>1, <2>2, <2>3, AllowedMeetsEveryRule
    <2>4. \A i \in DOMAIN answers :
             answers[i].answer = "RISK_REJECTED" => ~answers[i].request.reduceOnly
      BY DEF IInv, RiskWasAsked
    <2> QED
      BY <2>3, <2>4 DEF LimitsBindEntries
  <1> QED
    BY InductiveInvariant, <1>1, PTL
------------------------------------------------------------------------------
(***************************************************************************)
(* The refinement: what intake does to a key is OrderLifecycle's Create.   *)
(***************************************************************************)
LEMMA CommitCreates ==
    ASSUME TypeOK, RowsAreKeyed, RowsAreKeyed', FlushedIsAlone,
           NEW c \in Clients, pc[c] = "flushed", CommitEffect(c)
    PROVE  \E k \in Keys : Lifecycle!Create(k)
  <1>0. PICK k0 \in Keys : k0 = Key(request[c])
    BY Kinds DEF TypeOK
  <1>1. /\ rows' = rows \cup {NewRow(c)}
        /\ NewRow(c).key = k0 /\ NewRow(c).state = draft[c]
    BY <1>0, CommitShows
  <1>2. PICK s \in StartState : s = draft[c]
    BY DEF TypeOK
  <1>3. StateOf(k0) = "ABSENT"
    BY <1>0 DEF StateOf, FlushedIsAlone, KeyTaken
  <1>4. StateOf(k0)' = s
    <2>1. (CHOOSE x \in rows' : x.key = k0) = NewRow(c)
      BY <1>1 DEF RowsAreKeyed
    <2>2. NewRow(c) \in rows'
      BY <1>1
    <2> QED
      BY <1>1, <1>2, <2>1, <2>2 DEF StateOf
  <1>5. ASSUME NEW k \in Keys, k # k0
        PROVE  StateOf(k)' = StateOf(k)
    <2>1. CASE \E row \in rows : row.key = k
      <3> PICK row \in rows : row.key = k
        BY <2>1
      <3>1. (CHOOSE x \in rows' : x.key = k) = row
        BY <1>1 DEF RowsAreKeyed
      <3>2. (CHOOSE x \in rows : x.key = k) = row
        BY DEF RowsAreKeyed
      <3> QED
        BY <1>1, <3>1, <3>2 DEF StateOf
    <2>2. CASE ~\E row \in rows : row.key = k
      BY <1>1, <1>5, <2>2 DEF StateOf
    <2> QED
      BY <2>1, <2>2
  <1>6. [k \in Keys |-> StateOf(k)]' = [[k \in Keys |-> StateOf(k)] EXCEPT ![k0] = s]
    BY <1>4, <1>5
  <1> QED
    BY <1>3, <1>6 DEF Lifecycle!Create, Lifecycle!StartState, StartState

LEMMA LifecycleStep ==
    ASSUME IInv, IInv', [Next]_vars
    PROVE  [Lifecycle!Next]_(Lifecycle!vars)
  <1>1. CASE UNCHANGED rows
    BY <1>1 DEF Lifecycle!vars, StateOf
  <1>2. ASSUME NEW c \in Clients, pc[c] = "flushed", CommitEffect(c)
        PROVE  Lifecycle!Next
    BY <1>2, CommitCreates, Kinds DEF IInv, TypeOK, Lifecycle!Next
  <1> QED
    BY <1>1, <1>2, StoreStep DEF IInv, store, CommitEffect

\* Intake implements OrderLifecycle: a row comes into being once, in a state it
\* may start in, and intake never touches it again.
THEOREM CreatesAlongTheLifecycleHolds == Spec => CreatesAlongTheLifecycle
  <1>1. Init => Lifecycle!Init
    BY DEF Init, Lifecycle!Init, StateOf
  <1>2. IInv /\ IInv' /\ [Next]_vars => [Lifecycle!Next]_(Lifecycle!vars)
    BY LifecycleStep
  <1> QED
    BY <1>1, <1>2, InductiveInvariant, PTL DEF Spec, CreatesAlongTheLifecycle, Lifecycle!Spec
==============================================================================
