---------------------------- MODULE IntentIntake ----------------------------
(***************************************************************************)
(* POST /v1/intents: several clients ask for orders at once, each request  *)
(* in a transaction of its own (api/routes/execution.py over               *)
(* application/intent_service.py and OrderRepository).  A request passes   *)
(* the risk engine and the approval policy, its row and audit events are   *)
(* flushed, which is where the unique index on idempotency_key bites, and  *)
(* the route commits.  Answers can get lost, and clients ask again.        *)
(*                                                                         *)
(* Requests is a set of CreateIntentRequest records: the five fields of    *)
(* the idempotency key (the account is fixed), what the order is, the      *)
(* figures and rules the risk engine compares and the approval             *)
(* configuration.  0 stands for None in a price.                           *)
(***************************************************************************)
EXTENDS Integers, Sequences, FiniteSetsExt, OrderStates

CONSTANTS
    Clients,
    Requests,      \* what clients may ask for
    LastTime,      \* bound on the clock
    MaxAnswers,    \* bound on the requests served
    MaxFaults      \* bound on failed and unreported transactions

Metrics == {"ORDER_NOTIONAL", "ACCOUNT_CAPITAL", "SYMBOL_WEIGHT",
            "DAILY_LOSS", "MAX_DRAWDOWN"}    \* RiskMetric

RiskRule == [metric : Metrics, limit : Nat]

CreateIntentRequest ==
    [signal : STRING, version : Int, symbol : STRING, side : {"BUY", "SELL"},
     type : {"LIMIT", "MARKET"}, quantity : Int,
     limitPrice : Int, referencePrice : Int, stopLoss : Int, takeProfit : Int,
     reduceOnly : BOOLEAN, tranche : STRING, expiry : Int,
     capital : Int, weight : Int, loss : Int, drawdown : Int,
     rules : SUBSET RiskRule, mode : {"AUTO", "CONDITIONAL", "MANUAL"}, autoLimit : Int]

ASSUME IntakeAssumption ==
    /\ Requests \subseteq CreateIntentRequest /\ Requests # {}
    /\ LastTime \in Nat /\ MaxAnswers \in Nat /\ MaxFaults \in Nat

VARIABLES
    now,       \* the service's clock
    pc,        \* where each client's request is
    request,   \* the request a client's transaction serves
    draft,     \* the state the row is to be inserted in
    rows,      \* committed order_intents
    audits,    \* committed audit_events: <<event type, key>>
    outbox,    \* keys of the committed outbox_events
    answers,   \* what clients were told, in order
    faults

store == <<rows, audits, outbox>>
vars  == <<now, pc, request, draft, store, answers, faults>>
------------------------------------------------------------------------------
(***************************************************************************)
(* Deciding.                                                               *)
(***************************************************************************)
Upper(symbol) == IF symbol = "xauusd" THEN "XAUUSD" ELSE symbol

\* Mutant of Key: upper() is left out.
KeyAsSpelled(r) == <<r.signal, r.version, r.symbol, r.side>>

\* build_intent_key hashes five fields; SHA-256 keeps distinct tuples distinct.
Key(r) == <<r.signal, r.version, Upper(r.symbol), r.side>>

\* to_command: the price fields that the order type needs.
CommandValid(r) ==
    \/ r.type = "LIMIT" /\ r.limitPrice # 0
    \/ r.type = "MARKET" /\ r.limitPrice = 0 /\ r.referencePrice # 0

\* pricing_reference, of the command and of the intent.
Anchor(r) == IF r.limitPrice # 0 THEN r.limitPrice ELSE r.referencePrice

\* The actuals of RiskEngine.evaluate, from the RiskContext.
Actual(r) ==
    [m \in Metrics |-> CASE m = "ORDER_NOTIONAL"  -> r.quantity * Anchor(r)
                         [] m = "ACCOUNT_CAPITAL" -> r.capital
                         [] m = "SYMBOL_WEIGHT"   -> r.weight
                         [] m = "DAILY_LOSS"      -> r.loss
                         [] m = "MAX_DRAWDOWN"    -> r.drawdown]

\* RiskContext: notional and capital must be positive, the rest not negative.
ContextValid(r) ==
    /\ Actual(r)["ORDER_NOTIONAL"] > 0 /\ r.capital > 0
    /\ r.weight >= 0 /\ r.loss >= 0 /\ r.drawdown >= 0

Limits(r, m) == {rule.limit : rule \in {x \in r.rules : x.metric = m}}

\* Mutant of Allows: a metric without a rule is not limited.
AllowsUnlimited(r) ==
    \A m \in Metrics : Limits(r, m) # {} => Actual(r)[m] <= Min(Limits(r, m))

\* RiskEngine.evaluate: every metric has a rule and meets the tightest.
Allows(r) ==
    \A m \in Metrics : Limits(r, m) # {} /\ Actual(r)[m] <= Min(Limits(r, m))

\* ExecutionIntent: what is given is positive, the prices are those of the type
\* and the brackets lie on their side of the anchor.
IntentValid(r) ==
    LET Below(p) == p = 0 \/ p < Anchor(r)
        Above(p) == p = 0 \/ p > Anchor(r)
    IN  /\ r.quantity > 0
        /\ \A p \in {r.limitPrice, r.referencePrice, r.stopLoss, r.takeProfit} : p >= 0
        /\ CommandValid(r)
        /\ IF r.side = "BUY" THEN Below(r.stopLoss) /\ Above(r.takeProfit)
                             ELSE Above(r.stopLoss) /\ Below(r.takeProfit)

\* ApprovalPolicy.decide followed by APPROVAL_STATES.
Decide(r) ==
    CASE now >= r.expiry                              -> "EXPIRED"
      [] now < r.expiry /\ r.mode = "AUTO"            -> "QUEUED"
      [] now < r.expiry /\ r.mode = "CONDITIONAL"
         /\ r.autoLimit # 0
         /\ r.quantity * Anchor(r) <= r.autoLimit     -> "QUEUED"
      [] OTHER                                        -> "PENDING_APPROVAL"

------------------------------------------------------------------------------
Answer(r, a) == answers' = Append(answers, [request |-> r, answer |-> a])

Goto(c, label) == pc' = [pc EXCEPT ![c] = label]

Init ==
    /\ now = 0
    /\ pc = [c \in Clients |-> "idle"]
    /\ request \in [Clients -> {CHOOSE r \in Requests : TRUE}]
    /\ draft = [c \in Clients |-> "QUEUED"]
    /\ rows = {} /\ audits = {} /\ outbox = {}
    /\ answers = <<>>
    /\ faults = 0

Tick ==
    /\ now < LastTime
    /\ now' = now + 1
    /\ UNCHANGED <<pc, request, draft, store, answers, faults>>

\* Bounds the runs: requests answered or under way.
Room == Len(answers) + Cardinality({c \in Clients : pc[c] # "idle"}) < MaxAnswers

\* to_command, RiskContext or ExecutionIntent raises ValueError: 422.
RefuseInvalid(c, r) ==
    /\ pc[c] = "idle" /\ Room
    /\ \/ ~CommandValid(r)
       \/ ~ContextValid(r)
       \/ (Allows(r) \/ r.reduceOnly) /\ ~IntentValid(r)
    /\ Answer(r, "INVALID")
    /\ UNCHANGED <<now, pc, request, draft, store, faults>>

\* Risk says no and the order is not an exit: RiskRejected, with the audit
\* event flushed for the route to commit.
Deny(c, r) ==
    /\ pc[c] = "idle" /\ Room
    /\ CommandValid(r) /\ ContextValid(r)
    /\ ~Allows(r) /\ ~r.reduceOnly
    /\ request' = [request EXCEPT ![c] = r]
    /\ Goto(c, "rejecting")
    /\ UNCHANGED <<now, draft, store, answers, faults>>

\* Risk and approval have decided; the row goes to create_with_outbox.
Admit(c, r) ==
    /\ pc[c] = "idle" /\ Room
    /\ CommandValid(r) /\ ContextValid(r)
    /\ Allows(r) \/ r.reduceOnly
    /\ IntentValid(r)
    /\ request' = [request EXCEPT ![c] = r]
    /\ draft' = [draft EXCEPT ![c] = Decide(r)]
    /\ Goto(c, "inserting")
    /\ UNCHANGED <<now, store, answers, faults>>

\* Another transaction has flushed the key and not ended: the insert waits.
KeyInFlight(c) ==
    \E d \in Clients \ {c} :
        pc[d] = "flushed" /\ Key(request[d]) = Key(request[c])

\* Mutant of KeyTaken: the unique constraint is missing.
NoConstraint(c) == FALSE

KeyTaken(c) == \E row \in rows : row.key = Key(request[c])

Flush(c) ==
    /\ pc[c] = "inserting" /\ ~KeyInFlight(c) /\ ~KeyTaken(c)
    /\ Goto(c, "flushed")
    /\ UNCHANGED <<now, request, draft, store, answers, faults>>

\* Mutant of Duplicate: the conflict is reported as if the row were new.
DuplicateAsCreated(c) ==
    /\ pc[c] = "inserting" /\ ~KeyInFlight(c) /\ KeyTaken(c)
    /\ Answer(request[c], "CREATED")
    /\ Goto(c, "idle")
    /\ UNCHANGED <<now, request, draft, store, faults>>

\* IntegrityError on uq_order_intent_idempotency: rolled back, 409.
Duplicate(c) ==
    /\ pc[c] = "inserting" /\ ~KeyInFlight(c) /\ KeyTaken(c)
    /\ Answer(request[c], "DUPLICATE")
    /\ Goto(c, "idle")
    /\ UNCHANGED <<now, request, draft, store, faults>>

\* The order's columns: create_with_outbox sets two of them, the others take
\* their defaults.
Columns(r) == [type |-> "LIMIT", quantity |-> r.quantity, limitPrice |-> r.limitPrice,
               stopLoss |-> 0, takeProfit |-> 0, reduceOnly |-> FALSE, tranche |-> ""]

\* What a commit of client c's transaction makes visible.
CommitEffect(c) ==
    LET r == request[c] IN
    IF pc[c] = "flushed"
    THEN /\ rows' = rows \cup {[key |-> Key(r), state |-> draft[c], request |-> r,
                             columns |-> Columns(r)]}
         /\ audits' = audits \cup {<<"RISK_DECIDED", Key(r)>>,
                                   <<"APPROVAL_DECIDED", Key(r)>>}
         /\ outbox' = outbox \cup
                (IF draft[c] = "QUEUED" THEN {Key(r)} ELSE {})
    ELSE /\ audits' = audits \cup {<<"RISK_REJECTED", Key(r)>>}
         /\ UNCHANGED <<rows, outbox>>

\* Mutant of Commit: RiskRejected is rolled back like any other exception.
CommitNoRejection(c) ==
    /\ pc[c] \in {"flushed", "rejecting"}
    /\ IF pc[c] = "flushed" THEN CommitEffect(c) ELSE UNCHANGED store
    /\ Answer(request[c], IF pc[c] = "flushed" THEN "CREATED" ELSE "RISK_REJECTED")
    /\ Goto(c, "idle")
    /\ UNCHANGED <<now, request, draft, faults>>

Commit(c) ==
    /\ pc[c] \in {"flushed", "rejecting"}
    /\ CommitEffect(c)
    /\ Answer(request[c], IF pc[c] = "flushed" THEN "CREATED" ELSE "RISK_REJECTED")
    /\ Goto(c, "idle")
    /\ UNCHANGED <<now, request, draft, faults>>

\* Mutant of Break: an event is written before its row is safe.
BreakAfterEvent(c) ==
    /\ faults < MaxFaults /\ faults' = faults + 1
    /\ pc[c] = "flushed"
    /\ outbox' = outbox \cup {Key(request[c])}
    /\ Answer(request[c], "ERROR")
    /\ Goto(c, "idle")
    /\ UNCHANGED <<now, request, draft, rows, audits>>

\* A statement or the commit fails and rolls back, or the commit succeeds and
\* its answer is lost.  Either way the client knows nothing.
Break(c) ==
    /\ faults < MaxFaults /\ faults' = faults + 1
    /\ pc[c] # "idle"
    /\ \/ UNCHANGED store
       \/ pc[c] \in {"flushed", "rejecting"} /\ CommitEffect(c)
    /\ Answer(request[c], "ERROR")
    /\ Goto(c, "idle")
    /\ UNCHANGED <<now, request, draft>>

Next ==
    \/ Tick
    \/ \E c \in Clients :
          \/ \E r \in Requests : RefuseInvalid(c, r) \/ Deny(c, r) \/ Admit(c, r)
          \/ Flush(c) \/ Duplicate(c) \/ Commit(c) \/ Break(c)

Spec == Init /\ [][Next]_vars
------------------------------------------------------------------------------
(***************************************************************************)
(* Properties.                                                             *)
(***************************************************************************)
SameOrder(r, s) ==
    /\ r.signal = s.signal /\ r.version = s.version /\ r.side = s.side
    /\ Upper(r.symbol) = Upper(s.symbol)

Keys == {Key(r) : r \in Requests}

AnswerKind == {"INVALID", "CREATED", "DUPLICATE", "RISK_REJECTED", "ERROR"}

\* Every variable keeps its type; a row is only ever inserted in one of the
\* states that APPROVAL_STATES produces.
TypeOK ==
    /\ now \in 0..LastTime
    /\ pc \in [Clients -> {"idle", "rejecting", "inserting", "flushed"}]
    /\ request \in [Clients -> Requests]
    /\ draft \in [Clients -> StartState]
    /\ rows \subseteq [key : Keys, state : StartState, request : Requests,
                       columns : {Columns(r) : r \in Requests}]
    /\ audits \subseteq {"RISK_DECIDED", "APPROVAL_DECIDED", "RISK_REJECTED"} \X Keys
    /\ outbox \subseteq Keys
    /\ answers \in Seq([request : Requests, answer : AnswerKind])
    /\ faults \in 0..MaxFaults

\* However requests interleave, fail, lose their answers and are repeated, at
\* most one row is stored for a signal, version, instrument and side, and an
\* instrument is the same however its name is spelled.
OneRowPerOrder ==
    \A a, b \in rows : SameOrder(a.request, b.request) => a = b

\* Row, audit trail and event are one transaction: a QUEUED row has its event,
\* an event has its QUEUED row, and every row carries both of its decisions.
EvidenceIsComplete ==
    /\ outbox = {row.key : row \in {x \in rows : x.state = "QUEUED"}}
    /\ \A row \in rows : {<<"RISK_DECIDED", row.key>>,
                          <<"APPROVAL_DECIDED", row.key>>} \subseteq audits

\* What a client was told is so: CREATED is said once for an order and its row
\* is there; DUPLICATE means that a row for this very order is there.  A client
\* that got no answer can therefore ask again and trust what it hears.
AnswersAreTrue ==
    /\ \A i \in DOMAIN answers : answers[i].answer \in {"CREATED", "DUPLICATE"} =>
           \E row \in rows : SameOrder(row.request, answers[i].request)
    /\ \A i, j \in DOMAIN answers :
           /\ answers[i].answer = "CREATED" /\ answers[j].answer = "CREATED"
           /\ SameOrder(answers[i].request, answers[j].request)
           => i = j

\* A client told RISK_REJECTED finds the decision in the audit trail, although
\* the handler left through an exception.
RejectionsAreAudited ==
    \A i \in DOMAIN answers : answers[i].answer = "RISK_REJECTED" =>
        <<"RISK_REJECTED", Key(answers[i].request)>> \in audits

\* Limits bind entries, and nothing else.  An entry that reaches the worker broke
\* none of the rules it came with and no kind of limit was missing from them; an
\* exit is never told that a limit stopped it.
LimitsBindEntries ==
    /\ \A row \in rows : row.state = "QUEUED" /\ ~row.request.reduceOnly =>
          /\ \A rule \in row.request.rules :
                 Actual(row.request)[rule.metric] <= rule.limit
          /\ {rule.metric : rule \in row.request.rules} = Metrics
    /\ \A i \in DOMAIN answers :
          answers[i].answer = "RISK_REJECTED" => ~answers[i].request.reduceOnly

\* The table of rows is the one OrderLifecycle speaks of: intake creates every
\* row once, in a state a row may start in, and leaves it alone ever after.
StateOf(key) ==
    IF \E row \in rows : row.key = key
    THEN (CHOOSE row \in rows : row.key = key).state ELSE "ABSENT"

Lifecycle == INSTANCE OrderLifecycle WITH
    Intents <- Keys,
    state   <- [k \in Keys |-> StateOf(k)],
    orders  <- [k \in Keys |-> 0]

CreatesAlongTheLifecycle == Lifecycle!Spec

\* Claimed by the fields' comments in domain/orders.py and by a test: the stop,
\* the exit flag and the tranche of an approved intent are there for whoever
\* executes its row.  as_domain makes the intent from the columns alone.
AsDomain(row) == row.columns

WhatWasApprovedIsStored ==
    \A row \in rows :
        /\ AsDomain(row).type = row.request.type
        /\ AsDomain(row).stopLoss = row.request.stopLoss
        /\ AsDomain(row).takeProfit = row.request.takeProfit
        /\ AsDomain(row).reduceOnly = row.request.reduceOnly
        /\ AsDomain(row).tranche = row.request.tranche
==============================================================================
