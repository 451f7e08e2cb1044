---------------------------- MODULE ExecutionCore ----------------------------
(***************************************************************************)
(* The path of a queued order intent to the broker: the rows of            *)
(* order_intents and outbox_events, the execution workers that drain the   *)
(* outbox (workers/executor.py), the service that executes one intent      *)
(* (application/execution_service.py) over the two repositories, and the   *)
(* broker behind the BrokerAdapter port.                                   *)
(*                                                                         *)
(* An intent is its own idempotency key (the unique constraint; how keys   *)
(* are made is IntentIntake's) and its own outbox event, of which          *)
(* create_with_outbox writes one.  The number of an intent stands for      *)
(* created_at, which PostgreSQL takes when the transaction STARTS: rows    *)
(* may become visible in another order.                                    *)
(*                                                                         *)
(* The broker is external.  It is modelled by the contract of              *)
(* ports/broker.py: a lookup answers None only for a key nothing was ever  *)
(* sent under, and UNKNOWN when it cannot tell.  What it answers to an     *)
(* order comes as the return codes of Mt5Codes, which the fake broker's    *)
(* answers are a part of.                                                  *)
(***************************************************************************)
EXTENDS Integers, OrderStates, Mt5Codes

CONSTANTS
    Intents,         \* numbers of the intents, in created_at order
    Workers,         \* the processes running ExecutionWorker.run_forever
    Nobody,          \* the holder of a free row lock
    OrderTypes,      \* the order types clients ask for
    Ghosts,          \* events whose payload is unusable or names no row
    Unproven,        \* intents whose row lacks risk or approval evidence
    Dedup,           \* the broker drops a second order under a known key
    SessionsDrop,    \* PostgreSQL may end a session its client still uses
    MaxFaults        \* bound on crashes, dropped sessions and raised errors

ASSUME ExecutionAssumption ==
    /\ Intents \subseteq Nat
    /\ Nobody \notin Workers
    /\ OrderTypes \subseteq {"LIMIT", "MARKET"}
    /\ Ghosts \subseteq Intents
    /\ Unproven \subseteq Intents
    /\ Dedup \in BOOLEAN
    /\ SessionsDrop \in BOOLEAN
    /\ MaxFaults \in Nat

VARIABLES
    row,        \* order_intents.state, ABSENT before the insert commits
    priced,     \* the rows whose limit_price column is not NULL
    outbox,     \* the committed rows of outbox_events
    published,  \* those whose published_at is set
    orderLock,  \* who holds FOR UPDATE on the order_intents row
    eventLock,  \* who holds FOR UPDATE on the outbox_events row
    pc,         \* where each worker is
    event,      \* the event a worker is processing
    result,     \* the BrokerOrderResult state a worker is about to save
    sent,       \* the keys the adapter has (or may have) sent an order under
    wire,       \* requests on their way to the broker, per key
    orders,     \* orders the broker has accepted, per key
    broker,     \* the state of the key's order at the broker
    faults      \* faults injected so far

rows    == <<row, priced, outbox, published>>
locks   == <<orderLock, eventLock>>
market  == <<sent, wire, orders, broker>>
vars    == <<rows, locks, pc, event, result, market, faults>>

Located == {"lookup", "submit", "await", "relookup", "save"}

TypeOK ==
    /\ row \in [Intents -> OrderState \cup {"ABSENT"}]
    /\ priced \subseteq Intents
    /\ outbox \subseteq Intents
    /\ published \subseteq outbox
    /\ orderLock \in [Intents -> Workers \cup {Nobody}]
    /\ eventLock \in [Intents -> Workers \cup {Nobody}]
    /\ pc \in [Workers -> Located \cup {"idle", "claimed", "consume"}]
    /\ event \in [Workers -> Intents \cup {Nobody}]
    /\ \A w \in Workers : pc[w] # "idle" => event[w] \in outbox
    /\ result \in [Workers -> ResultState]
    /\ sent \subseteq Intents
    /\ wire \in [Intents -> Nat]
    /\ orders \in [Intents -> Nat]
    /\ broker \in [Intents -> BrokerState \cup {"NONE"}]
    /\ faults \in 0..MaxFaults

Init ==
    /\ row = [i \in Intents |-> "ABSENT"]
    /\ priced = {}
    /\ outbox = Ghosts
    /\ published = {}
    /\ orderLock = [i \in Intents |-> Nobody]
    /\ eventLock = [i \in Intents |-> Nobody]
    /\ pc = [w \in Workers |-> "idle"]
    /\ event = [w \in Workers |-> Nobody]
    /\ result = [w \in Workers |-> "UNKNOWN"]
    /\ sent = {}
    /\ wire = [i \in Intents |-> 0]
    /\ orders = [i \in Intents |-> 0]
    /\ broker = [i \in Intents |-> "NONE"]
    /\ faults = 0

(***************************************************************************)
(* The API commits an intent: the row, and in the same transaction the     *)
(* outbox event when approval leaves it QUEUED.  order_type and            *)
(* reference_price are not among the columns create_with_outbox sets, so a *)
(* MARKET order is stored as a LIMIT order without a price.                *)
(***************************************************************************)
CreateWithOutbox(i, type, state) ==
    /\ row[i] = "ABSENT" /\ i \notin Ghosts
    /\ row' = [row EXCEPT ![i] = state]
    /\ priced' = IF type = "LIMIT" THEN priced \cup {i} ELSE priced
    /\ outbox' = IF state = "QUEUED" THEN outbox \cup {i} ELSE outbox
    /\ UNCHANGED <<published, locks, pc, event, result, market, faults>>
------------------------------------------------------------------------------
(***************************************************************************)
(* The worker.                                                             *)
(***************************************************************************)
Goto(w, label) == pc' = [pc EXCEPT ![w] = label]

\* claim: the oldest unpublished row no other session has locked.
Claimable == {i \in outbox \ published : eventLock[i] = Nobody}

Claim(w) ==
    /\ pc[w] = "idle"
    /\ \E i \in Claimable :
          /\ \A j \in Claimable : i <= j
          /\ eventLock' = [eventLock EXCEPT ![i] = w]
          /\ event' = [event EXCEPT ![w] = i]
    /\ Goto(w, "claimed")
    /\ UNCHANGED <<rows, orderLock, result, market, faults>>

\* The payload is unusable, or lock_for_execution finds no row and raises
\* LookupError: the event is consumed.
SkipGhost(w) ==
    /\ pc[w] = "claimed" /\ row[event[w]] = "ABSENT"
    /\ Goto(w, "consume")
    /\ UNCHANGED <<rows, locks, event, result, market, faults>>

\* Mutant of LeaveRow: PermissionError is missing from TERMINAL_ERRORS.
LeaveRowSettledOnly(w) ==
    /\ pc[w] = "claimed" /\ orderLock[event[w]] = Nobody
    /\ row[event[w]] \notin {"ABSENT", "QUEUED"}
    /\ Goto(w, "consume")
    /\ UNCHANGED <<rows, locks, event, result, market, faults>>

\* lock_for_execution returns the row, and execute leaves again at once:
\* PermissionError (a TERMINAL_ERROR) without evidence, or the stored result
\* when the row has left QUEUED.  The finally clause releases the lock.
LeaveRow(w) ==
    LET i == event[w] IN
    /\ pc[w] = "claimed" /\ orderLock[i] = Nobody
    /\ row[i] # "ABSENT"
    /\ i \in Unproven \/ row[i] # "QUEUED"
    /\ Goto(w, "consume")
    /\ UNCHANGED <<rows, locks, event, result, market, faults>>

Loads(i) == i \in priced    \* as_domain: a LIMIT order requires limit_price

\* as_domain raises ValidationError: not a TERMINAL_ERROR, so the worker rolls
\* its claim back and starts over after error_backoff_seconds.
RejectRow(w) ==
    LET i == event[w] IN
    /\ pc[w] = "claimed" /\ orderLock[i] = Nobody
    /\ row[i] = "QUEUED" /\ i \notin Unproven
    /\ ~Loads(i)
    /\ Goto(w, "idle")
    /\ eventLock' = [j \in Intents |-> IF eventLock[j] = w THEN Nobody ELSE eventLock[j]]
    /\ event' = [event EXCEPT ![w] = Nobody]
    /\ UNCHANGED <<rows, orderLock, result, market, faults>>

\* Mutant of LockForExecution: the state check is dropped.
LockForExecutionBlind(w) ==
    LET i == event[w] IN
    /\ pc[w] = "claimed" /\ orderLock[i] = Nobody
    /\ row[i] # "ABSENT" /\ i \notin Unproven /\ Loads(i)
    /\ orderLock' = [orderLock EXCEPT ![i] = w]
    /\ Goto(w, "lookup")
    /\ UNCHANGED <<rows, eventLock, event, result, market, faults>>

\* The row is QUEUED and the lock is kept for the whole broker conversation.
\* Nothing on the way asks whether expires_at has passed.
LockForExecution(w) ==
    LET i == event[w] IN
    /\ pc[w] = "claimed" /\ orderLock[i] = Nobody
    /\ row[i] = "QUEUED" /\ i \notin Unproven
    /\ Loads(i)
    /\ orderLock' = [orderLock EXCEPT ![i] = w]
    /\ Goto(w, "lookup")
    /\ UNCHANGED <<rows, eventLock, event, result, market, faults>>

\* Mutant of Answers: a history scan without the write-ahead note.
AnswersFromHistory(i) == {broker[i]}

\* What lookup_by_client_order_id may answer for a key: None only if nothing
\* was sent under it, otherwise the order's state or UNKNOWN.
Answers(i) ==
    IF i \notin sent THEN {"NONE"}
    ELSE {"UNKNOWN"} \cup ({broker[i]} \ {"NONE"})

Take(w, r) ==
    /\ result' = [result EXCEPT ![w] = r]
    /\ Goto(w, "save")

Lookup(w) ==
    /\ pc[w] = "lookup"
    /\ \E a \in Answers(event[w]) :
          IF a = "NONE" THEN Goto(w, "submit") /\ UNCHANGED result
                        ELSE Take(w, a)
    /\ UNCHANGED <<rows, locks, event, market, faults>>

\* The adapter notes the key before it sends (mt5_links.reserve) and sends.
Submit(w) ==
    /\ pc[w] = "submit"
    /\ sent' = sent \cup {event[w]}
    /\ wire' = [wire EXCEPT ![event[w]] = @ + 1]
    /\ Goto(w, "await")
    /\ UNCHANGED <<rows, locks, event, result, orders, broker, faults>>

\* order_send answers.  build_result makes a result of the code and the filled
\* volume, or raises Mt5Ambiguous, a TimeoutError.
Reply(w) ==
    /\ pc[w] = "await"
    /\ \E a \in Retcodes(broker[event[w]]) :
          IF IsAmbiguous(a.code)
          THEN Goto(w, "relookup") /\ UNCHANGED result
          ELSE Take(w, ResolveState(a.code, a.filled))
    /\ UNCHANGED <<rows, locks, event, market, faults>>

\* submit raises a TimeoutError of its own, before or after sending.
TimeOut(w) ==
    /\ pc[w] \in {"submit", "await"}
    /\ Goto(w, "relookup")
    /\ UNCHANGED <<rows, locks, event, result, market, faults>>

\* Mutants of Relookup: None is passed on, None is taken for a rejection.
RelookupRaw(w) ==
    /\ pc[w] = "relookup"
    /\ \E a \in Answers(event[w]) : Take(w, a)
    /\ UNCHANGED <<rows, locks, event, market, faults>>

RelookupAsRejected(w) ==
    /\ pc[w] = "relookup"
    /\ Take(w, IF broker[event[w]] = "NONE" THEN "REJECTED" ELSE broker[event[w]])
    /\ UNCHANGED <<rows, locks, event, market, faults>>

\* The second lookup; None becomes UNKNOWN / AMBIGUOUS_TIMEOUT.
Relookup(w) ==
    /\ pc[w] = "relookup"
    /\ \E a \in Answers(event[w]) : Take(w, IF a = "NONE" THEN "UNKNOWN" ELSE a)
    /\ UNCHANGED <<rows, locks, event, market, faults>>

\* save_broker_result commits, which frees the row; a result that transition
\* refuses would raise instead and leave through Fail.
SaveBrokerResult(w) ==
    LET i == event[w] IN
    /\ pc[w] = "save" /\ orderLock[i] = w
    /\ Recordable(row[i], result[w])
    /\ row' = [row EXCEPT ![i] = result[w]]
    /\ orderLock' = [orderLock EXCEPT ![i] = Nobody]
    /\ Goto(w, "consume")
    /\ UNCHANGED <<priced, outbox, published, eventLock, event, result,
                   market, faults>>

MarkPublished(w) ==
    /\ pc[w] = "consume" /\ eventLock[event[w]] = w
    /\ published' = published \cup {event[w]}
    /\ eventLock' = [eventLock EXCEPT ![event[w]] = Nobody]
    /\ event' = [event EXCEPT ![w] = Nobody]
    /\ Goto(w, "idle")
    /\ UNCHANGED <<row, priced, outbox, orderLock, result, market, faults>>
------------------------------------------------------------------------------
(***************************************************************************)
(* Failures.                                                               *)
(***************************************************************************)
Release(w) ==
    /\ orderLock' = [j \in Intents |-> IF orderLock[j] = w THEN Nobody ELSE orderLock[j]]
    /\ eventLock' = [j \in Intents |-> IF eventLock[j] = w THEN Nobody ELSE eventLock[j]]
    /\ event' = [event EXCEPT ![w] = Nobody]
    /\ Goto(w, "idle")

\* The attempt ends by an exception that is no TERMINAL_ERROR (the adapter, a
\* statement, a commit) or by the death of the process: both sessions roll
\* back, and what was sent stays sent.  A worker whose session PostgreSQL
\* already ended finds out when it saves or consumes.
SessionLost(w) ==
    \/ pc[w] = "save" /\ orderLock[event[w]] # w
    \/ pc[w] = "consume" /\ eventLock[event[w]] # w

FindSessionLost(w) ==
    /\ SessionLost(w)
    /\ Release(w)
    /\ UNCHANGED <<rows, result, market, faults>>

\* Mutant of Fail: every exception consumes the event.
FailAndConsume(w) ==
    /\ pc[w] \in Located
    /\ faults < MaxFaults /\ faults' = faults + 1
    /\ orderLock' = [j \in Intents |-> IF orderLock[j] = w THEN Nobody ELSE orderLock[j]]
    /\ Goto(w, "consume")
    /\ UNCHANGED <<rows, eventLock, event, result, market>>

Fail(w) ==
    /\ pc[w] # "idle"
    /\ faults < MaxFaults /\ faults' = faults + 1
    /\ Release(w)
    /\ UNCHANGED <<rows, result, market>>

\* The commit of save_broker_result or mark_published takes effect, but the
\* connection or the process dies before the worker learns it.
DieAfterCommit(w) ==
    /\ faults < MaxFaults /\ faults' = faults + 1
    /\ \/ /\ pc[w] = "save" /\ orderLock[event[w]] = w
          /\ Recordable(row[event[w]], result[w])
          /\ row' = [row EXCEPT ![event[w]] = result[w]]
          /\ UNCHANGED published
       \/ /\ pc[w] = "consume" /\ eventLock[event[w]] = w
          /\ published' = published \cup {event[w]}
          /\ UNCHANGED row
    /\ Release(w)
    /\ UNCHANGED <<priced, outbox, result, market>>

\* PostgreSQL ends one of a worker's sessions (idle_in_transaction timeout, a
\* failover): the row lock is free while the worker goes on unaware.
DropSession(w) ==
    /\ SessionsDrop /\ pc[w] # "idle"
    /\ faults < MaxFaults /\ faults' = faults + 1
    /\ \/ /\ orderLock[event[w]] = w
          /\ orderLock' = [orderLock EXCEPT ![event[w]] = Nobody]
          /\ UNCHANGED eventLock
       \/ /\ eventLock[event[w]] = w
          /\ eventLock' = [eventLock EXCEPT ![event[w]] = Nobody]
          /\ UNCHANGED orderLock
    /\ UNCHANGED <<rows, pc, event, result, market>>
------------------------------------------------------------------------------
(***************************************************************************)
(* The broker (external).                                                  *)
(***************************************************************************)
Accept(i) ==
    /\ wire[i] > 0
    /\ wire' = [wire EXCEPT ![i] = @ - 1]
    /\ IF Dedup /\ broker[i] # "NONE"
       THEN UNCHANGED <<orders, broker>>
       ELSE /\ orders' = [orders EXCEPT ![i] = @ + 1]
            /\ broker' = [broker EXCEPT ![i] = "SUBMITTED"]
    /\ UNCHANGED <<rows, locks, pc, event, result, sent, faults>>

Refuse(i) ==
    /\ wire[i] > 0 /\ broker[i] = "NONE"
    /\ wire' = [wire EXCEPT ![i] = @ - 1]
    /\ broker' = [broker EXCEPT ![i] = "REJECTED"]
    /\ UNCHANGED <<rows, locks, pc, event, result, sent, orders, faults>>

Lose(i) ==
    /\ wire[i] > 0
    /\ wire' = [wire EXCEPT ![i] = @ - 1]
    /\ UNCHANGED <<rows, locks, pc, event, result, sent, orders, broker, faults>>

Progress(i) ==
    /\ broker[i] # "NONE"
    /\ \E s \in Allowed(broker[i]) \ {"UNKNOWN"} : broker' = [broker EXCEPT ![i] = s]
    /\ UNCHANGED <<rows, locks, pc, event, result, sent, wire, orders, faults>>
------------------------------------------------------------------------------
Api ==
    \E i \in Intents, t \in OrderTypes, s \in StartState :
        CreateWithOutbox(i, t, s)

Step(w) ==
    \/ Claim(w) \/ SkipGhost(w) \/ LeaveRow(w) \/ RejectRow(w)
    \/ LockForExecution(w) \/ Lookup(w) \/ Submit(w) \/ Reply(w) \/ TimeOut(w)
    \/ Relookup(w) \/ SaveBrokerResult(w) \/ MarkPublished(w)
    \/ FindSessionLost(w)

Failure(w) == Fail(w) \/ DieAfterCommit(w) \/ DropSession(w)

Market(i) == Accept(i) \/ Refuse(i) \/ Lose(i) \/ Progress(i)

Next ==
    \/ Api
    \/ \E w \in Workers : Step(w) \/ Failure(w)
    \/ \E i \in Intents : Market(i)

Spec == Init /\ [][Next]_vars

\* run_forever takes every worker's next step and every await on the broker
\* is bounded by a timeout; neither the API, the broker nor a failure has to act.
FairSpec == Spec /\ \A w \in Workers : WF_vars(Step(w))
------------------------------------------------------------------------------
(***************************************************************************)
(* Safety.                                                                 *)
(***************************************************************************)
\* However often an intent is claimed, retried or picked up after a crash, the
\* broker accepts at most one order under its key (executor.py, "at least
\* once" delivery is safe).
AtMostOneOrder == \A i \in Intents : orders[i] <= 1

\* An event is consumed only when its intent needs no further execution: the
\* row has left QUEUED, or there is no row or no evidence to execute.  A worker
\* dying between save and mark never strands a QUEUED row.
ConsumedMeansSettled ==
    \A i \in published : row[i] = "QUEUED" => i \in Unproven

\* The recorded state never contradicts the broker: it is the state the order
\* is in or one it has gone through, and a rejected key never holds an order
\* that lives.
RowAgreesWithBroker ==
    \A i \in Intents :
        row[i] \in BrokerState => broker[i] \in MovesTo(row[i])

\* A request leaves for the broker only under a QUEUED row with risk and
\* approval evidence: an UNKNOWN or settled intent is never sent again, a
\* PENDING_APPROVAL one never at all.
OnlyQueuedIsSent ==
    [][\A i \in Intents :
          wire'[i] > wire[i] => row[i] = "QUEUED" /\ i \notin Unproven]_vars

\* The execution path keeps the promise of OrderLifecycle.
Lifecycle == INSTANCE OrderLifecycle WITH state <- row
ImplementsLifecycle == Lifecycle!Spec

(***************************************************************************)
(* Liveness.                                                               *)
(***************************************************************************)
\* Every event of the execution topic is eventually consumed, crashes and lost
\* sessions notwithstanding.
EventsAreConsumed == \A i \in Intents : i \in outbox ~> i \in published

\* Every order at the broker is eventually known to the row.
OrdersAreRecorded == \A i \in Intents : orders[i] > 0 ~> row[i] # "QUEUED"

\* executor.py: what can never succeed is consumed, so that the worker does not
\* repeat the same failure for ever.
UnloadableRowsAreConsumed ==
    \A i \in Intents :
        i \in outbox /\ row[i] = "QUEUED" /\ ~Loads(i) ~> i \in published
==============================================================================
