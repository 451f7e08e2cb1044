---------------------------- MODULE OutboxRelay -----------------------------
(***************************************************************************)
(* The outbox table and those who drain it (application/outbox_dispatcher, *)
(* infrastructure/db/repositories/outbox and queue/redis_streams).         *)
(* Dispatchers copy events to Redis streams and the execution worker,      *)
(* whose own steps are in ExecutionCore, executes the intent an event      *)
(* names.  Both claim the oldest free event, do their work and mark it.    *)
(***************************************************************************)
EXTENDS Integers, FiniteSets

CONSTANTS
    Events,        \* 1..n: creation order is numeric order
    Dispatchers,
    Workers,       \* execution workers
    ReadyEvents,   \* the events of topic execution.intent.ready
    Nobody,
    MaxFaults      \* bound on failed calls and crashes

ASSUME RelayAssumption ==
    /\ Events \subseteq Nat /\ ReadyEvents \subseteq Events
    /\ Dispatchers \cap Workers = {} /\ Nobody \notin Dispatchers \cup Workers
    /\ MaxFaults \in Nat

VARIABLES
    created,   \* committed outbox rows
    marked,    \* those with published_at
    lock,      \* who holds a row
    worked,    \* consumers that did their work and have yet to mark
    copies,    \* copies of each event in its stream
    executed,  \* events whose intent the worker executed
    faults

vars == <<created, marked, lock, worked, copies, executed, faults>>

Consumers == Dispatchers \cup Workers
Held(c)   == {e \in Events : lock[e] = c}
Free(c)   == Held(c) = {}
------------------------------------------------------------------------------
Init ==
    /\ created = {} /\ marked = {} /\ worked = {} /\ executed = {}
    /\ lock = [e \in Events |-> Nobody]
    /\ copies = [e \in Events |-> 0]
    /\ faults = 0

\* An intent, or anything else that announces itself, commits its event.  Rows
\* become visible in any order: created_at is when their transaction began.
Create(e) ==
    /\ e \notin created
    /\ created' = created \cup {e}
    /\ UNCHANGED <<marked, lock, worked, copies, executed, faults>>

\* claim(limit, topic): the worker names its topic, the dispatcher names none.
Claimable(c) ==
    {e \in created \ marked : lock[e] = Nobody /\ (c \in Workers => e \in ReadyEvents)}

\* Mutant of Claim: rows are read without FOR UPDATE SKIP LOCKED.
ClaimUnlocked(c) ==
    /\ Free(c)
    /\ \E e \in created \ marked :
          /\ c \in Workers => e \in ReadyEvents
          /\ lock' = [lock EXCEPT ![e] = c]
    /\ UNCHANGED <<created, marked, worked, copies, executed, faults>>

Claim(c) ==
    /\ Free(c)
    /\ \E e \in Claimable(c) :
          /\ \A f \in Claimable(c) : e <= f
          /\ lock' = [lock EXCEPT ![e] = c]
    /\ UNCHANGED <<created, marked, worked, copies, executed, faults>>

\* XADD, or the execution of the intent.
Effect(c, e) ==
    IF c \in Dispatchers
    THEN copies' = [copies EXCEPT ![e] = @ + 1] /\ UNCHANGED executed
    ELSE executed' = executed \cup {e} /\ UNCHANGED copies

Work(c) ==
    /\ c \notin worked
    /\ \E e \in Held(c) : Effect(c, e)
    /\ worked' = worked \cup {c}
    /\ UNCHANGED <<created, marked, lock, faults>>

\* Mutant of MarkPublished: marked without waiting for the publisher.
MarkAtOnce(c) ==
    /\ ~Free(c)
    /\ marked' = marked \cup Held(c)
    /\ worked' = worked \ {c}
    /\ lock' = [e \in Events |-> IF lock[e] = c THEN Nobody ELSE lock[e]]
    /\ UNCHANGED <<created, copies, executed, faults>>

\* published_at is set, the transaction commits and its locks go.
MarkPublished(c) ==
    /\ c \in worked
    /\ marked' = marked \cup Held(c)
    /\ worked' = worked \ {c}
    /\ lock' = [e \in Events |-> IF lock[e] = c THEN Nobody ELSE lock[e]]
    /\ UNCHANGED <<created, copies, executed, faults>>

\* The publisher raises, with or without the copy in the stream, the commit of
\* the mark fails, or the process dies: the transaction is rolled back.
Fail(c) ==
    /\ faults < MaxFaults /\ faults' = faults + 1
    /\ ~Free(c)
    /\ \/ UNCHANGED <<copies, executed>>
       \/ c \notin worked /\ \E e \in Held(c) : Effect(c, e)
    /\ worked' = worked \ {c}
    /\ lock' = [e \in Events |-> IF lock[e] = c THEN Nobody ELSE lock[e]]
    /\ UNCHANGED <<created, marked>>

Next ==
    \/ \E e \in Events : Create(e)
    \/ \E c \in Consumers : Claim(c) \/ Work(c) \/ MarkPublished(c) \/ Fail(c)

Spec == Init /\ [][Next]_vars
------------------------------------------------------------------------------
\* Types.
TypeOK ==
    /\ created \subseteq Events /\ marked \subseteq Events /\ executed \subseteq Events
    /\ lock \in [Events -> Consumers \cup {Nobody}]
    /\ worked \subseteq Consumers
    /\ copies \in [Events -> Nat]
    /\ faults \in 0..MaxFaults

\* dispatch_batch marks an event only once somebody has really had it: it is in
\* its stream or its intent has been executed.
MarkedMeansHandled ==
    \A e \in marked : copies[e] > 0 \/ e \in executed

\* The copies of an event after its first.
Duplicates == UNION {{<<e, n>> : n \in 2..copies[e]} : e \in Events}

\* However many dispatchers drain the table, an event is copied again only if
\* something failed: readers of the streams see duplicates, but not in calm.
DuplicatesNeedFaults == Cardinality(Duplicates) <= faults

\* Claimed by a comment of OutboxRepository.claim: consumers that share the
\* table do not swallow each other's events.  The dispatcher claims without a
\* topic and swallows the worker's.
ReadyEventsReachTheWorker ==
    \A e \in marked \cap ReadyEvents : e \in executed
==============================================================================
