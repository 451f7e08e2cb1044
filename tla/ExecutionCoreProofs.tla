------------------------- MODULE ExecutionCoreProofs -------------------------
(***************************************************************************)
(* The safety properties of ExecutionCore for any number of intents,       *)
(* workers and faults.  They follow from one inductive invariant, IInv;    *)
(* AtMostOneOrder, RowAgreesWithBroker and the refinement of               *)
(* OrderLifecycle need one of two defences, Guarded: the broker recognises *)
(* a key it has seen, or PostgreSQL never ends a session in use.           *)
(***************************************************************************)
EXTENDS ExecutionCore, TLAPS

Guarded == Dedup \/ ~SessionsDrop

\* An event has a row, unless it is one of the ghosts.
EventsHaveRows == \A i \in outbox : row[i] # "ABSENT" \/ i \in Ghosts

\* No worker is about to consume the event of a row it should have executed.
NoEarlyConsumption ==
    \A w \in Workers :
        pc[w] = "consume" /\ row[event[w]] = "QUEUED" => event[w] \in Unproven

\* The holder of a row lock is executing that row, which is still QUEUED.
HolderExecutes ==
    \A i \in Intents :
        orderLock[i] # Nobody =>
            /\ row[i] = "QUEUED" /\ i \notin Unproven
            /\ pc[orderLock[i]] \in Located
            /\ event[orderLock[i]] = i

\* Without dropped sessions a worker in the broker conversation has the lock.
ExecutorHolds ==
    ~SessionsDrop =>
        \A w \in Workers : pc[w] \in Located => orderLock[event[w]] = w

\* Only rows that were queued are ever executed or sent.
QueuedOnce ==
    /\ \A w \in Workers : pc[w] \in Located =>
           row[event[w]] \in {"QUEUED"} \cup ResultState
    /\ \A i \in sent : row[i] \in {"QUEUED"} \cup ResultState

\* What is at, or on its way to, the broker was noted by the adapter first.
SentIsNoted ==
    /\ \A i \in Intents \ sent : wire[i] = 0 /\ broker[i] = "NONE"
    /\ \A i \in Intents : broker[i] = "NONE" => orders[i] = 0

\* The request of a key is sent once: a worker that may send has seen the key
\* unsent, and nothing follows a request that was answered.
SentOnce ==
    /\ Dedup => \A i \in Intents : orders[i] <= 1
    /\ ~SessionsDrop =>
        /\ \A i \in Intents : wire[i] + orders[i] <= 1
        /\ \A i \in Intents : wire[i] > 0 => broker[i] = "NONE"
        /\ \A w \in Workers : pc[w] = "submit" => event[w] \notin sent

\* A result about to be saved is a state the broker was in.
ResultAgrees ==
    \A w \in Workers : pc[w] = "save" =>
        /\ result[w] # "UNKNOWN" => broker[event[w]] \in MovesTo(result[w])
        /\ result[w] \notin {"UNKNOWN", "REJECTED"} => orders[event[w]] >= 1

AcceptedIsCounted ==
    \A i \in Intents : broker[i] \notin {"NONE", "REJECTED"} => orders[i] >= 1

Books ==
    /\ EventsHaveRows
    /\ ConsumedMeansSettled
    /\ NoEarlyConsumption
    /\ HolderExecutes
    /\ ExecutorHolds
    /\ QueuedOnce

Broker ==
    /\ SentIsNoted
    /\ SentOnce
    /\ ResultAgrees
    /\ AcceptedIsCounted
    /\ RowAgreesWithBroker

IInv == TypeOK /\ Books /\ (Guarded => Broker)
------------------------------------------------------------------------------
(***************************************************************************)
(* What the tables say.                                                    *)
(***************************************************************************)
\* An order at the broker moves only to broker states, and to states that
\* every earlier observation of it already allowed for.
LEMMA BrokerMoves ==
    ASSUME NEW s \in BrokerState, NEW t \in Allowed(s) \ {"UNKNOWN"}
    PROVE  /\ t \in BrokerState
           /\ \A r \in BrokerState : s \in MovesTo(r) => t \in MovesTo(r)
           /\ s \in MovesTo(s)
           /\ s # "REJECTED"
  BY DEF BrokerState, Allowed, MovesTo

\* The observations that an order state at the broker is compatible with.
LEMMA Observed ==
    ASSUME NEW s \in BrokerState
    PROVE  s \in MovesTo(s) /\ "NONE" \notin MovesTo(s)
  BY DEF BrokerState, MovesTo

LEMMA States ==
    /\ BrokerState \subseteq ResultState /\ ResultState \subseteq OrderState
    /\ "NONE" \notin ResultState /\ "UNKNOWN" \in ResultState
    /\ "QUEUED" \notin ResultState /\ "ABSENT" \notin OrderState
    /\ "UNKNOWN" \notin BrokerState
    /\ StartState \subseteq OrderState /\ StartState \cap ResultState = {}
    /\ ResultState = BrokerState \cup {"UNKNOWN"}
  BY DEF BrokerState, ResultState, OrderState, StartState

\* What a lookup answers is a result state, or NONE for an unsent key.
LEMMA AnswerStates ==
    ASSUME TypeOK, NEW i \in Intents, NEW a \in Answers(i)
    PROVE  /\ a # "NONE" => a \in ResultState /\ i \in sent
           /\ a = "NONE" => i \notin sent
           /\ a \notin {"NONE", "UNKNOWN"} => a = broker[i] /\ broker[i] \in BrokerState
  BY States DEF Answers, TypeOK

\* A return code that is not ambiguous tells the state the order is in.
LEMMA CodesTellTheState ==
    ASSUME NEW s \in BrokerState \cup {"NONE"}, NEW a \in Retcodes(s),
           ~IsAmbiguous(a.code)
    PROVE  s \in BrokerState /\ ResolveState(a.code, a.filled) = s
  BY DEF Retcodes, IsAmbiguous, Unclear, Done, ResolveState, BrokerState

\* The reply to a submission sends the worker to its second lookup, or hands
\* it the state of the order.
LEMMA ReplyTellsTheState ==
    ASSUME TypeOK, NEW w \in Workers, Reply(w)
    PROVE  /\ pc[w] = "await" /\ UNCHANGED <<rows, locks, event, market, faults>>
           /\ \/ Goto(w, "relookup") /\ UNCHANGED result
              \/ broker[event[w]] \in BrokerState /\ Take(w, broker[event[w]])
  <1>1. event[w] \in Intents /\ broker[event[w]] \in BrokerState \cup {"NONE"}
    BY DEF Reply, TypeOK
  <1> QED
    BY <1>1, CodesTellTheState DEF Reply
------------------------------------------------------------------------------
(***************************************************************************)
(* Types.                                                                  *)
(***************************************************************************)
LEMMA InitType == Init => TypeOK
  BY ExecutionAssumption, States DEF Init, TypeOK

LEMMA TypeStep == TypeOK /\ [Next]_vars => TypeOK'
  <1> SUFFICES ASSUME TypeOK, [Next]_vars
               PROVE  TypeOK'
    OBVIOUS
  <1> USE DEF TypeOK, Goto, rows, locks, market
  <1>1. ASSUME NEW i \in Intents, NEW t \in OrderTypes,
               NEW s \in StartState, CreateWithOutbox(i, t, s)
        PROVE  TypeOK'
    BY <1>1, States DEF CreateWithOutbox
  <1>2. ASSUME NEW w \in Workers, Claim(w)
        PROVE  TypeOK'
    BY <1>2, ExecutionAssumption DEF Claim, Claimable
  <1>3. ASSUME NEW w \in Workers, SkipGhost(w)
        PROVE  TypeOK'
    BY <1>3 DEF SkipGhost
  <1>4. ASSUME NEW w \in Workers, LeaveRow(w)
        PROVE  TypeOK'
    BY <1>4 DEF LeaveRow
  <1>5. ASSUME NEW w \in Workers, RejectRow(w)
        PROVE  TypeOK'
    BY <1>5 DEF RejectRow
  <1>6. ASSUME NEW w \in Workers, LockForExecution(w)
        PROVE  TypeOK'
    BY <1>6 DEF LockForExecution, Located
  <1>7. ASSUME NEW w \in Workers, Lookup(w)
        PROVE  TypeOK'
    BY <1>7, AnswerStates DEF Lookup, Take, Located
  <1>8. ASSUME NEW w \in Workers, Submit(w)
        PROVE  TypeOK'
    BY <1>8 DEF Submit, Located
  <1>9. ASSUME NEW w \in Workers, Reply(w)
        PROVE  TypeOK'
    BY <1>9, ReplyTellsTheState, States DEF Take, Located
  <1>10. ASSUME NEW w \in Workers, TimeOut(w)
        PROVE  TypeOK'
    BY <1>10 DEF TimeOut, Located
  <1>11. ASSUME NEW w \in Workers, Relookup(w)
        PROVE  TypeOK'
    BY <1>11, AnswerStates, States DEF Relookup, Take, Located
  <1>12. ASSUME NEW w \in Workers, SaveBrokerResult(w)
        PROVE  TypeOK'
    BY <1>12, States DEF SaveBrokerResult
  <1>13. ASSUME NEW w \in Workers, MarkPublished(w)
        PROVE  TypeOK'
    BY <1>13 DEF MarkPublished
  <1>14. ASSUME NEW w \in Workers, FindSessionLost(w)
        PROVE  TypeOK'
    BY <1>14 DEF FindSessionLost, SessionLost, Release
  <1>15. ASSUME NEW w \in Workers, Fail(w)
        PROVE  TypeOK'
    BY <1>15, ExecutionAssumption DEF Fail, Release
  <1>16. ASSUME NEW w \in Workers, DieAfterCommit(w)
        PROVE  TypeOK'
    <2>1. /\ row' \in [Intents -> OrderState \cup {"ABSENT"}]
          /\ published' \subseteq outbox /\ outbox' = outbox
      BY <1>16, States DEF DieAfterCommit
    <2>2. faults' \in 0..MaxFaults
      BY <1>16, ExecutionAssumption DEF DieAfterCommit
    <2> QED
      BY <1>16, <2>1, <2>2 DEF DieAfterCommit, Release
  <1>17. ASSUME NEW w \in Workers, DropSession(w)
        PROVE  TypeOK'
    BY <1>17, ExecutionAssumption DEF DropSession
  <1>18. ASSUME NEW i \in Intents, Accept(i)
        PROVE  TypeOK'
    BY <1>18 DEF Accept, BrokerState
  <1>19. ASSUME NEW i \in Intents, Refuse(i)
        PROVE  TypeOK'
    BY <1>19 DEF Refuse, BrokerState
  <1>20. ASSUME NEW i \in Intents, Lose(i)
        PROVE  TypeOK'
    BY <1>20 DEF Lose
  <1>21. ASSUME NEW i \in Intents, Progress(i)
        PROVE  TypeOK'
    BY <1>21, BrokerMoves, States DEF Progress
  <1>22. CASE UNCHANGED vars
    BY <1>22 DEF vars
  <1> QED
    BY <1>1, <1>2, <1>3, <1>4, <1>5, <1>6, <1>7, <1>8, <1>9, <1>10, <1>11, <1>12, <1>13, <1>14, <1>15, <1>16, <1>17, <1>18, <1>19, <1>20, <1>21, <1>22 DEF Next, Api, Step, Failure, Market

\* Every reachable state is well typed: in particular a worker that is not
\* idle works on a committed event, and only committed events are consumed.
THEOREM TypeCorrect == Spec => []TypeOK
  BY InitType, TypeStep, PTL DEF Spec
------------------------------------------------------------------------------
(***************************************************************************)
(* The rows, the events and the locks.                                     *)
(***************************************************************************)
LEMMA EventsStep ==
    ASSUME TypeOK, EventsHaveRows, ConsumedMeansSettled, NoEarlyConsumption,
           [Next]_vars
    PROVE  (EventsHaveRows /\ ConsumedMeansSettled /\ NoEarlyConsumption)'
  <1> USE DEF TypeOK, Goto, rows, locks, market, EventsHaveRows,
             ConsumedMeansSettled, NoEarlyConsumption
  <1>1. ASSUME NEW i \in Intents, NEW t \in OrderTypes,
               NEW s \in StartState, CreateWithOutbox(i, t, s)
        PROVE  (EventsHaveRows /\ ConsumedMeansSettled /\ NoEarlyConsumption)'
    BY <1>1 DEF CreateWithOutbox
  <1>2. ASSUME NEW w \in Workers, Claim(w)
        PROVE  (EventsHaveRows /\ ConsumedMeansSettled /\ NoEarlyConsumption)'
    BY <1>2 DEF Claim, Claimable
  <1>3. ASSUME NEW w \in Workers, SkipGhost(w)
        PROVE  (EventsHaveRows /\ ConsumedMeansSettled /\ NoEarlyConsumption)'
    BY <1>3 DEF SkipGhost
  <1>4. ASSUME NEW w \in Workers, LeaveRow(w)
        PROVE  (EventsHaveRows /\ ConsumedMeansSettled /\ NoEarlyConsumption)'
    BY <1>4 DEF LeaveRow
  <1>5. ASSUME NEW w \in Workers, RejectRow(w)
        PROVE  (EventsHaveRows /\ ConsumedMeansSettled /\ NoEarlyConsumption)'
    BY <1>5 DEF RejectRow
  <1>6. ASSUME NEW w \in Workers, LockForExecution(w)
        PROVE  (EventsHaveRows /\ ConsumedMeansSettled /\ NoEarlyConsumption)'
    BY <1>6 DEF LockForExecution
  <1>7. ASSUME NEW w \in Workers, Lookup(w)
        PROVE  (EventsHaveRows /\ ConsumedMeansSettled /\ NoEarlyConsumption)'
    BY <1>7, AnswerStates DEF Lookup, Take
  <1>8. ASSUME NEW w \in Workers, Submit(w)
        PROVE  (EventsHaveRows /\ ConsumedMeansSettled /\ NoEarlyConsumption)'
    BY <1>8 DEF Submit
  <1>9. ASSUME NEW w \in Workers, Reply(w)
        PROVE  (EventsHaveRows /\ ConsumedMeansSettled /\ NoEarlyConsumption)'
    BY <1>9, ReplyTellsTheState, States DEF Take
  <1>10. ASSUME NEW w \in Workers, TimeOut(w)
        PROVE  (EventsHaveRows /\ ConsumedMeansSettled /\ NoEarlyConsumption)'
    BY <1>10 DEF TimeOut
  <1>11. ASSUME NEW w \in Workers, Relookup(w)
        PROVE  (EventsHaveRows /\ ConsumedMeansSettled /\ NoEarlyConsumption)'
    BY <1>11, AnswerStates, States DEF Relookup, Take
  <1>12. ASSUME NEW w \in Workers, SaveBrokerResult(w)
        PROVE  (EventsHaveRows /\ ConsumedMeansSettled /\ NoEarlyConsumption)'
    BY <1>12, States DEF SaveBrokerResult
  <1>13. ASSUME NEW w \in Workers, MarkPublished(w)
        PROVE  (EventsHaveRows /\ ConsumedMeansSettled /\ NoEarlyConsumption)'
    BY <1>13 DEF MarkPublished
  <1>14. ASSUME NEW w \in Workers, FindSessionLost(w)
        PROVE  (EventsHaveRows /\ ConsumedMeansSettled /\ NoEarlyConsumption)'
    BY <1>14 DEF FindSessionLost, Release
  <1>15. ASSUME NEW w \in Workers, Fail(w)
        PROVE  (EventsHaveRows /\ ConsumedMeansSettled /\ NoEarlyConsumption)'
    BY <1>15 DEF Fail, Release
  <1>16. ASSUME NEW w \in Workers, DieAfterCommit(w)
        PROVE  (EventsHaveRows /\ ConsumedMeansSettled /\ NoEarlyConsumption)'
    BY <1>16, States DEF DieAfterCommit, Release
  <1>17. ASSUME NEW w \in Workers, DropSession(w)
        PROVE  (EventsHaveRows /\ ConsumedMeansSettled /\ NoEarlyConsumption)'
    BY <1>17 DEF DropSession
  <1>18. ASSUME NEW i \in Intents, Market(i)
        PROVE  (EventsHaveRows /\ ConsumedMeansSettled /\ NoEarlyConsumption)'
    BY <1>18 DEF Market, Accept, Refuse, Lose, Progress
  <1>19. CASE UNCHANGED vars
    BY <1>19 DEF vars
  <1> QED
    BY <1>1, <1>2, <1>3, <1>4, <1>5, <1>6, <1>7, <1>8, <1>9, <1>10,
       <1>11, <1>12, <1>13, <1>14, <1>15, <1>16, <1>17, <1>18, <1>19 DEF Next, Api, Step, Failure

\* Rolling a worker's sessions back frees its own locks and no others, provided
\* the step wrote no row that another worker holds.
LEMMA ReleaseFreesOwnLocks ==
    ASSUME TypeOK, HolderExecutes, ExecutorHolds, NEW w \in Workers, Release(w),
           \A i \in Intents : orderLock[i] \notin {Nobody, w} => row'[i] = row[i]
    PROVE  (HolderExecutes /\ ExecutorHolds)'
  <1> USE DEF TypeOK, Goto, Release
  <1>1. /\ pc' \in [Workers -> Located \cup {"idle", "claimed", "consume"}]
        /\ pc'[w] = "idle" /\ "idle" \notin Located
        /\ \A v \in Workers \ {w} : pc'[v] = pc[v] /\ event'[v] = event[v]
    BY DEF Located
  <1>2. \A i \in Intents :
           orderLock'[i] = IF orderLock[i] = w THEN Nobody ELSE orderLock[i]
    OBVIOUS
  <1>3. HolderExecutes'
    BY <1>1, <1>2, ExecutionAssumption DEF HolderExecutes
  <1>4. ExecutorHolds'
    <2> SUFFICES ASSUME ~SessionsDrop, NEW v \in Workers, pc'[v] \in Located
                 PROVE  orderLock'[event'[v]] = v
      BY DEF ExecutorHolds
    <2>1. v # w /\ pc[v] \in Located /\ event'[v] = event[v]
      BY <1>1
    <2>2. event[v] \in Intents /\ orderLock[event[v]] = v
      BY <2>1 DEF ExecutorHolds, Located
    <2> QED
      BY <2>1, <2>2, <1>2
  <1> QED
    BY <1>3, <1>4

LEMMA LocksStep ==
    ASSUME TypeOK, HolderExecutes, ExecutorHolds, [Next]_vars
    PROVE  (HolderExecutes /\ ExecutorHolds)'
  <1> USE DEF TypeOK, Goto, rows, locks, market, HolderExecutes,
             ExecutorHolds, Located
  <1>1. ASSUME NEW i \in Intents, NEW t \in OrderTypes,
               NEW s \in StartState, CreateWithOutbox(i, t, s)
        PROVE  (HolderExecutes /\ ExecutorHolds)'
    BY <1>1 DEF CreateWithOutbox
  <1>2. ASSUME NEW w \in Workers, Claim(w)
        PROVE  (HolderExecutes /\ ExecutorHolds)'
    BY <1>2, ExecutionAssumption DEF Claim, Claimable
  <1>3. ASSUME NEW w \in Workers, SkipGhost(w)
        PROVE  (HolderExecutes /\ ExecutorHolds)'
    BY <1>3, ExecutionAssumption DEF SkipGhost
  <1>4. ASSUME NEW w \in Workers, LeaveRow(w)
        PROVE  (HolderExecutes /\ ExecutorHolds)'
    BY <1>4, ExecutionAssumption DEF LeaveRow
  <1>5. ASSUME NEW w \in Workers, RejectRow(w)
        PROVE  (HolderExecutes /\ ExecutorHolds)'
    BY <1>5, ExecutionAssumption DEF RejectRow
  <1>6. ASSUME NEW w \in Workers, LockForExecution(w)
        PROVE  (HolderExecutes /\ ExecutorHolds)'
    <2>1. event[w] \in Intents /\ orderLock[event[w]] = Nobody /\ pc[w] \notin Located
      BY <1>6 DEF LockForExecution
    <2>2. \A i \in Intents : orderLock[i] # w
      BY <2>1, ExecutionAssumption
    <2>3. /\ pc'[w] = "lookup" /\ event' = event /\ row' = row
          /\ orderLock' = [orderLock EXCEPT ![event[w]] = w]
          /\ \A v \in Workers \ {w} : pc'[v] = pc[v]
      BY <1>6 DEF LockForExecution
    <2>4. HolderExecutes'
      BY <1>6, <2>1, <2>2, <2>3, ExecutionAssumption DEF LockForExecution
    <2>5. ExecutorHolds'
      BY <1>6, <2>1, <2>3, ExecutionAssumption
    <2> QED
      BY <2>4, <2>5
  <1>7. ASSUME NEW w \in Workers, Lookup(w)
        PROVE  (HolderExecutes /\ ExecutorHolds)'
    BY <1>7, AnswerStates, ExecutionAssumption DEF Lookup, Take
  <1>8. ASSUME NEW w \in Workers, Submit(w)
        PROVE  (HolderExecutes /\ ExecutorHolds)'
    BY <1>8, ExecutionAssumption DEF Submit
  <1>9. ASSUME NEW w \in Workers, Reply(w)
        PROVE  (HolderExecutes /\ ExecutorHolds)'
    BY <1>9, ReplyTellsTheState, States, ExecutionAssumption DEF Take
  <1>10. ASSUME NEW w \in Workers, TimeOut(w)
        PROVE  (HolderExecutes /\ ExecutorHolds)'
    BY <1>10, ExecutionAssumption DEF TimeOut
  <1>11. ASSUME NEW w \in Workers, Relookup(w)
        PROVE  (HolderExecutes /\ ExecutorHolds)'
    BY <1>11, AnswerStates, States, ExecutionAssumption DEF Relookup, Take
  <1>12. ASSUME NEW w \in Workers, SaveBrokerResult(w)
        PROVE  (HolderExecutes /\ ExecutorHolds)'
    BY <1>12, States, ExecutionAssumption DEF SaveBrokerResult
  <1>13. ASSUME NEW w \in Workers, MarkPublished(w)
        PROVE  (HolderExecutes /\ ExecutorHolds)'
    BY <1>13, ExecutionAssumption DEF MarkPublished
  <1>14. ASSUME NEW w \in Workers, FindSessionLost(w)
        PROVE  (HolderExecutes /\ ExecutorHolds)'
    BY <1>14, ReleaseFreesOwnLocks DEF FindSessionLost
  <1>15. ASSUME NEW w \in Workers, Fail(w)
        PROVE  (HolderExecutes /\ ExecutorHolds)'
    BY <1>15, ReleaseFreesOwnLocks DEF Fail
  <1>16. ASSUME NEW w \in Workers, DieAfterCommit(w)
        PROVE  (HolderExecutes /\ ExecutorHolds)'
    BY <1>16, States, ReleaseFreesOwnLocks DEF DieAfterCommit
  <1>17. ASSUME NEW w \in Workers, DropSession(w)
        PROVE  (HolderExecutes /\ ExecutorHolds)'
    BY <1>17, ExecutionAssumption DEF DropSession
  <1>18. ASSUME NEW i \in Intents, Market(i)
        PROVE  (HolderExecutes /\ ExecutorHolds)'
    BY <1>18 DEF Market, Accept, Refuse, Lose, Progress
  <1>19. CASE UNCHANGED vars
    BY <1>19 DEF vars
  <1> QED
    BY <1>1, <1>2, <1>3, <1>4, <1>5, <1>6, <1>7, <1>8, <1>9, <1>10,
       <1>11, <1>12, <1>13, <1>14, <1>15, <1>16, <1>17, <1>18, <1>19 DEF Next, Api, Step, Failure

LEMMA QueuedStep ==
    ASSUME TypeOK, HolderExecutes, QueuedOnce, [Next]_vars
    PROVE  QueuedOnce'
  <1> USE DEF TypeOK, Goto, rows, locks, market, HolderExecutes,
             QueuedOnce, Located
  <1>1. ASSUME NEW i \in Intents, NEW t \in OrderTypes,
               NEW s \in StartState, CreateWithOutbox(i, t, s)
        PROVE  QueuedOnce'
    BY <1>1, States DEF CreateWithOutbox
  <1>2. ASSUME NEW w \in Workers, Claim(w)
        PROVE  QueuedOnce'
    BY <1>2 DEF Claim, Claimable
  <1>3. ASSUME NEW w \in Workers, SkipGhost(w)
        PROVE  QueuedOnce'
    BY <1>3 DEF SkipGhost
  <1>4. ASSUME NEW w \in Workers, LeaveRow(w)
        PROVE  QueuedOnce'
    BY <1>4 DEF LeaveRow
  <1>5. ASSUME NEW w \in Workers, RejectRow(w)
        PROVE  QueuedOnce'
    BY <1>5 DEF RejectRow
  <1>6. ASSUME NEW w \in Workers, LockForExecution(w)
        PROVE  QueuedOnce'
    BY <1>6 DEF LockForExecution
  <1>7. ASSUME NEW w \in Workers, Lookup(w)
        PROVE  QueuedOnce'
    BY <1>7, AnswerStates DEF Lookup, Take
  <1>8. ASSUME NEW w \in Workers, Submit(w)
        PROVE  QueuedOnce'
    BY <1>8 DEF Submit
  <1>9. ASSUME NEW w \in Workers, Reply(w)
        PROVE  QueuedOnce'
    BY <1>9, ReplyTellsTheState, States DEF Take
  <1>10. ASSUME NEW w \in Workers, TimeOut(w)
        PROVE  QueuedOnce'
    BY <1>10 DEF TimeOut
  <1>11. ASSUME NEW w \in Workers, Relookup(w)
        PROVE  QueuedOnce'
    BY <1>11, AnswerStates, States DEF Relookup, Take
  <1>12. ASSUME NEW w \in Workers, SaveBrokerResult(w)
        PROVE  QueuedOnce'
    BY <1>12, States DEF SaveBrokerResult
  <1>13. ASSUME NEW w \in Workers, MarkPublished(w)
        PROVE  QueuedOnce'
    BY <1>13 DEF MarkPublished
  <1>14. ASSUME NEW w \in Workers, FindSessionLost(w)
        PROVE  QueuedOnce'
    BY <1>14 DEF FindSessionLost, Release
  <1>15. ASSUME NEW w \in Workers, Fail(w)
        PROVE  QueuedOnce'
    BY <1>15 DEF Fail, Release
  <1>16. ASSUME NEW w \in Workers, DieAfterCommit(w)
        PROVE  QueuedOnce'
    BY <1>16, States DEF DieAfterCommit, Release
  <1>17. ASSUME NEW w \in Workers, DropSession(w)
        PROVE  QueuedOnce'
    BY <1>17 DEF DropSession
  <1>18. ASSUME NEW i \in Intents, Market(i)
        PROVE  QueuedOnce'
    BY <1>18 DEF Market, Accept, Refuse, Lose, Progress
  <1>19. CASE UNCHANGED vars
    BY <1>19 DEF vars
  <1> QED
    BY <1>1, <1>2, <1>3, <1>4, <1>5, <1>6, <1>7, <1>8, <1>9, <1>10,
       <1>11, <1>12, <1>13, <1>14, <1>15, <1>16, <1>17, <1>18, <1>19 DEF Next, Api, Step, Failure
------------------------------------------------------------------------------
(***************************************************************************)
(* The broker.                                                             *)
(***************************************************************************)
\* Only a submission and the broker itself change what the broker knows.
LEMMA WhoTouchesTheMarket ==
    ASSUME [Next]_vars
    PROVE  \/ \E w \in Workers : Submit(w)
           \/ \E i \in Intents : Market(i)
           \/ UNCHANGED market
  BY DEF Next, Api, Step, Failure, vars, market, CreateWithOutbox, Claim,
         SkipGhost, LeaveRow, RejectRow, LockForExecution, Lookup, Reply, TimeOut,
         Relookup, SaveBrokerResult, MarkPublished, FindSessionLost, Fail,
         DieAfterCommit, DropSession

LEMMA NotedStep ==
    ASSUME TypeOK, SentIsNoted, [Next]_vars
    PROVE  SentIsNoted'
  <1> USE DEF TypeOK, Goto, rows, locks, market, SentIsNoted
  <1>1. ASSUME NEW w \in Workers, Submit(w)
        PROVE  SentIsNoted'
    BY <1>1 DEF Submit
  <1>2. ASSUME NEW i \in Intents, Accept(i)
        PROVE  SentIsNoted'
    BY <1>2 DEF Accept
  <1>3. ASSUME NEW i \in Intents, Refuse(i)
        PROVE  SentIsNoted'
    BY <1>3 DEF Refuse
  <1>4. ASSUME NEW i \in Intents, Lose(i)
        PROVE  SentIsNoted'
    BY <1>4 DEF Lose
  <1>5. ASSUME NEW i \in Intents, Progress(i)
        PROVE  SentIsNoted'
    BY <1>5, BrokerMoves, States DEF Progress, BrokerState
  <1>6. CASE UNCHANGED market
    BY <1>6 DEF market
  <1> QED
    BY <1>1, <1>2, <1>3, <1>4, <1>5, <1>6, WhoTouchesTheMarket DEF Market

LEMMA CountedStep ==
    ASSUME TypeOK, SentIsNoted, AcceptedIsCounted, [Next]_vars
    PROVE  AcceptedIsCounted'
  <1> USE DEF TypeOK, Goto, rows, locks, market, SentIsNoted, AcceptedIsCounted
  <1>1. ASSUME NEW w \in Workers, Submit(w)
        PROVE  AcceptedIsCounted'
    BY <1>1 DEF Submit
  <1>2. ASSUME NEW i \in Intents, Accept(i)
        PROVE  AcceptedIsCounted'
    BY <1>2 DEF Accept
  <1>3. ASSUME NEW i \in Intents, Refuse(i)
        PROVE  AcceptedIsCounted'
    BY <1>3 DEF Refuse
  <1>4. ASSUME NEW i \in Intents, Lose(i)
        PROVE  AcceptedIsCounted'
    BY <1>4 DEF Lose
  <1>5. ASSUME NEW i \in Intents, Progress(i)
        PROVE  AcceptedIsCounted'
    BY <1>5, BrokerMoves, States DEF Progress
  <1>6. CASE UNCHANGED market
    BY <1>6 DEF market
  <1> QED
    BY <1>1, <1>2, <1>3, <1>4, <1>5, <1>6, WhoTouchesTheMarket DEF Market

LEMMA OnceStep ==
    ASSUME TypeOK, ExecutorHolds, SentIsNoted, SentOnce, [Next]_vars
    PROVE  SentOnce'
  <1> USE DEF TypeOK, Goto, rows, locks, market, ExecutorHolds,
             SentIsNoted, SentOnce, Located
  <1>1. ASSUME NEW i \in Intents, NEW t \in OrderTypes,
               NEW s \in StartState, CreateWithOutbox(i, t, s)
        PROVE  SentOnce'
    BY <1>1 DEF CreateWithOutbox
  <1>2. ASSUME NEW w \in Workers, Claim(w)
        PROVE  SentOnce'
    BY <1>2 DEF Claim, Claimable
  <1>3. ASSUME NEW w \in Workers, SkipGhost(w)
        PROVE  SentOnce'
    BY <1>3 DEF SkipGhost
  <1>4. ASSUME NEW w \in Workers, LeaveRow(w)
        PROVE  SentOnce'
    BY <1>4 DEF LeaveRow
  <1>5. ASSUME NEW w \in Workers, RejectRow(w)
        PROVE  SentOnce'
    BY <1>5 DEF RejectRow
  <1>6. ASSUME NEW w \in Workers, LockForExecution(w)
        PROVE  SentOnce'
    BY <1>6 DEF LockForExecution
  <1>7. ASSUME NEW w \in Workers, Lookup(w)
        PROVE  SentOnce'
    BY <1>7, AnswerStates DEF Lookup, Take
  <1>8. ASSUME NEW w \in Workers, Submit(w)
        PROVE  SentOnce'
    BY <1>8 DEF Submit
  <1>9. ASSUME NEW w \in Workers, Reply(w)
        PROVE  SentOnce'
    BY <1>9, ReplyTellsTheState, States DEF Take
  <1>10. ASSUME NEW w \in Workers, TimeOut(w)
        PROVE  SentOnce'
    BY <1>10 DEF TimeOut
  <1>11. ASSUME NEW w \in Workers, Relookup(w)
        PROVE  SentOnce'
    BY <1>11, AnswerStates, States DEF Relookup, Take
  <1>12. ASSUME NEW w \in Workers, SaveBrokerResult(w)
        PROVE  SentOnce'
    BY <1>12, States DEF SaveBrokerResult
  <1>13. ASSUME NEW w \in Workers, MarkPublished(w)
        PROVE  SentOnce'
    BY <1>13 DEF MarkPublished
  <1>14. ASSUME NEW w \in Workers, FindSessionLost(w)
        PROVE  SentOnce'
    BY <1>14 DEF FindSessionLost, Release
  <1>15. ASSUME NEW w \in Workers, Fail(w)
        PROVE  SentOnce'
    BY <1>15 DEF Fail, Release
  <1>16. ASSUME NEW w \in Workers, DieAfterCommit(w)
        PROVE  SentOnce'
    BY <1>16, States DEF DieAfterCommit, Release
  <1>17. ASSUME NEW w \in Workers, DropSession(w)
        PROVE  SentOnce'
    BY <1>17 DEF DropSession
  <1>18. ASSUME NEW i \in Intents, Accept(i)
        PROVE  SentOnce'
    <2>1. wire'[i] + orders'[i] <= wire[i] + orders[i]
      BY <1>18 DEF Accept
    <2>2. ASSUME ~SessionsDrop PROVE wire'[i] = 0 /\ orders'[i] <= 1
      BY <1>18, <2>1, <2>2 DEF Accept
    <2>3. ASSUME Dedup PROVE orders'[i] <= 1
      BY <1>18, <2>3 DEF Accept
    <2> QED
      BY <1>18, <2>1, <2>2, <2>3 DEF Accept
  <1>19. ASSUME NEW i \in Intents, Refuse(i)
        PROVE  SentOnce'
    BY <1>19 DEF Refuse
  <1>20. ASSUME NEW i \in Intents, Lose(i)
        PROVE  SentOnce'
    BY <1>20 DEF Lose
  <1>21. ASSUME NEW i \in Intents, Progress(i)
        PROVE  SentOnce'
    BY <1>21, BrokerMoves, States DEF Progress
  <1>22. CASE UNCHANGED vars
    BY <1>22 DEF vars
  <1> QED
    BY <1>1, <1>2, <1>3, <1>4, <1>5, <1>6, <1>7, <1>8, <1>9, <1>10,
       <1>11, <1>12, <1>13, <1>14, <1>15, <1>16, <1>17, <1>18, <1>19,
       <1>20, <1>21, <1>22 DEF Next, Api, Step, Failure, Market

\* The broker only moves forward: every earlier observation of an order stays
\* compatible with its state, and no accepted order is forgotten.
LEMMA BrokerMovesForward ==
    ASSUME TypeOK, Guarded, SentOnce, NEW i \in Intents, Market(i)
    PROVE  \A j \in Intents :
              /\ orders'[j] >= orders[j]
              /\ \A r \in BrokerState : broker[j] \in MovesTo(r) => broker'[j] \in MovesTo(r)
  <1> USE DEF TypeOK, SentOnce, Guarded
  <1>1. CASE Accept(i)
    BY <1>1, Observed DEF Accept
  <1>2. CASE Refuse(i)
    BY <1>2, Observed DEF Refuse
  <1>3. CASE Lose(i)
    BY <1>3 DEF Lose
  <1>4. CASE Progress(i)
    BY <1>4, BrokerMoves DEF Progress
  <1> QED
    BY <1>1, <1>2, <1>3, <1>4 DEF Market

LEMMA AgreementStep ==
    ASSUME TypeOK, Guarded, HolderExecutes, SentOnce, AcceptedIsCounted,
           ResultAgrees, RowAgreesWithBroker, [Next]_vars
    PROVE  (ResultAgrees /\ RowAgreesWithBroker)'
  <1> USE DEF TypeOK, Goto, rows, locks, market, AcceptedIsCounted,
             ResultAgrees, RowAgreesWithBroker, Located
  <1>1. ASSUME NEW i \in Intents, NEW t \in OrderTypes,
               NEW s \in StartState, CreateWithOutbox(i, t, s)
        PROVE  (ResultAgrees /\ RowAgreesWithBroker)'
    BY <1>1, States DEF CreateWithOutbox, BrokerState
  <1>2. ASSUME NEW w \in Workers, Claim(w)
        PROVE  (ResultAgrees /\ RowAgreesWithBroker)'
    BY <1>2 DEF Claim, Claimable
  <1>3. ASSUME NEW w \in Workers, SkipGhost(w)
        PROVE  (ResultAgrees /\ RowAgreesWithBroker)'
    BY <1>3 DEF SkipGhost
  <1>4. ASSUME NEW w \in Workers, LeaveRow(w)
        PROVE  (ResultAgrees /\ RowAgreesWithBroker)'
    BY <1>4 DEF LeaveRow
  <1>5. ASSUME NEW w \in Workers, RejectRow(w)
        PROVE  (ResultAgrees /\ RowAgreesWithBroker)'
    BY <1>5 DEF RejectRow
  <1>6. ASSUME NEW w \in Workers, LockForExecution(w)
        PROVE  (ResultAgrees /\ RowAgreesWithBroker)'
    BY <1>6 DEF LockForExecution
  <1>7. ASSUME NEW w \in Workers, Lookup(w)
        PROVE  (ResultAgrees /\ RowAgreesWithBroker)'
    BY <1>7, AnswerStates, Observed, States DEF Lookup, Take
  <1>8. ASSUME NEW w \in Workers, Submit(w)
        PROVE  (ResultAgrees /\ RowAgreesWithBroker)'
    BY <1>8 DEF Submit
  <1>9. ASSUME NEW w \in Workers, Reply(w)
        PROVE  (ResultAgrees /\ RowAgreesWithBroker)'
    BY <1>9, ReplyTellsTheState, States, Observed DEF Take
  <1>10. ASSUME NEW w \in Workers, TimeOut(w)
        PROVE  (ResultAgrees /\ RowAgreesWithBroker)'
    BY <1>10 DEF TimeOut
  <1>11. ASSUME NEW w \in Workers, Relookup(w)
        PROVE  (ResultAgrees /\ RowAgreesWithBroker)'
    BY <1>11, AnswerStates, States, Observed DEF Relookup, Take
  <1>12. ASSUME NEW w \in Workers, SaveBrokerResult(w)
        PROVE  (ResultAgrees /\ RowAgreesWithBroker)'
    BY <1>12, States DEF SaveBrokerResult
  <1>13. ASSUME NEW w \in Workers, MarkPublished(w)
        PROVE  (ResultAgrees /\ RowAgreesWithBroker)'
    BY <1>13 DEF MarkPublished
  <1>14. ASSUME NEW w \in Workers, FindSessionLost(w)
        PROVE  (ResultAgrees /\ RowAgreesWithBroker)'
    BY <1>14 DEF FindSessionLost, Release
  <1>15. ASSUME NEW w \in Workers, Fail(w)
        PROVE  (ResultAgrees /\ RowAgreesWithBroker)'
    BY <1>15 DEF Fail, Release
  <1>16. ASSUME NEW w \in Workers, DieAfterCommit(w)
        PROVE  (ResultAgrees /\ RowAgreesWithBroker)'
    BY <1>16, States DEF DieAfterCommit, Release
  <1>17. ASSUME NEW w \in Workers, DropSession(w)
        PROVE  (ResultAgrees /\ RowAgreesWithBroker)'
    BY <1>17 DEF DropSession
  <1>18. ASSUME NEW i \in Intents, Market(i)
        PROVE  (ResultAgrees /\ RowAgreesWithBroker)'
    BY <1>18, BrokerMovesForward, States DEF Market, Accept, Refuse, Lose, Progress
  <1>19. CASE UNCHANGED vars
    BY <1>19 DEF vars
  <1> QED
    BY <1>1, <1>2, <1>3, <1>4, <1>5, <1>6, <1>7, <1>8, <1>9, <1>10,
       <1>11, <1>12, <1>13, <1>14, <1>15, <1>16, <1>17, <1>18, <1>19 DEF Next, Api, Step, Failure
------------------------------------------------------------------------------
(***************************************************************************)
(* The inductive invariant and what follows from it.                       *)
(***************************************************************************)
LEMMA InitInv == Init => IInv
  <1> SUFFICES ASSUME Init
               PROVE  Books /\ Broker
    BY InitType DEF IInv
  <1>1. Books
    BY ExecutionAssumption DEF Init, Books, EventsHaveRows, ConsumedMeansSettled,
       NoEarlyConsumption, HolderExecutes, ExecutorHolds, QueuedOnce, Located
  <1>2. Broker
    BY DEF Init, Broker, SentIsNoted, SentOnce, ResultAgrees, AcceptedIsCounted,
       RowAgreesWithBroker, BrokerState
  <1> QED
    BY <1>1, <1>2

LEMMA InvStep == IInv /\ [Next]_vars => IInv'
  <1> SUFFICES ASSUME IInv, [Next]_vars
               PROVE  IInv'
    OBVIOUS
  <1>1. TypeOK /\ Books /\ TypeOK'
    BY TypeStep DEF IInv
  <1>2. Books'
    BY <1>1, EventsStep, LocksStep, QueuedStep DEF Books
  <1>3. ASSUME Guarded
        PROVE  Broker'
    BY <1>1, <1>3, NotedStep, CountedStep, OnceStep, AgreementStep
       DEF IInv, Broker, Books
  <1>4. Guarded' <=> Guarded
    BY DEF Guarded
  <1> QED
    BY <1>1, <1>2, <1>3, <1>4 DEF IInv

\* The inductive invariant: what locks, positions, rows, the books of the broker
\* and the wire say of one another holds throughout.
THEOREM InductiveInvariant == Spec => []IInv
  BY InitInv, InvStep, PTL DEF Spec

\* No event is consumed while its intent still waits to be executed, whatever
\* crashes, drops and retries there are.  (workers/executor.py, _process_one)
THEOREM ConsumedMeansSettledHolds == Spec => []ConsumedMeansSettled
  <1>1. IInv => ConsumedMeansSettled
    BY DEF IInv, Books
  <1> QED
    BY <1>1, InductiveInvariant, PTL

\* At most one order per intent, for any number of workers and crashes, if the
\* broker recognises keys or sessions last as long as their clients.
THEOREM AtMostOneOrderHolds ==
    ASSUME Guarded
    PROVE  Spec => []AtMostOneOrder
  <1>1. IInv => AtMostOneOrder
    <2> SUFFICES ASSUME IInv, NEW i \in Intents
                 PROVE  orders[i] <= 1
      BY DEF AtMostOneOrder
    <2> QED
      BY DEF Guarded, IInv, Broker, SentOnce, TypeOK
  <1> QED
    BY <1>1, InductiveInvariant, PTL

\* What a row records is a state its order at the broker was in.
THEOREM RowAgreesWithBrokerHolds ==
    ASSUME Guarded
    PROVE  Spec => []RowAgreesWithBroker
  <1>1. IInv => RowAgreesWithBroker
    BY DEF Guarded, IInv, Broker
  <1> QED
    BY <1>1, InductiveInvariant, PTL

\* With lasting sessions no request leaves for a row that is not QUEUED: what
\* is UNKNOWN or settled is never sent again.
THEOREM OnlyQueuedIsSentHolds ==
    ASSUME ~SessionsDrop
    PROVE  Spec => OnlyQueuedIsSent
  <1> DEFINE A == \A i \in Intents :
                     wire'[i] > wire[i] => row[i] = "QUEUED" /\ i \notin Unproven
  <1>1. IInv /\ [Next]_vars => [A]_vars
    <2> SUFFICES ASSUME IInv, Next, NEW i \in Intents, wire'[i] > wire[i]
                 PROVE  row[i] = "QUEUED" /\ i \notin Unproven
      OBVIOUS
    <2>1. TypeOK /\ HolderExecutes /\ ExecutorHolds
      BY DEF IInv, Books
    <2>2. CASE \E j \in Intents : Market(j)
      BY <2>1, <2>2 DEF TypeOK, Market, Accept, Refuse, Lose, Progress
    <2>3. CASE \E w \in Workers : Submit(w)
      <3>1. PICK w \in Workers : Submit(w)
        BY <2>3
      <3>2. i = event[w] /\ pc[w] \in Located
        BY <2>1, <3>1 DEF TypeOK, Submit, Located
      <3> QED
        BY <2>1, <3>2, ExecutionAssumption DEF HolderExecutes, ExecutorHolds
    <2>4. CASE UNCHANGED market
      BY <2>1, <2>4 DEF TypeOK, market
    <2> QED
      BY <2>2, <2>3, <2>4, WhoTouchesTheMarket
  <1> QED
    BY <1>1, InductiveInvariant, PTL DEF Spec, OnlyQueuedIsSent
------------------------------------------------------------------------------
(***************************************************************************)
(* ExecutionCore implements OrderLifecycle.                                *)
(***************************************************************************)
LEMMA RecordedAlongTheTable ==
    ASSUME NEW r \in ResultState
    PROVE  /\ r \in Lifecycle!ResultState
           /\ \E m \in Lifecycle!Allowed("QUEUED") \cup {"QUEUED"} :
                 r \in Lifecycle!Allowed(m)
           /\ r \in Lifecycle!ResultState \ {"REJECTED", "UNKNOWN"} =>
                 r \notin {"UNKNOWN", "REJECTED"}
  BY DEF ResultState, BrokerState, Lifecycle!ResultState, Lifecycle!BrokerState,
         Lifecycle!Allowed

\* Saving a result is the abstract Record.
LEMMA SavingRecords ==
    ASSUME TypeOK, Guarded, Books, Broker, NEW w \in Workers,
           pc[w] = "save", orderLock[event[w]] = w,
           row' = [row EXCEPT ![event[w]] = result[w]], UNCHANGED orders
    PROVE  Lifecycle!Next
  <1>1. event[w] \in Intents /\ result[w] \in ResultState
    BY DEF TypeOK
  <1>2. row[event[w]] = "QUEUED"
    <2>1. w # Nobody
      BY ExecutionAssumption
    <2> QED
      BY <1>1, <2>1 DEF Books, HolderExecutes
  <1>3. result[w] \notin {"UNKNOWN", "REJECTED"} => orders[event[w]] = 1
    BY <1>1 DEF TypeOK, Broker, ResultAgrees, SentOnce, Guarded
  <1>4. Lifecycle!Record(event[w])
    BY <1>1, <1>2, <1>3, RecordedAlongTheTable DEF Lifecycle!Record
  <1> QED
    BY <1>1, <1>4 DEF Lifecycle!Next

\* Accepting a request is the abstract Place, or changes nothing.
LEMMA AcceptingPlaces ==
    ASSUME TypeOK, Guarded, Books, Broker, NEW i \in Intents, Accept(i)
    PROVE  [Lifecycle!Next]_(Lifecycle!vars)
  <1> USE DEF TypeOK
  <1>1. CASE Dedup /\ broker[i] # "NONE"
    BY <1>1 DEF Accept, Lifecycle!vars, rows
  <1>2. CASE ~(Dedup /\ broker[i] # "NONE")
    <2>1. broker[i] = "NONE" /\ i \in sent /\ orders[i] = 0
      BY <1>2 DEF Accept, Broker, SentIsNoted, SentOnce, Guarded
    <2>2. row[i] \in {"QUEUED", "UNKNOWN"}
      BY <2>1, States, Observed DEF Books, QueuedOnce, Broker, RowAgreesWithBroker, MovesTo, BrokerState
    <2>3. Lifecycle!Place(i)
      BY <1>2, <2>1, <2>2 DEF Accept, Lifecycle!Place, rows
    <2> QED
      BY <2>3 DEF Lifecycle!Next
  <1> QED
    BY <1>1, <1>2

\* Every behaviour of the execution path is a behaviour of OrderLifecycle: one
\* order at most, recorded once, along ALLOWED, and only when it exists.
THEOREM Refinement ==
    ASSUME Guarded
    PROVE  Spec => ImplementsLifecycle
  <1>1. Init => Lifecycle!Init
    BY DEF Init, Lifecycle!Init
  <1>2. IInv /\ [Next]_vars => [Lifecycle!Next]_(Lifecycle!vars)
    <2> SUFFICES ASSUME IInv, [Next]_vars
                 PROVE  [Lifecycle!Next]_(Lifecycle!vars)
      OBVIOUS
    <2>1. TypeOK /\ Books /\ Broker
      BY DEF IInv, Guarded
    <2> USE DEF rows, market
    <2>2. ASSUME NEW i \in Intents, NEW t \in OrderTypes,
                 NEW s \in StartState, CreateWithOutbox(i, t, s)
          PROVE  Lifecycle!Next
      BY <2>2 DEF CreateWithOutbox, StartState, Lifecycle!Next, Lifecycle!Create,
         Lifecycle!StartState
    <2>3. ASSUME NEW w \in Workers, SaveBrokerResult(w)
          PROVE  Lifecycle!Next
      BY <2>1, <2>3, SavingRecords DEF SaveBrokerResult
    <2>4. ASSUME NEW w \in Workers, DieAfterCommit(w)
          PROVE  [Lifecycle!Next]_(Lifecycle!vars)
      BY <2>1, <2>4, SavingRecords DEF DieAfterCommit, Lifecycle!vars
    <2>5. ASSUME NEW i \in Intents, Accept(i)
          PROVE  [Lifecycle!Next]_(Lifecycle!vars)
      BY <2>1, <2>5, AcceptingPlaces
    <2>6. CASE UNCHANGED <<row, orders>>
      BY <2>6 DEF Lifecycle!vars
    <2>7. \/ \E i \in Intents, t \in OrderTypes, s \in StartState :
                CreateWithOutbox(i, t, s)
          \/ \E w \in Workers : SaveBrokerResult(w) \/ DieAfterCommit(w)
          \/ \E i \in Intents : Accept(i)
          \/ UNCHANGED <<row, orders>>
      BY DEF Next, Api, Step, Failure, Market, vars, Claim,
         SkipGhost, LeaveRow, RejectRow, LockForExecution, Lookup, Submit, Reply,
         TimeOut, Relookup, MarkPublished, FindSessionLost, Fail, DropSession,
         Refuse, Lose, Progress
    <2> QED
      BY <2>2, <2>3, <2>4, <2>5, <2>6, <2>7
  <1> QED
    BY <1>1, <1>2, InductiveInvariant, PTL DEF Spec, ImplementsLifecycle, Lifecycle!Spec
==============================================================================
