---------------------------- MODULE Mt5SessionProofs ----------------------------
(***************************************************************************)
(* The safety of Mt5Session for any number of callers.                     *)
(***************************************************************************)
EXTENDS Mt5Session, SequenceTheorems, TLAPS

\* Whoever waits in the queue has no result yet and is not the one in the thread.
QueuedIsOpen ==
    \A t \in ToSet(queue) : pc[t] \in Waiting /\ result[t] = "none" /\ t # running

\* The thread works for a task that has begun and that waits for a result, unless
\* it gave up.
RunningIsOpen ==
    running # Nobody => /\ pc[running] # "new"
                        /\ pc[running] \in Waiting => result[running] = "none"

\* Who has not begun has no result.
NewHasNoResult == \A t \in Tasks : pc[t] = "new" => result[t] = "none"

IInv ==
    /\ TypeOK
    /\ QueuedIsOpen
    /\ RunningIsOpen
    /\ NewHasNoResult
------------------------------------------------------------------------------
(***************************************************************************)
(* Queues that hold each task once.                                        *)
(***************************************************************************)
Single(q) == \A i, j \in DOMAIN q : q[i] = q[j] => i = j

LEMMA ContainsMember ==
    ASSUME NEW q \in Seq(Tasks), NEW t
    PROVE  Contains(q, t) <=> t \in ToSet(q)
  BY DEF Contains, ToSet

LEMMA AppendMembers ==
    ASSUME NEW q \in Seq(Tasks), NEW t \in Tasks
    PROVE  /\ Append(q, t) \in Seq(Tasks)
           /\ ToSet(Append(q, t)) = ToSet(q) \cup {t}
           /\ Single(q) /\ t \notin ToSet(q) => Single(Append(q, t))
  <1> DEFINE a == Append(q, t)
             n == Len(q) + 1
  <1>1. /\ a \in Seq(Tasks) /\ DOMAIN a = DOMAIN q \cup {n}
        /\ \A i \in DOMAIN q : a[i] = q[i]
        /\ a[n] = t /\ n \notin DOMAIN q
    OBVIOUS
  <1> HIDE DEF a, n
  <1>2. ToSet(a) = ToSet(q) \cup {t}
    BY <1>1 DEF ToSet
  <1>3. Single(q) /\ t \notin ToSet(q) => Single(a)
    BY <1>1 DEF ToSet, Single
  <1> QED
    BY <1>1, <1>2, <1>3 DEF a

\* A position of a sequence without its k-th element is one of the sequence.
LEMMA RemoveAtPositions ==
    ASSUME NEW q \in Seq(Tasks), NEW k \in 1..Len(q)
    PROVE  /\ RemoveAt(q, k) \in Seq(Tasks)
           /\ DOMAIN RemoveAt(q, k) = 1..(Len(q) - 1)
           /\ \A i \in 1..(Len(q) - 1) :
                 RemoveAt(q, k)[i] = IF i < k THEN q[i] ELSE q[i + 1]
  <1> DEFINE l == SubSeq(q, 1, k - 1)
             r == SubSeq(q, k + 1, Len(q))
  <1>1. /\ l \in Seq(Tasks) /\ Len(l) = k - 1
        /\ \A i \in 1..(k - 1) : l[i] = q[i]
    BY SubSeqProperties
  <1>2. /\ r \in Seq(Tasks) /\ Len(r) = Len(q) - k
        /\ \A i \in 1..(Len(q) - k) : r[i] = q[k + i]
    BY SubSeqProperties
  <1> HIDE DEF l, r
  <1>3. /\ l \o r \in Seq(Tasks) /\ Len(l \o r) = Len(q) - 1
        /\ \A i \in 1..(Len(q) - 1) : (l \o r)[i] = IF i < k THEN q[i] ELSE q[i + 1]
    <2>1. l \o r \in Seq(Tasks) /\ Len(l \o r) = Len(l) + Len(r)
      BY <1>1, <1>2, ConcatProperties
    <2>2. \A i \in 1..(Len(l) + Len(r)) :
             (l \o r)[i] = IF i <= Len(l) THEN l[i] ELSE r[i - Len(l)]
      BY <1>1, <1>2, ConcatProperties
    <2>3. Len(q) \in Nat /\ k \in Int
      OBVIOUS
    <2>4. ASSUME NEW i \in 1..(Len(q) - 1)
          PROVE  (l \o r)[i] = IF i < k THEN q[i] ELSE q[i + 1]
      <3>1. CASE i < k
        BY <1>1, <1>2, <2>2, <2>3, <3>1
      <3>2. CASE i >= k
        <4>1. i - (k - 1) \in 1..(Len(q) - k) /\ k + (i - (k - 1)) = i + 1
          BY <2>3, <3>2
        <4>2. r[i - (k - 1)] = q[i + 1]
          BY <1>2, <4>1
        <4>3. (l \o r)[i] = r[i - (k - 1)]
          BY <1>1, <1>2, <2>2, <2>3, <3>2
        <4> QED
          BY <2>3, <3>2, <4>2, <4>3
      <3>3. i < k \/ i >= k
        BY <2>3
      <3> QED
        BY <3>1, <3>2, <3>3, Zenon
    <2> QED
      BY <1>1, <1>2, <2>1, <2>3, <2>4
  <1>4. RemoveAt(q, k) = l \o r
    BY DEF RemoveAt, l, r
  <1> QED
    BY <1>3, <1>4

LEMMA RemoveAtMembers ==
    ASSUME NEW q \in Seq(Tasks), Single(q), NEW k \in 1..Len(q)
    PROVE  /\ ToSet(RemoveAt(q, k)) = ToSet(q) \ {q[k]}
           /\ Single(RemoveAt(q, k))
  <1> DEFINE d == RemoveAt(q, k)
  <1>1. /\ DOMAIN d = 1..(Len(q) - 1) /\ Len(q) \in Nat /\ DOMAIN q = 1..Len(q)
        /\ \A i \in 1..(Len(q) - 1) : d[i] = IF i < k THEN q[i] ELSE q[i + 1]
    BY RemoveAtPositions
  <1> HIDE DEF d
  <1>2. \A i \in DOMAIN d : d[i] \in ToSet(q) \ {q[k]}
    BY <1>1 DEF ToSet, Single
  <1>3. ASSUME NEW i \in 1..Len(q), i # k
        PROVE  q[i] \in ToSet(d)
    <2>1. CASE i < k
      BY <1>1, <1>3, <2>1 DEF ToSet
    <2>2. CASE i > k
      <3>1. i - 1 \in DOMAIN d /\ d[i - 1] = q[i]
        BY <1>1, <2>2
      <3> QED
        BY <3>1 DEF ToSet
    <2> QED
      BY <1>3, <2>1, <2>2
  <1>4. ToSet(d) = ToSet(q) \ {q[k]}
    BY <1>1, <1>2, <1>3 DEF ToSet
  <1>5. Single(d)
    BY <1>1 DEF Single
  <1> QED
    BY <1>4, <1>5 DEF d

LEMMA TailMembers ==
    ASSUME NEW q \in Seq(Tasks), Single(q), q # <<>>
    PROVE  /\ Head(q) \in ToSet(q) /\ ToSet(q) \subseteq Tasks
           /\ Tail(q) \in Seq(Tasks)
           /\ ToSet(Tail(q)) = ToSet(q) \ {Head(q)}
           /\ Single(Tail(q))
  <1> DEFINE d == Tail(q)
  <1>1. /\ d \in Seq(Tasks) /\ DOMAIN d = 1..(Len(q) - 1) /\ Len(q) \in Nat
        /\ DOMAIN q = 1..Len(q) /\ Len(q) >= 1 /\ Head(q) = q[1]
        /\ \A i \in 1..(Len(q) - 1) : d[i] = q[i + 1]
    OBVIOUS
  <1> HIDE DEF d
  <1>2. Head(q) \in ToSet(q) /\ ToSet(q) \subseteq Tasks
    BY <1>1 DEF ToSet
  <1>3. \A i \in DOMAIN d : d[i] \in ToSet(q) \ {q[1]}
    BY <1>1, SMTT(30) DEF ToSet, Single
  <1>4. ASSUME NEW i \in 1..Len(q), i # 1
        PROVE  q[i] \in ToSet(d)
    <2>1. i - 1 \in DOMAIN d /\ d[i - 1] = q[i]
      BY <1>1, <1>4
    <2> QED
      BY <2>1 DEF ToSet
  <1>5. ToSet(d) = ToSet(q) \ {q[1]}
    BY <1>1, <1>3, <1>4 DEF ToSet
  <1>6. Single(d)
    BY <1>1, SMTT(30) DEF Single
  <1> QED
    BY <1>1, <1>2, <1>5, <1>6 DEF d

\* Withdrawing a task's operation leaves the others in the queue.
LEMMA WithoutMembers ==
    ASSUME queue \in Seq(Tasks), Single(queue), NEW t
    PROVE  /\ Without(t) \in Seq(Tasks)
           /\ ToSet(Without(t)) = ToSet(queue) \ {t}
           /\ Single(Without(t))
  <1>1. CASE Contains(queue, t)
    <2> DEFINE k == CHOOSE i \in 1..Len(queue) : queue[i] = t
    <2>1. k \in 1..Len(queue) /\ queue[k] = t
      BY <1>1 DEF Contains
    <2>2. Without(t) = RemoveAt(queue, k)
      BY <1>1 DEF Without
    <2> HIDE DEF k
    <2> QED
      BY <2>1, <2>2, RemoveAtPositions, RemoveAtMembers
  <1>2. CASE ~Contains(queue, t)
    BY <1>2, ContainsMember DEF Without
  <1> QED
    BY <1>1, <1>2------------------------------------------------------------------------------
(***************************************************************************)
(* The steps.                                                              *)
(***************************************************************************)
\* TypeOK in terms of Single.
LEMMA TypeSplit ==
    TypeOK <=> /\ state \in SessionState
               /\ pc \in [Tasks -> Waiting \cup Ended \cup {"new"}]
               /\ queue \in Seq(Tasks) /\ Single(queue)
               /\ result \in [Tasks -> Result]
               /\ terminal \in Result /\ hung \in BOOLEAN /\ shut \in BOOLEAN
               /\ running \in Tasks \cup {Nobody}
               /\ hung => running # Nobody
  BY DEF TypeOK, Single

\* call() of a task that neither waits in the queue nor is in the thread.
LEMMA CallKeeps ==
    ASSUME IInv, NEW t \in Tasks, NEW label \in Waiting, Call(t, label),
           t \notin ToSet(queue), t # running, terminal' \in Result
    PROVE  IInv'
  <1> USE SessionAssumption
  <1>1. /\ UNCHANGED <<state, running, hung, shut>>
        /\ pc' \in [Tasks -> Waiting \cup Ended \cup {"new"}]
        /\ \A x \in Tasks : x # t => pc'[x] = pc[x]
        /\ pc'[t] # "new"
    BY DEF Call, Goto, IInv, TypeOK, thread, Waiting, Ended
  <1>2. CASE queue' = Append(queue, t) /\ result' = [result EXCEPT ![t] = "none"]
             /\ pc'[t] = label
    <2>1. /\ queue' \in Seq(Tasks) /\ Single(queue')
          /\ ToSet(queue') = ToSet(queue) \cup {t}
      BY <1>2, AppendMembers, TypeSplit DEF IInv
    <2>2. result' \in [Tasks -> Result]
          /\ \A x \in Tasks : result'[x] = IF x = t THEN "none" ELSE result[x]
      BY <1>2 DEF IInv, TypeOK, Result
    <2>3. ToSet(queue) \subseteq Tasks
      BY DEF IInv, TypeOK, ToSet
    <2>4. TypeOK'
      BY <1>1, <2>1, <2>2, TypeSplit DEF IInv, TypeOK, Single
    <2>5. QueuedIsOpen'
      BY <1>1, <1>2, <2>1, <2>2, <2>3 DEF IInv, QueuedIsOpen
    <2>6. RunningIsOpen' /\ NewHasNoResult'
      BY <1>1, <1>2, <2>2, TypeSplit DEF IInv, RunningIsOpen, NewHasNoResult
    <2> QED
      BY <2>4, <2>5, <2>6 DEF IInv
  <1>3. CASE UNCHANGED <<queue, result>> /\ pc'[t] \in Ended
    <2>1. ToSet(queue) \subseteq Tasks
      BY DEF IInv, TypeOK, ToSet
    <2>2. TypeOK'
      BY <1>1, <1>3 DEF IInv, TypeOK
    <2>3. QueuedIsOpen'
      BY <1>1, <1>3, <2>1 DEF IInv, QueuedIsOpen
    <2>4. RunningIsOpen' /\ NewHasNoResult'
      BY <1>1, <1>3, TypeSplit DEF IInv, RunningIsOpen, NewHasNoResult
    <2> QED
      BY <2>2, <2>3, <2>4 DEF IInv
  <1> QED
    BY <1>2, <1>3 DEF Call, Goto, Ended, IInv, TypeOK

\* Shutting the executor down cancels whoever still waits in its queue.
LEMMA ShutDownKeeps ==
    ASSUME IInv, NEW waiting \in Seq(Tasks), ToSet(waiting) \subseteq ToSet(queue),
           ShutDown(waiting), NEW label \in Ended, Goto(Closer, label),
           UNCHANGED <<thread, terminal>>
    PROVE  IInv'
  <1> USE SessionAssumption
  <1>1. /\ state' = "CLOSED" /\ shut' = TRUE /\ queue' = <<>>
        /\ running' = running /\ hung' = hung /\ terminal' = terminal
    BY DEF ShutDown, thread
  <1>2. /\ result' \in [Tasks -> Result]
        /\ \A x \in Tasks : x \notin ToSet(queue) => result'[x] = result[x]
    BY ContainsMember DEF ShutDown, IInv, TypeOK, Result
  <1>3. /\ pc' \in [Tasks -> Waiting \cup Ended \cup {"new"}]
        /\ \A x \in Tasks : x # Closer => pc'[x] = pc[x]
        /\ pc'[Closer] = label
    BY DEF Goto, IInv, TypeOK, Tasks
  <1>4. label # "new" /\ label \notin Waiting
    BY DEF Ended, Waiting
  <1>5. TypeOK'
    BY <1>1, <1>2, <1>3 DEF IInv, TypeOK, SessionState
  <1>6. QueuedIsOpen'
    BY <1>1 DEF QueuedIsOpen, ToSet
  <1>7. RunningIsOpen'
    <2>1. running # Nobody => running \in Tasks /\ running \notin ToSet(queue)
      BY DEF IInv, QueuedIsOpen, TypeOK
    <2> QED
      BY <1>1, <1>2, <1>3, <1>4, <2>1 DEF IInv, RunningIsOpen
  <1>8. NewHasNoResult'
    <2>1. \A x \in ToSet(queue) : pc[x] # "new"
      BY DEF IInv, QueuedIsOpen, Waiting
    <2> QED
      BY <1>2, <1>3, <1>4, <2>1 DEF IInv, NewHasNoResult
  <1> QED
    BY <1>5, <1>6, <1>7, <1>8 DEF IInv

\* A task that moves on without touching the queue, its result or the thread.
LEMMA MoveKeeps ==
    ASSUME IInv, NEW t \in Tasks, t \notin ToSet(queue), NEW label \in Ended,
           Goto(t, label), state' \in SessionState,
           UNCHANGED <<queue, thread, result, terminal, shut>>
    PROVE  IInv'
  <1>1. /\ pc' \in [Tasks -> Waiting \cup Ended \cup {"new"}]
        /\ \A x \in Tasks : pc'[x] = IF x = t THEN label ELSE pc[x]
    BY DEF Goto, IInv, TypeOK
  <1>2. label # "new" /\ label \notin Waiting
    BY DEF Ended, Waiting
  <1>3. ToSet(queue) \subseteq Tasks
    BY DEF IInv, TypeOK, ToSet
  <1>4. TypeOK'
    BY <1>1 DEF IInv, TypeOK, thread
  <1>5. QueuedIsOpen'
    BY <1>1, <1>3 DEF IInv, QueuedIsOpen, thread
  <1>6. RunningIsOpen' /\ NewHasNoResult'
    BY <1>1, <1>2 DEF IInv, RunningIsOpen, NewHasNoResult, thread, TypeOK
  <1> QED
    BY <1>4, <1>5, <1>6 DEF IInv

LEMMA AnsweredIsOut ==
    ASSUME IInv, NEW t \in Tasks, NEW label \in Waiting, Answered(t, label)
    PROVE  t \notin ToSet(queue) /\ t # running
  BY SessionAssumption DEF IInv, QueuedIsOpen, RunningIsOpen, Answered, Tasks

LEMMA NewIsOut ==
    ASSUME IInv, NEW t \in Tasks, pc[t] = "new"
    PROVE  t \notin ToSet(queue) /\ t # running
  BY SessionAssumption DEF IInv, QueuedIsOpen, RunningIsOpen, Waiting, Tasks
LEMMA ThreadKeeps ==
    ASSUME IInv, ThreadTakes \/ ThreadReturns \/ ThreadHangs
    PROVE  IInv'
  <1> USE SessionAssumption
  <1>1. CASE ThreadTakes
    <2>1. /\ queue' \in Seq(Tasks) /\ Single(queue')
          /\ running' \in ToSet(queue) /\ ToSet(queue) \subseteq Tasks
          /\ ToSet(queue') = ToSet(queue) \ {running'}
      BY <1>1, TailMembers, TypeSplit DEF ThreadTakes, IInv
    <2>2. UNCHANGED <<state, pc, hung, result, terminal, shut>> /\ running = Nobody
      BY <1>1 DEF ThreadTakes
    <2>3. TypeOK'
      BY <2>1, <2>2, TypeSplit DEF IInv, TypeOK, Single
    <2>4. QueuedIsOpen'
      BY <2>1, <2>2 DEF IInv, QueuedIsOpen
    <2>5. RunningIsOpen' /\ NewHasNoResult'
      BY <2>1, <2>2 DEF IInv, QueuedIsOpen, RunningIsOpen, NewHasNoResult, Waiting
    <2> QED
      BY <2>3, <2>4, <2>5 DEF IInv
  <1>2. CASE ThreadReturns
    <2>1. UNCHANGED <<state, pc, queue, hung, terminal, shut>> /\ running' = Nobody /\ ~hung
      BY <1>2 DEF ThreadReturns
    <2>2. running \in Tasks /\ ToSet(queue) \subseteq Tasks
      BY <1>2 DEF ThreadReturns, IInv, TypeOK, ToSet
    <2>3. /\ result' \in [Tasks -> Result]
          /\ \A x \in Tasks : x # running => result'[x] = result[x]
      BY <1>2 DEF ThreadReturns, IInv, TypeOK, Result
    <2>4. TypeOK'
      BY <2>1, <2>3 DEF IInv, TypeOK
    <2>5. QueuedIsOpen'
      BY <2>1, <2>2, <2>3 DEF IInv, QueuedIsOpen, Tasks
    <2>6. RunningIsOpen' /\ NewHasNoResult'
      BY <1>2, <2>1, <2>2, <2>3 DEF ThreadReturns, IInv, RunningIsOpen, NewHasNoResult
    <2> QED
      BY <2>4, <2>5, <2>6 DEF IInv
  <1>3. CASE ThreadHangs
    BY <1>3 DEF ThreadHangs, IInv, TypeOK, QueuedIsOpen, RunningIsOpen, NewHasNoResult
  <1> QED
    BY <1>1, <1>2, <1>3

LEMMA TimeOutKeeps ==
    ASSUME IInv, NEW t \in Tasks, TimeOut(t)
    PROVE  IInv'
  <1> USE SessionAssumption
  <1>1. /\ Without(t) \in Seq(Tasks) /\ Single(Without(t))
        /\ ToSet(Without(t)) = ToSet(queue) \ {t}
    BY WithoutMembers, TypeSplit DEF IInv
  <1>2. CASE t = Closer
    <2>1. ShutDown(Without(t)) /\ Goto(Closer, "timed out") /\ UNCHANGED <<thread, terminal>>
      BY <1>2 DEF TimeOut
    <2>2. "timed out" \in Ended
      BY DEF Ended
    <2> QED
      BY <1>1, <2>1, <2>2, ShutDownKeeps
  <1>3. CASE t # Closer
    <2>1. /\ queue' = Without(t) /\ state' = "DEGRADED"
          /\ UNCHANGED <<running, hung, result, shut, terminal>>
      BY <1>3 DEF TimeOut, thread
    <2>2. /\ pc' \in [Tasks -> Waiting \cup Ended \cup {"new"}]
          /\ \A x \in Tasks : pc'[x] = IF x = t THEN "timed out" ELSE pc[x]
      BY DEF TimeOut, Goto, IInv, TypeOK, Ended
    <2>3. ToSet(queue) \subseteq Tasks
      BY DEF IInv, TypeOK, ToSet
    <2>4. TypeOK'
      BY <1>1, <2>1, <2>2, TypeSplit DEF IInv, TypeOK, Single, SessionState
    <2>5. QueuedIsOpen'
      BY <1>1, <2>1, <2>2, <2>3 DEF IInv, QueuedIsOpen
    <2>6. RunningIsOpen' /\ NewHasNoResult'
      BY <2>1, <2>2 DEF IInv, TypeOK, RunningIsOpen, NewHasNoResult, Waiting
    <2> QED
      BY <2>4, <2>5, <2>6 DEF IInv
  <1> QED
    BY <1>2, <1>3

LEMMA Step == IInv /\ [Next]_vars => IInv'
  <1> SUFFICES ASSUME IInv, [Next]_vars
               PROVE  IInv'
    OBVIOUS
  <1> USE DEF Waiting, Ended
  <1>1. ASSUME NEW t \in Callers, CallerBegins(t) \/ CallerAnswered(t)
        PROVE  IInv'
    <2>0. t \in Tasks
      BY DEF Tasks
    <2>1. CASE CallerBegins(t)
      BY <2>0, <2>1, NewIsOut, CallKeeps DEF CallerBegins, IInv, TypeOK
    <2>2. CASE CallerAnswered(t)
      BY <2>0, <2>2, AnsweredIsOut, MoveKeeps DEF CallerAnswered, IInv, TypeOK
    <2> QED
      BY <1>1, <2>1, <2>2
  <1>2. CASE StarterCalls
    <2>0. Starter \in Tasks
      BY DEF Tasks
    <2>1. CASE pc[Starter] = "new" /\ Call(Starter, "initialize") /\ UNCHANGED terminal
      BY <2>0, <2>1, NewIsOut, CallKeeps DEF IInv, TypeOK
    <2>2. CASE /\ Answered(Starter, "initialize")
               /\ Call(Starter, "terminal_info") /\ UNCHANGED terminal
      BY <2>0, <2>2, AnsweredIsOut, CallKeeps DEF IInv, TypeOK
    <2>3. CASE /\ Answered(Starter, "terminal_info") /\ terminal' = result[Starter]
               /\ Call(Starter, "account_info")
      BY <2>0, <2>3, AnsweredIsOut, CallKeeps DEF IInv, TypeOK
    <2> QED
      BY <1>2, <2>1, <2>2, <2>3 DEF StarterCalls
  <1>3. CASE StarterCancelled
    <2>1. Starter \in Tasks /\ Answered(Starter, pc[Starter]) /\ pc[Starter] \in Waiting
      BY <1>3 DEF StarterCancelled, Answered, Tasks
    <2>2. Starter \notin ToSet(queue)
      BY <2>1 DEF Answered, IInv, QueuedIsOpen
    <2> QED
      BY <1>3, <2>1, <2>2, MoveKeeps DEF StarterCancelled, IInv, TypeOK
  <1>4. CASE StarterConcludes
    <2>1. Starter \in Tasks /\ Answered(Starter, "account_info")
      BY <1>4 DEF StarterConcludes, Tasks
    <2>2. state' \in SessionState
      BY <1>4 DEF StarterConcludes, SessionState, IInv, TypeOK
    <2>3. PICK label \in Ended : Goto(Starter, label)
      BY <1>4 DEF StarterConcludes
    <2> QED
      BY <1>4, <2>1, <2>2, <2>3, AnsweredIsOut, MoveKeeps DEF StarterConcludes
  <1>5. CASE InitializeFailed
    <2>1. Starter \in Tasks /\ "DEGRADED" \in SessionState
      BY DEF Tasks, SessionState
    <2> QED
      BY <1>5, <2>1, AnsweredIsOut, MoveKeeps DEF InitializeFailed
  <1>6. CASE CloserBegins
    <2>0. Closer \in Tasks /\ queue \in Seq(Tasks) /\ pc[Closer] = "new"
      BY <1>6 DEF Tasks, IInv, TypeOK, CloserBegins
    <2>1. CASE /\ Goto(Closer, "shutdown") /\ queue' = Append(queue, Closer)
               /\ UNCHANGED <<state, result, shut, thread, terminal>>
      <3>1. /\ queue' \in Seq(Tasks) /\ Single(queue')
            /\ ToSet(queue') = ToSet(queue) \cup {Closer}
        BY <2>0, <2>1, NewIsOut, AppendMembers, TypeSplit DEF IInv
      <3>2. /\ pc' \in [Tasks -> Waiting \cup Ended \cup {"new"}]
            /\ \A x \in Tasks : pc'[x] = IF x = Closer THEN "shutdown" ELSE pc[x]
        BY <2>0, <2>1 DEF Goto, IInv, TypeOK
      <3>3. /\ ToSet(queue) \subseteq Tasks
            /\ Closer # running /\ result[Closer] = "none"
        <4>1. ToSet(queue) \subseteq Tasks
          BY <2>0 DEF ToSet
        <4>2. Closer # running /\ result[Closer] = "none"
          BY <2>0, NewIsOut DEF IInv, NewHasNoResult
        <4> QED
          BY <4>1, <4>2
      <3>4. TypeOK'
        BY <2>1, <3>1, <3>2, TypeSplit DEF IInv, TypeOK, Single, thread
      <3>5. QueuedIsOpen'
        BY <2>0, <2>1, <3>1, <3>2, <3>3 DEF IInv, QueuedIsOpen, thread
      <3>6. RunningIsOpen' /\ NewHasNoResult'
        BY <2>1, <3>2, <3>3 DEF IInv, TypeOK, RunningIsOpen, NewHasNoResult, thread
      <3> QED
        BY <3>4, <3>5, <3>6 DEF IInv
    <2>2. CASE ShutDown(queue) /\ Goto(Closer, "answered")
      BY <1>6, <2>0, <2>2, ShutDownKeeps DEF CloserBegins
    <2> QED
      BY <1>6, <2>1, <2>2 DEF CloserBegins
  <1>7. CASE CloserAnswered
    <2>1. queue \in Seq(Tasks)
      BY DEF IInv, TypeOK
    <2> QED
      BY <1>7, <2>1, ShutDownKeeps DEF CloserAnswered
  <1>8. CASE UNCHANGED vars
    BY <1>8 DEF vars, thread, IInv, TypeOK, QueuedIsOpen, RunningIsOpen, NewHasNoResult
  <1> QED
    BY <1>1, <1>2, <1>3, <1>4, <1>5, <1>6, <1>7, <1>8, ThreadKeeps, TimeOutKeeps
    DEF Next, TaskStep
------------------------------------------------------------------------------
LEMMA InitIInv == Init => IInv
  <1> SUFFICES ASSUME Init
               PROVE  IInv
    OBVIOUS
  <1>1. TypeOK
    <2>1. /\ pc \in [Tasks -> Waiting \cup Ended \cup {"new"}]
          /\ result \in [Tasks -> Result] /\ terminal \in Result
      BY DEF Init, Result
    <2>2. queue \in Seq(Tasks) /\ Single(queue)
      BY DEF Init, Single
    <2> QED
      BY <2>1, <2>2, TypeSplit DEF Init, SessionState
  <1> QED
    BY <1>1 DEF Init, IInv, QueuedIsOpen, RunningIsOpen, NewHasNoResult, ToSet

\* The inductive invariant of the session.
THEOREM InductiveInvariant == Spec => []IInv
  BY InitIInv, Step, PTL DEF Spec

\* Every variable keeps its type, and the executor's queue holds a task once.
THEOREM TypeCorrect == Spec => []TypeOK
  <1>1. IInv => TypeOK
    BY DEF IInv
  <1> QED
    BY InductiveInvariant, <1>1, PTL

\* An operation whose caller gave up waiting is not in the executor's queue, so an
\* order that timed out there is never sent late.
THEOREM GivenUpIsNotQueuedHolds == Spec => []GivenUpIsNotQueued
  <1>1. IInv => GivenUpIsNotQueued
    BY DEF IInv, QueuedIsOpen, GivenUpIsNotQueued, ToSet
  <1> QED
    BY InductiveInvariant, <1>1, PTL
==============================================================================
