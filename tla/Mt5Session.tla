----------------------------- MODULE Mt5Session -----------------------------
(***************************************************************************)
(* infrastructure/broker/mt5_session.py: one MetaTrader 5 client, which is *)
(* not thread safe, used by asyncio tasks through an executor with a       *)
(* single thread.  Each call waits with a timeout; a call that times out   *)
(* while it waits in the executor's queue is cancelled, one that is        *)
(* running goes on in the thread, where it may come back late or never.    *)
(*                                                                         *)
(* Callers are tasks that make one call each, the starter runs start() and *)
(* the closer close().  The event loop runs one task's step at a time.     *)
(***************************************************************************)
EXTENDS Integers, Sequences, SequencesExt

CONSTANTS
    Callers,   \* tasks that make a call
    Starter,   \* the task that runs start()
    Closer,    \* the task that runs close()
    Nobody

ASSUME SessionAssumption ==
    /\ Starter \notin Callers /\ Closer \notin Callers \cup {Starter}
    /\ Nobody \notin Callers \cup {Starter, Closer}

Tasks == Callers \cup {Starter, Closer}

VARIABLES
    state,     \* SessionState
    pc,        \* where each task is
    queue,     \* tasks whose operation waits in the executor
    running,   \* the task whose operation is in the thread
    hung,      \* the thread will never come back
    result,    \* what a task's operation came to
    terminal,  \* what start() knows of the terminal
    shut       \* the executor was shut down

thread == <<running, hung>>
vars == <<state, pc, queue, thread, result, terminal, shut>>

SessionState == {"IDLE", "READY", "DEGRADED", "CLOSED"}
Waiting == {"calling", "initialize", "terminal_info", "account_info", "shutdown"}
Ended   == {"answered", "timed out", "unavailable", "failed"}
Result  == {"none", "good", "bad", "disabled", "cancelled"}
------------------------------------------------------------------------------
Init ==
    /\ state = "IDLE"
    /\ pc = [t \in Tasks |-> "new"]
    /\ queue = <<>>
    /\ running = Nobody /\ hung = FALSE
    /\ result = [t \in Tasks |-> "none"]
    /\ terminal = "none"
    /\ shut = FALSE

Goto(t, label) == pc' = [pc EXCEPT ![t] = label]

\* call(): refused on a degraded session and, by the executor, after shutdown;
\* otherwise the operation is queued and the task awaits it at label.
Call(t, label) ==
    /\ IF state = "DEGRADED"
       THEN Goto(t, "unavailable") /\ UNCHANGED <<queue, result>>
       ELSE IF shut
       THEN Goto(t, "failed") /\ UNCHANGED <<queue, result>>
       ELSE /\ Goto(t, label)
            /\ queue' = Append(queue, t)
            /\ result' = [result EXCEPT ![t] = "none"]
    /\ UNCHANGED <<state, thread, shut>>
------------------------------------------------------------------------------
(***************************************************************************)
(* The executor's thread.                                                  *)
(***************************************************************************)
ThreadTakes ==
    /\ running = Nobody /\ queue # <<>>
    /\ running' = Head(queue)
    /\ queue' = Tail(queue)
    /\ UNCHANGED <<state, pc, hung, result, terminal, shut>>

\* The operation returns something good, something bad (initialize is false,
\* an info is None) or, of the terminal, that it does not allow trading.
ThreadReturns ==
    /\ running # Nobody /\ ~hung
    /\ \E r \in {"good", "bad", "disabled"} :
          /\ r = "disabled" => pc[running] = "terminal_info"
          /\ result' = [result EXCEPT ![running] = r]
    /\ running' = Nobody
    /\ UNCHANGED <<state, pc, queue, hung, terminal, shut>>

ThreadHangs ==
    /\ running # Nobody /\ ~hung
    /\ hung' = TRUE
    /\ UNCHANGED <<state, pc, queue, running, result, terminal, shut>>
------------------------------------------------------------------------------
(***************************************************************************)
(* The tasks.                                                              *)
(***************************************************************************)
Answered(t, label) == pc[t] = label /\ result[t] # "none"

CallerBegins(t) ==
    pc[t] = "new" /\ Call(t, "calling") /\ UNCHANGED terminal

\* The result, or the CancelledError that close() leaves behind, arrives.
CallerAnswered(t) ==
    /\ Answered(t, "calling")
    /\ Goto(t, IF result[t] = "cancelled" THEN "failed" ELSE "answered")
    /\ UNCHANGED <<state, queue, thread, result, terminal, shut>>

\* start(): initialize, then terminal_info, then account_info.
StarterCalls ==
    \/ pc[Starter] = "new" /\ Call(Starter, "initialize") /\ UNCHANGED terminal
    \/ /\ Answered(Starter, "initialize") /\ result[Starter] = "good"
       /\ Call(Starter, "terminal_info") /\ UNCHANGED terminal
    \/ /\ Answered(Starter, "terminal_info") /\ result[Starter] # "cancelled"
       /\ terminal' = result[Starter]
       /\ Call(Starter, "account_info")

StarterCancelled ==
    /\ pc[Starter] \in Waiting /\ result[Starter] = "cancelled"
    /\ Goto(Starter, "failed")
    /\ UNCHANGED <<state, queue, thread, result, terminal, shut>>

\* initialize failed: the session is marked and, after a call of last_error on
\* the event loop's own thread, the exception raised.
InitializeFailed ==
    /\ Answered(Starter, "initialize") /\ result[Starter] = "bad"
    /\ state' = "DEGRADED"
    /\ Goto(Starter, "failed")
    /\ UNCHANGED <<queue, thread, result, terminal, shut>>

\* Both infos are there: no account or terminal degrades the session, a
\* terminal without trading leaves it as it is, and else it is READY.
StarterConcludes ==
    /\ Answered(Starter, "account_info") /\ result[Starter] # "cancelled"
    /\ LET usable == result[Starter] = "good" /\ terminal # "bad" IN
       /\ state' = CASE ~usable                          -> "DEGRADED"
                     [] usable /\ terminal = "disabled"  -> state
                     [] OTHER                            -> "READY"
       /\ Goto(Starter, IF usable /\ terminal = "good" THEN "answered" ELSE "failed")
    /\ UNCHANGED <<queue, thread, result, terminal, shut>>

\* executor.shutdown(wait=False, cancel_futures=True): whoever waits in the
\* queue is answered with a cancellation.
ShutDown(waiting) ==
    /\ shut' = TRUE
    /\ queue' = <<>>
    /\ result' = [t \in Tasks |->
                     IF Contains(waiting, t) THEN "cancelled" ELSE result[t]]
    /\ state' = "CLOSED"

\* Mutant of CloserBegins: shutdown is submitted once more by every retry.
CloserBeginsTwice ==
    /\ pc[Closer] \in {"new", "shutdown"}
    /\ state \in {"READY", "DEGRADED"} /\ Len(queue) < 3
    /\ Goto(Closer, "shutdown")
    /\ queue' = Append(queue, Closer)
    /\ UNCHANGED <<state, result, shut, thread, terminal>>

\* close() calls the client's shutdown only on a session that was started.
CloserBegins ==
    /\ pc[Closer] = "new"
    /\ \/ /\ state \in {"READY", "DEGRADED"}
          /\ Goto(Closer, "shutdown")
          /\ queue' = Append(queue, Closer)
          /\ UNCHANGED <<state, result, shut>>
       \/ /\ state \notin {"READY", "DEGRADED"}
          /\ ShutDown(queue)
          /\ Goto(Closer, "answered")
    /\ UNCHANGED <<thread, terminal>>

CloserAnswered ==
    /\ Answered(Closer, "shutdown")
    /\ ShutDown(queue)
    /\ Goto(Closer, "answered")
    /\ UNCHANGED <<thread, terminal>>

\* Task t's operation is taken out of the queue, where it stands once at most.
Without(t) ==
    IF Contains(queue, t)
    THEN RemoveAt(queue, CHOOSE i \in 1..Len(queue) : queue[i] = t) ELSE queue

\* A timeout is far longer than a turn of the event loop, so nothing that has
\* arrived is still waiting to be looked at.
Idle == \A t \in Tasks : pc[t] \in Waiting => result[t] = "none"

\* Mutant of TimeOut: the operation is left in the queue.
TimeOutKeeping(t) ==
    /\ pc[t] \in Waiting /\ Idle
    /\ Goto(t, "timed out")
    /\ IF t = Closer
       THEN ShutDown(Without(t))
       ELSE state' = "DEGRADED" /\ UNCHANGED <<queue, result, shut>>
    /\ UNCHANGED <<thread, terminal>>

\* Mutant of TimeOut: the session is not marked.
TimeOutUnmarked(t) ==
    /\ pc[t] \in Waiting /\ Idle
    /\ Goto(t, "timed out")
    /\ IF t = Closer
       THEN ShutDown(Without(t))
       ELSE queue' = Without(t) /\ UNCHANGED <<state, result, shut>>
    /\ UNCHANGED <<thread, terminal>>

\* Mutant of TimeOut: close() waits for the client without a limit.
TimeOutCalls(t) ==
    /\ pc[t] \in Waiting /\ Idle /\ t # Closer
    /\ Goto(t, "timed out")
    /\ queue' = Without(t)
    /\ state' = "DEGRADED"
    /\ UNCHANGED <<thread, result, terminal, shut>>

\* wait_for gives up: a queued operation is cancelled, a running one is not.
\* call() marks the session; close() goes on to shut the executor down.
TimeOut(t) ==
    /\ pc[t] \in Waiting /\ Idle
    /\ Goto(t, "timed out")
    /\ IF t = Closer
       THEN ShutDown(Without(t))
       ELSE /\ queue' = Without(t)
            /\ state' = "DEGRADED"
            /\ UNCHANGED <<result, shut>>
    /\ UNCHANGED <<thread, terminal>>

TaskStep(t) ==
    \/ TimeOut(t)
    \/ t \in Callers /\ (CallerBegins(t) \/ CallerAnswered(t))
    \/ t = Starter /\ \/ StarterCalls \/ StarterCancelled \/ StarterConcludes
                      \/ InitializeFailed
    \/ t = Closer /\ (CloserBegins \/ CloserAnswered)

Next ==
    \/ ThreadTakes \/ ThreadReturns \/ ThreadHangs
    \/ \E t \in Tasks : TaskStep(t)

Spec == Init /\ [][Next]_vars

\* The loop runs a task that can go on, and timers fire.  Nothing is assumed of
\* the thread, and nobody need begin.
GoesOn(t) == pc[t] # "new" /\ TaskStep(t)
FairSpec  == Spec /\ \A t \in Tasks : WF_vars(GoesOn(t))
------------------------------------------------------------------------------
\* Types; the client's thread and queue hold each task once.
TypeOK ==
    /\ state \in SessionState
    /\ pc \in [Tasks -> Waiting \cup Ended \cup {"new"}]
    /\ queue \in Seq(Tasks)
    /\ result \in [Tasks -> Result]
    /\ terminal \in Result /\ hung \in BOOLEAN /\ shut \in BOOLEAN
    /\ running \in Tasks \cup {Nobody}
    /\ \A i, j \in DOMAIN queue : queue[i] = queue[j] => i = j
    /\ hung => running # Nobody

\* A caller that gave up while its operation still waited never has it carried
\* out afterwards: an order that timed out in the queue is not sent late.
GivenUpIsNotQueued ==
    \A i \in DOMAIN queue : pc[queue[i]] \in Waiting

\* Every call and every close() comes to an end, even when the client's thread
\* never comes back.
EveryCallEnds == \A t \in Tasks : pc[t] \in Waiting ~> pc[t] \notin Waiting

\* A thread that hangs is noticed for good: from some time on the session does
\* not call itself READY.
HangsAreNoticed == hung ~> [](state # "READY")
==============================================================================
