--------------------------- MODULE OrderLifecycle ---------------------------
(***************************************************************************)
(* What the execution path promises about one intent, whatever its         *)
(* workers, locks, sessions and retries do: an order comes into being at   *)
(* the broker at most once, only while the row still says QUEUED (or       *)
(* UNKNOWN, when the request overtook the save), the row is recorded once, *)
(* along the ALLOWED table, and a state that implies an order is recorded  *)
(* only when there is one.  ExecutionCore implements this.                 *)
(***************************************************************************)
EXTENDS Integers, OrderStates

CONSTANT Intents

VARIABLES state,    \* the state of the intent's row, ABSENT before creation
          orders    \* how many orders the broker has accepted for the intent

vars == <<state, orders>>

Init ==
    /\ state = [i \in Intents |-> "ABSENT"]
    /\ orders = [i \in Intents |-> 0]

Create(i) ==
    /\ state[i] = "ABSENT"
    /\ \E s \in StartState : state' = [state EXCEPT ![i] = s]
    /\ UNCHANGED orders

Place(i) ==
    /\ state[i] \in {"QUEUED", "UNKNOWN"} /\ orders[i] = 0
    /\ orders' = [orders EXCEPT ![i] = 1]
    /\ UNCHANGED state

Record(i) ==
    /\ state[i] = "QUEUED"
    /\ \E r \in ResultState :
          /\ \E m \in Allowed("QUEUED") \cup {"QUEUED"} : r \in Allowed(m)
          /\ r \in ResultState \ {"REJECTED", "UNKNOWN"} => orders[i] = 1
          /\ state' = [state EXCEPT ![i] = r]
    /\ UNCHANGED orders

Next == \E i \in Intents : Create(i) \/ Place(i) \/ Record(i)

Spec == Init /\ [][Next]_vars
==============================================================================
