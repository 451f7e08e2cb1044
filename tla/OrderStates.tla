----------------------------- MODULE OrderStates -----------------------------
(***************************************************************************)
(* The order states of domain/enums.py and the state machine over them of  *)
(* application/order_state_machine.py.  Every module that moves an order   *)
(* takes the table from here, so the table is stated once.                 *)
(***************************************************************************)
EXTENDS FiniteSets

OrderState == {"CREATED", "PENDING_APPROVAL", "QUEUED", "SUBMITTED",
               "PARTIALLY_FILLED", "FILLED", "CANCELED", "REJECTED",
               "EXPIRED", "UNKNOWN"}

\* ALLOWED, one case per key of the dict; the last four keys map to frozenset().
Allowed(s) ==
    CASE s = "CREATED"          -> {"PENDING_APPROVAL", "QUEUED", "REJECTED"}
      [] s = "PENDING_APPROVAL" -> {"QUEUED", "REJECTED", "EXPIRED"}
      [] s = "QUEUED"           -> {"SUBMITTED", "REJECTED", "EXPIRED", "UNKNOWN"}
      [] s = "SUBMITTED"        -> {"PARTIALLY_FILLED", "FILLED", "CANCELED",
                                    "REJECTED", "UNKNOWN"}
      [] s = "PARTIALLY_FILLED" -> {"FILLED", "CANCELED", "UNKNOWN"}
      [] s = "UNKNOWN"          -> {"SUBMITTED", "PARTIALLY_FILLED", "FILLED",
                                    "CANCELED", "REJECTED"}
      [] OTHER                  -> {}

Terminal == {"FILLED", "CANCELED", "REJECTED", "EXPIRED"}

\* The states a row starts in: APPROVAL_STATES of what ApprovalPolicy answers.
StartState == {"QUEUED", "PENDING_APPROVAL", "EXPIRED"}

\* The states a BrokerAdapter puts in a BrokerOrderResult: what the broker
\* holds the order in, or UNKNOWN when the adapter cannot tell.
BrokerState  == {"SUBMITTED", "PARTIALLY_FILLED", "FILLED", "CANCELED", "REJECTED"}
ResultState  == BrokerState \cup {"UNKNOWN"}

\* save_broker_result inserts SUBMITTED between QUEUED and a result that the
\* table does not reach from QUEUED directly.
Waypoint(s, r) ==
    IF s = "QUEUED" /\ r \in {"PARTIALLY_FILLED", "FILLED", "CANCELED"}
    THEN "SUBMITTED" ELSE s

\* transition() does not raise on any hop of recording result r on a row in s.
Recordable(s, r) ==
    /\ Waypoint(s, r) \in Allowed(s) \cup {s}
    /\ r \in Allowed(Waypoint(s, r))

\* The broker-side states an order seen in s may have moved on to.
MovesTo(s) ==
    CASE s = "SUBMITTED"        -> BrokerState
      [] s = "PARTIALLY_FILLED" -> {"PARTIALLY_FILLED", "FILLED", "CANCELED"}
      [] OTHER                  -> {s}
==============================================================================
