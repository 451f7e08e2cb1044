------------------------------ MODULE Console -------------------------------
(***************************************************************************)
(* The operations console: the process-wide store behind the console API   *)
(* (api/console/store, api/console/fixtures, api/routes/console) and the   *)
(* browser tabs that act on it (web/src/app/(console), web/src/lib).       *)
(*                                                                         *)
(* A tab has one page open.  It shows what the store held when the page    *)
(* was last rendered, and offers only the buttons that fit what it shows.  *)
(* A click posts to the API and renders that page again; the other tabs    *)
(* stay as they were.                                                      *)
(***************************************************************************)
EXTENDS Integers, FiniteSets

CONSTANTS
    Tabs,
    Deciders,     \* the tabs of those who decide approvals
    Approvals,
    Moving,       \* the approvals whose price a recheck finds changed
    Toggles,      \* strategies and copy sources
    Accounts,
    Nodes,        \* MT5 nodes
    Rules,        \* risk rules
    Base,         \* the limit a rule has until somebody changes it
    Limits,       \* the finite limits an operator may type
    Nothing       \* no approval, toggle, account, node or rule

\* What Decimal() reads: the infinities too.  Text is refused (422) and NaN cannot be
\* compared (500), before anything is stored.
Infinite == 1000
MinusInfinite == -1000
Unreadable == 2000
Numbers == Limits \cup {Infinite, MinusInfinite}

ASSUME ConsoleAssumption ==
    /\ Deciders \subseteq Tabs
    /\ Moving \subseteq Approvals
    /\ Limits \subseteq MinusInfinite + 1 .. Infinite - 1 /\ Base \in Limits
    /\ Nothing \notin Approvals \cup Toggles \cup Accounts \cup Nodes \cup Rules

VARIABLES
    approval_decisions,   \* PENDING until somebody decides
    approval_rechecked, stopped_accounts, resumed_nodes,
    paused,               \* paused_strategies and paused_sources
    risk_limits,          \* the limit in force of each rule
    emergency_stop, liquidation_running,
    offline,              \* nodes without a heartbeat
    page,                 \* the page open in each tab, as it was rendered
    click                 \* the last request the API carried out (history)

approvals == <<approval_decisions, approval_rechecked>>
switches  == <<stopped_accounts, resumed_nodes, paused>>
controls  == <<emergency_stop, liquidation_running>>
vars == <<approvals, switches, controls, risk_limits, offline, page, click>>
------------------------------------------------------------------------------
(* What the API answers a GET with.                                          *)

\* RiskRuleRow refuses a limit that is not finite, and with it /risk-rules,
\* /session and every change of a rule fail (500).
RiskReadable == \A r \in Rules : risk_limits[r] \in Limits

AutoTrading(n) ==
    IF emergency_stop THEN "PAUSED_BY_USER"
    ELSE IF n \in offline \ resumed_nodes THEN "STOPPED_BY_OFFLINE"
    ELSE "RUNNING"

Pages == {"approvals", "strategies", "connections", "risk", "admin"}

\* What the buttons of a page depend on.
Rendered(p) ==
    CASE p = "approvals" ->
            [of |-> p, decisions |-> approval_decisions,
             changed |-> approval_rechecked \cap Moving]   \* shown with the new price
      [] p = "strategies" -> [of |-> p, paused |-> paused]  \* and the copy sources
      [] p = "connections" ->
            [of |-> p, stopped |-> stopped_accounts,
             dead |-> {n \in Nodes : AutoTrading(n) = "STOPPED_BY_OFFLINE"}]
      [] p = "risk" -> [of |-> p, readable |-> RiskReadable]
      [] p = "admin" -> [of |-> p, stop |-> emergency_stop]

Shows(t, p) == page[t].of = p
Render(t)   == \E p \in {page[t].of} : page' = [page EXCEPT ![t] = Rendered(p)']

Open(t, p) ==
    /\ p = "approvals" => t \in Deciders
    /\ page' = [page EXCEPT ![t] = Rendered(p)]
    /\ UNCHANGED <<approvals, switches, controls, risk_limits, offline, click>>

\* A heartbeat stops, or comes back.
HeartbeatChanges(n) ==
    /\ offline' = IF n \in offline THEN offline \ {n} ELSE offline \cup {n}
    /\ UNCHANGED <<approvals, switches, controls, risk_limits, page, click>>

Clicked(kind, id, want, seen) ==
    click' = [kind |-> kind, id |-> id, want |-> want, seen |-> seen]
------------------------------------------------------------------------------
(* Approvals.                                                                *)

\* The drawer offers its buttons while it shows a pending approval.
OfferedAlways(t, a) == Shows(t, "approvals")  \* mutant: disabled={decided} is lost
Offered(t, a) == Shows(t, "approvals") /\ page[t].decisions[a] = "PENDING"

RecheckApproval(t, a) ==
    /\ Offered(t, a)
    /\ approval_rechecked' = approval_rechecked \cup {a}
    /\ Clicked("recheck", a, TRUE, TRUE)
    /\ UNCHANGED <<approval_decisions, switches, controls, risk_limits, offline>>
    /\ Render(t)

\* decide: 409 for an approval nobody rechecked.  An earlier decision is not
\* looked at.  The recheck flag is the store's, not the tab's.
ApproveUnchecked(a) == a \in Approvals        \* mutant: no RECHECK_REQUIRED
MayApprove(a) == a \in approval_rechecked

Decide(t, a, approve) ==
    /\ Offered(t, a)
    /\ approve => MayApprove(a)
    /\ approval_decisions' =
          [approval_decisions EXCEPT ![a] = IF approve THEN "APPROVED" ELSE "REJECTED"]
    /\ Clicked("decide", a, approve, a \in Moving => a \in page[t].changed)
    /\ UNCHANGED <<approval_rechecked, switches, controls, risk_limits, offline>>
    /\ Render(t)

DecideRefused(t, a) ==
    /\ Offered(t, a) /\ ~MayApprove(a)
    /\ UNCHANGED <<approvals, switches, controls, risk_limits, offline, click>>
    /\ Render(t)
------------------------------------------------------------------------------
(* Strategies, copy sources, accounts and nodes.                             *)

\* The button says what the tab shows; the endpoint flips what the store holds.
Toggle(t, g) ==
    /\ Shows(t, "strategies")
    /\ paused' = IF g \in paused THEN paused \ {g} ELSE paused \cup {g}
    /\ Clicked("toggle", g, g \notin page[t].paused, TRUE)
    /\ UNCHANGED <<approvals, stopped_accounts, resumed_nodes, controls, risk_limits, offline>>
    /\ Render(t)

Stopped(a, stop) ==
    IF stop THEN stopped_accounts \cup {a} ELSE stopped_accounts \ {a}

\* stop_account and resume_account: one button, by what the tab shows.
SwitchAccount(t, a) ==
    /\ Shows(t, "connections")
    /\ LET stop == a \notin page[t].stopped IN
        /\ stopped_accounts' = Stopped(a, stop)
        /\ Clicked("account", a, stop, TRUE)
    /\ UNCHANGED <<approvals, resumed_nodes, paused, controls, risk_limits, offline>>
    /\ Render(t)

ResumeNode(t, n) ==
    /\ Shows(t, "connections") /\ n \in page[t].dead
    /\ resumed_nodes' = resumed_nodes \cup {n}
    /\ Clicked("node", n, TRUE, TRUE)
    /\ UNCHANGED <<approvals, stopped_accounts, paused, controls, risk_limits, offline>>
    /\ Render(t)
------------------------------------------------------------------------------
(* Risk rules and the controls.                                              *)

Parsed(limit) == limit \in Numbers

\* update_risk_rule compares with the limit in force, not the one shown.
LoosensBase(r, limit) == limit > Base         \* mutant: compares with the built-in limit
Loosens(r, limit) == limit > risk_limits[r]

UpdateRiskRule(t, r, limit, reauthenticated) ==
    /\ Shows(t, "risk") /\ page[t].readable /\ RiskReadable /\ Parsed(limit)
    /\ Loosens(r, limit) => reauthenticated
    /\ risk_limits' = [risk_limits EXCEPT ![r] = limit]
    /\ Clicked("limit", r, limit > risk_limits[r], reauthenticated)
    /\ UNCHANGED <<approvals, switches, controls, offline>>
    /\ Render(t)

\* 422, 409 or 500: the tab is rendered again and nothing else happens.
UpdateRefused(t) ==
    /\ Shows(t, "risk") /\ page[t].readable
    /\ UNCHANGED <<approvals, switches, controls, risk_limits, offline, click>>
    /\ Render(t)

EmergencyStop(t, reauthenticated) ==
    /\ Shows(t, "admin") /\ ~page[t].stop
    /\ emergency_stop' = (emergency_stop \/ reauthenticated)
    /\ Clicked("stop", Nothing, TRUE, reauthenticated)
    /\ UNCHANGED <<approvals, switches, risk_limits, liquidation_running, offline>>
    /\ Render(t)

\* resume_all takes no proof of reauthentication.
ResumeAll(t) ==
    /\ Shows(t, "admin") /\ page[t].stop
    /\ emergency_stop' = FALSE
    /\ Clicked("resume", Nothing, FALSE, FALSE)
    /\ UNCHANGED <<approvals, switches, risk_limits, liquidation_running, offline>>
    /\ Render(t)

LiquidateAll(t, phrase, reauthenticated) ==
    /\ Shows(t, "admin")
    /\ liquidation_running' = (liquidation_running \/ (phrase /\ reauthenticated))
    /\ Clicked("liquidate", Nothing, phrase, reauthenticated)
    /\ UNCHANGED <<approvals, switches, risk_limits, emergency_stop, offline>>
    /\ Render(t)

Pristine ==
    /\ approval_decisions' = [a \in Approvals |-> "PENDING"]
    /\ approval_rechecked' = {} /\ stopped_accounts' = {} /\ resumed_nodes' = {}
    /\ paused' = {} /\ risk_limits' = [r \in Rules |-> Base]
    /\ emergency_stop' = FALSE /\ liquidation_running' = FALSE

\* ConsoleStore.reset.
Reset(t) ==
    /\ Shows(t, "admin")
    /\ Pristine
    /\ Clicked("reset", Nothing, TRUE, TRUE)
    /\ UNCHANGED offline
    /\ Render(t)

\* The API process restarts with an empty store; the tabs do not notice.
Restart ==
    /\ Pristine
    /\ Clicked("reset", Nothing, TRUE, TRUE)
    /\ UNCHANGED <<offline, page>>
------------------------------------------------------------------------------
Init ==
    /\ approval_decisions = [a \in Approvals |-> "PENDING"]
    /\ approval_rechecked = {} /\ stopped_accounts = {} /\ resumed_nodes = {}
    /\ paused = {} /\ risk_limits = [r \in Rules |-> Base]
    /\ emergency_stop = FALSE /\ liquidation_running = FALSE
    /\ offline = {}
    /\ page = [t \in Tabs |-> Rendered("admin")]
    /\ click = [kind |-> "none", id |-> Nothing, want |-> FALSE, seen |-> TRUE]

ApprovalNext(t) == \E a \in Approvals :
    \/ RecheckApproval(t, a) \/ DecideRefused(t, a)
    \/ \E approve \in BOOLEAN : Decide(t, a, approve)

SwitchNext(t) ==
    \/ \E g \in Toggles : Toggle(t, g)
    \/ \E a \in Accounts : SwitchAccount(t, a)
    \/ \E n \in Nodes : ResumeNode(t, n)

RuleNext(t) ==
    \/ UpdateRefused(t)
    \/ \E r \in Rules, limit \in Numbers \cup {Unreadable}, reauthenticated \in BOOLEAN :
          UpdateRiskRule(t, r, limit, reauthenticated)

ControlNext(t) ==
    \/ ResumeAll(t)
    \/ \E reauthenticated \in BOOLEAN :
          \/ EmergencyStop(t, reauthenticated)
          \/ \E phrase \in BOOLEAN : LiquidateAll(t, phrase, reauthenticated)

Next ==
    \/ \E t \in Tabs :
          \/ \E p \in Pages : Open(t, p)
          \/ ApprovalNext(t) \/ SwitchNext(t) \/ RuleNext(t) \/ ControlNext(t) \/ Reset(t)
    \/ \E n \in Nodes : HeartbeatChanges(n)
    \/ Restart

Spec == Init /\ [][Next]_vars
------------------------------------------------------------------------------
TypeOK ==
    /\ approval_decisions \in [Approvals -> {"PENDING", "APPROVED", "REJECTED"}]
    /\ approval_rechecked \subseteq Approvals /\ stopped_accounts \subseteq Accounts
    /\ resumed_nodes \subseteq Nodes /\ offline \subseteq Nodes /\ paused \subseteq Toggles
    /\ risk_limits \in [Rules -> Numbers]
    /\ emergency_stop \in BOOLEAN /\ liquidation_running \in BOOLEAN
    /\ DOMAIN page = Tabs
    /\ \A t \in Tabs : page[t].of \in Pages

\* A decision is final until the store is emptied.  The API does not look; only the
\* disabled buttons of the drawer keep it, so it takes a single deciding tab to hold.
DecisionIsFinal ==
    [][\A a \in Approvals :
          approval_decisions[a] \notin {"PENDING", approval_decisions'[a]}
            => click'.kind = "reset"]_vars

\* "Approval requires a recheck first", whatever the order of rechecks, decisions,
\* resets and restarts; and who approves a request whose price moved has the new price
\* on the screen: the store's flag and the drawer's notice go together, in a single tab.
ApprovedAtTheShownPrice ==
    /\ \A a \in Approvals : approval_decisions[a] = "APPROVED" => a \in approval_rechecked
    /\ click.kind = "decide" /\ click.want => click.seen

\* Loosening a limit, stopping and liquidating each take a reauthentication of their
\* own, whatever happened behind the page: a limit tightened meanwhile is loosened from
\* where it is, a stop liquidates nothing, and a release of the stop ends no liquidation.
ControlsAreGuarded ==
    [][LET by(kind) == click'.kind = kind /\ click'.seen IN
       /\ \A r \in Rules :
             risk_limits'[r] > risk_limits[r] => by("limit") \/ by("reset")
       /\ ~emergency_stop /\ emergency_stop' => by("stop")
       /\ ~liquidation_running /\ liquidation_running' => by("liquidate")
       /\ liquidation_running /\ ~liquidation_running' => by("reset")]_vars
==============================================================================
