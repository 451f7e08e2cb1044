----------------------------- MODULE ConsoleProofs -----------------------------
(***************************************************************************)
(* The safety of Console for any tabs, approvals, rules and limits.  The   *)
(* controls are guarded whoever acts on them; what concerns approvals      *)
(* holds when a single tab decides, which the theorems say.                *)
(***************************************************************************)
EXTENDS Console, TLAPS

OneDecider == \A t, u \in Deciders : t = u

\* The page of whoever decides keeps up with the store: it shows a decided request
\* as decided, and the notice of a changed price where the store knows of a recheck.
\* The store may know less than the page, after a reset.
ScreenKeepsUp ==
    \A t \in Tabs : Shows(t, "approvals") =>
        /\ t \in Deciders
        /\ \A a \in Approvals :
              page[t].decisions[a] = "PENDING" => approval_decisions[a] = "PENDING"
        /\ approval_rechecked \cap Moving \subseteq page[t].changed

IInv ==
    /\ TypeOK
    /\ ScreenKeepsUp
    /\ ApprovedAtTheShownPrice------------------------------------------------------------------------------
(***************************************************************************)
(* Pages.                                                                  *)
(***************************************************************************)
LEMMA RenderedPages ==
    /\ \A p \in Pages : Rendered(p).of = p /\ Rendered(p)'.of = p
    /\ Rendered("approvals")'.decisions = approval_decisions'
    /\ Rendered("approvals")'.changed = approval_rechecked' \cap Moving
  BY DEF Rendered, Pages

\* What a step does to the pages: nothing, or it renders one.
Renders(t, p) == page' = [page EXCEPT ![t] = Rendered(p)']

\* A click renders the page that the tab has open.
LEMMA RenderRenders ==
    ASSUME TypeOK, NEW t \in Tabs, Render(t)
    PROVE  \E p \in Pages : page[t].of = p /\ Renders(t, p)
  BY DEF Render, Renders, TypeOK

LEMMA RenderedTypes ==
    ASSUME TypeOK, NEW t \in Tabs, NEW p \in Pages, Renders(t, p)
    PROVE  /\ DOMAIN page' = Tabs
           /\ \A u \in Tabs : page'[u].of \in Pages
           /\ page'[t] = Rendered(p)' /\ page'[t].of = p
           /\ \A u \in Tabs \ {t} : page'[u] = page[u]
  BY RenderedPages DEF Renders, TypeOK

LEMMA OpenRenders ==
    ASSUME NEW t \in Tabs, NEW p \in Pages, Open(t, p)
    PROVE  Renders(t, p)
  BY DEF Open, Renders, Rendered, Pages, approvals, switches, controls, AutoTrading,
         RiskReadable

LEMMA PageTypes ==
    ASSUME TypeOK, [Next]_vars
    PROVE  DOMAIN page' = Tabs /\ \A t \in Tabs : page'[t].of \in Pages
  <1>1. \/ page' = page
        \/ \E t \in Tabs : Render(t)
        \/ \E t \in Tabs, p \in Pages : Open(t, p)
    BY ZenonT(60) DEF Next, vars, ApprovalNext, SwitchNext, RuleNext, ControlNext, RecheckApproval,
           Decide, DecideRefused, Toggle, SwitchAccount, ResumeNode, UpdateRiskRule,
           UpdateRefused, EmergencyStop, ResumeAll, LiquidateAll, Reset, Restart,
           HeartbeatChanges
  <1>2. CASE page' = page
    BY <1>2 DEF TypeOK
  <1>3. ASSUME NEW t \in Tabs, Render(t)
        PROVE  DOMAIN page' = Tabs /\ \A u \in Tabs : page'[u].of \in Pages
    BY <1>3, RenderRenders, RenderedTypes
  <1>4. ASSUME NEW t \in Tabs, NEW p \in Pages, Open(t, p)
        PROVE  DOMAIN page' = Tabs /\ \A u \in Tabs : page'[u].of \in Pages
    BY <1>4, OpenRenders, RenderedTypes
  <1> QED
    BY <1>1, <1>2, <1>3, <1>4
------------------------------------------------------------------------------
(***************************************************************************)
(* Types.                                                                  *)
(***************************************************************************)
\* TypeOK without the pages.
StoreTypes ==
    /\ approval_decisions \in [Approvals -> {"PENDING", "APPROVED", "REJECTED"}]
    /\ approval_rechecked \subseteq Approvals /\ stopped_accounts \subseteq Accounts
    /\ resumed_nodes \subseteq Nodes /\ offline \subseteq Nodes /\ paused \subseteq Toggles
    /\ risk_limits \in [Rules -> Numbers]
    /\ emergency_stop \in BOOLEAN /\ liquidation_running \in BOOLEAN

LEMMA PristineTypes ==
    ASSUME StoreTypes, Pristine, offline' = offline
    PROVE  StoreTypes'
  BY ConsoleAssumption DEF StoreTypes, Pristine, Numbers

LEMMA TypeStep == TypeOK /\ [Next]_vars => TypeOK'
  <1> SUFFICES ASSUME TypeOK, [Next]_vars
               PROVE  StoreTypes'
    BY PageTypes DEF TypeOK, StoreTypes
  <1>0. StoreTypes
    BY DEF TypeOK, StoreTypes
  <1> USE <1>0 DEF StoreTypes, approvals, switches, controls
  <1>1. ASSUME NEW t \in Tabs, NEW p \in Pages, Open(t, p)
        PROVE  StoreTypes'
    BY <1>1 DEF Open
  <1>2. ASSUME NEW t \in Tabs, ApprovalNext(t)
        PROVE  StoreTypes'
    BY <1>2 DEF ApprovalNext, RecheckApproval, Decide, DecideRefused
  <1>3. ASSUME NEW t \in Tabs, SwitchNext(t)
        PROVE  StoreTypes'
    BY <1>3 DEF SwitchNext, Toggle, SwitchAccount, Stopped, ResumeNode
  <1>4. ASSUME NEW t \in Tabs, RuleNext(t)
        PROVE  StoreTypes'
    BY <1>4 DEF RuleNext, UpdateRefused, UpdateRiskRule, Parsed
  <1>5. ASSUME NEW t \in Tabs, ControlNext(t)
        PROVE  StoreTypes'
    BY <1>5 DEF ControlNext, EmergencyStop, ResumeAll, LiquidateAll
  <1>6. ASSUME NEW t \in Tabs, Reset(t)
        PROVE  StoreTypes'
    BY <1>6, PristineTypes DEF Reset
  <1>7. ASSUME NEW n \in Nodes, HeartbeatChanges(n)
        PROVE  StoreTypes'
    BY <1>7 DEF HeartbeatChanges
  <1>8. CASE Restart
    BY <1>8, PristineTypes DEF Restart
  <1>9. CASE UNCHANGED vars
    BY <1>9 DEF vars
  <1> QED
    BY <1>1, <1>2, <1>3, <1>4, <1>5, <1>6, <1>7, <1>8, <1>9 DEF Next
------------------------------------------------------------------------------
(***************************************************************************)
(* Approvals.                                                              *)
(***************************************************************************)
\* A freshly rendered page keeps up.
LEMMA FreshKeepsUp ==
    ASSUME TypeOK, NEW t \in Tabs, NEW p \in Pages, Renders(t, p),
           p = "approvals" => t \in Deciders
    PROVE  Shows(t, "approvals")' =>
              /\ t \in Deciders
              /\ \A a \in Approvals :
                    page'[t].decisions[a] = "PENDING" => approval_decisions'[a] = "PENDING"
              /\ approval_rechecked' \cap Moving \subseteq page'[t].changed
  BY RenderedTypes, RenderedPages DEF Shows

\* A step that leaves the approvals alone, whatever it renders.
LEMMA QuietKeepsUp ==
    ASSUME TypeOK, ScreenKeepsUp, UNCHANGED approvals,
           \/ page' = page
           \/ \E t \in Tabs, p \in Pages :
                 Renders(t, p) /\ (p = "approvals" => t \in Deciders)
    PROVE  ScreenKeepsUp'
  <1>1. CASE page' = page
    BY <1>1 DEF ScreenKeepsUp, Shows, approvals
  <1>2. ASSUME NEW t \in Tabs, NEW p \in Pages, Renders(t, p),
               p = "approvals" => t \in Deciders
        PROVE  ScreenKeepsUp'
    BY <1>2, RenderedTypes, FreshKeepsUp DEF ScreenKeepsUp, Shows, approvals
  <1> QED
    BY <1>1, <1>2

\* A step of a page of approvals: there is no other such page.
LEMMA ActingKeepsUp ==
    ASSUME TypeOK, ScreenKeepsUp, OneDecider, NEW t \in Tabs, Shows(t, "approvals"), Render(t)
    PROVE  ScreenKeepsUp'
  <1>1. Renders(t, "approvals") /\ "approvals" \in Pages
    BY RenderRenders DEF Shows, Pages
  <1>2. t \in Deciders
    BY DEF ScreenKeepsUp
  <1>3. ASSUME NEW u \in Tabs, u # t
        PROVE  ~Shows(u, "approvals")'
    BY <1>1, <1>2, <1>3, RenderedTypes DEF ScreenKeepsUp, OneDecider, Shows
  <1> QED
    BY <1>1, <1>2, <1>3, FreshKeepsUp DEF ScreenKeepsUp

\* An empty store knows less than any page.
LEMMA EmptyKeepsUp ==
    ASSUME TypeOK, ScreenKeepsUp, Pristine, page' = page \/ \E t \in Tabs : Render(t)
    PROVE  ScreenKeepsUp'
  <1>1. \A t \in Tabs : Shows(t, "approvals")' => Shows(t, "approvals")
    BY RenderRenders, RenderedTypes DEF Shows
  <1> QED
    BY <1>1 DEF ScreenKeepsUp, Pristine

LEMMA RenderQuietly ==
    ASSUME TypeOK, ScreenKeepsUp, NEW t \in Tabs, Render(t)
    PROVE  \E p \in Pages : Renders(t, p) /\ (p = "approvals" => t \in Deciders)
  BY RenderRenders DEF ScreenKeepsUp, Shows

LEMMA ScreenStep ==
    ASSUME TypeOK, ScreenKeepsUp, OneDecider, [Next]_vars
    PROVE  ScreenKeepsUp'
  <1> USE DEF switches, controls
  <1>1. ASSUME NEW t \in Tabs, NEW p \in Pages, Open(t, p)
        PROVE  ScreenKeepsUp'
    BY <1>1, OpenRenders, QuietKeepsUp DEF Open
  <1>2. ASSUME NEW t \in Tabs, ApprovalNext(t)
        PROVE  ScreenKeepsUp'
    BY <1>2, ActingKeepsUp DEF ApprovalNext, RecheckApproval, Decide, DecideRefused, Offered
  <1>3. ASSUME NEW t \in Tabs, SwitchNext(t) \/ RuleNext(t) \/ ControlNext(t)
        PROVE  ScreenKeepsUp'
    <2>1. UNCHANGED approvals /\ Render(t)
      BY <1>3 DEF SwitchNext, Toggle, SwitchAccount, ResumeNode, RuleNext, UpdateRefused,
                  UpdateRiskRule, ControlNext, EmergencyStop, ResumeAll, LiquidateAll
    <2> QED
      BY <2>1, RenderQuietly, QuietKeepsUp
  <1>4. ASSUME NEW t \in Tabs, Reset(t)
        PROVE  ScreenKeepsUp'
    BY <1>4, EmptyKeepsUp DEF Reset
  <1>5. ASSUME NEW n \in Nodes, HeartbeatChanges(n)
        PROVE  ScreenKeepsUp'
    BY <1>5, QuietKeepsUp DEF HeartbeatChanges
  <1>6. CASE Restart
    BY <1>6, EmptyKeepsUp DEF Restart
  <1>7. CASE UNCHANGED vars
    BY <1>7, QuietKeepsUp DEF vars
  <1> QED
    BY <1>1, <1>2, <1>3, <1>4, <1>5, <1>6, <1>7 DEF Next
LEMMA ApprovedStep ==
    ASSUME TypeOK, ScreenKeepsUp, ApprovedAtTheShownPrice, [Next]_vars
    PROVE  ApprovedAtTheShownPrice'
  <1> USE DEF ApprovedAtTheShownPrice, approvals, Clicked
  <1>1. ASSUME NEW t \in Tabs, NEW a \in Approvals, RecheckApproval(t, a)
        PROVE  ApprovedAtTheShownPrice'
    BY <1>1 DEF RecheckApproval
  <1>2. ASSUME NEW t \in Tabs, NEW a \in Approvals, NEW approve \in BOOLEAN,
               Decide(t, a, approve)
        PROVE  ApprovedAtTheShownPrice'
    <2>1. /\ approval_rechecked' = approval_rechecked
          /\ \A b \in Approvals : approval_decisions'[b] = "APPROVED" =>
                approval_decisions[b] = "APPROVED" \/ (b = a /\ approve)
          /\ approve => a \in approval_rechecked
      <3>1. approval_decisions' =
               [approval_decisions EXCEPT ![a] = IF approve THEN "APPROVED" ELSE "REJECTED"]
        BY <1>2 DEF Decide
      <3>2. approval_decisions \in [Approvals -> {"PENDING", "APPROVED", "REJECTED"}]
        BY DEF TypeOK
      <3>3. \A b \in Approvals : approval_decisions'[b] = "APPROVED" =>
               approval_decisions[b] = "APPROVED" \/ (b = a /\ approve)
        <4>1. \A b \in Approvals : b # a => approval_decisions'[b] = approval_decisions[b]
          BY <3>1, <3>2
        <4>2. ~approve => approval_decisions'[a] # "APPROVED"
          BY <3>1, <3>2
        <4> QED
          BY <4>1, <4>2
      <3> QED
        BY <1>2, <3>3 DEF Decide, MayApprove
    <2>2. /\ click'.want = approve
          /\ click'.seen = (a \in Moving => a \in page[t].changed)
      BY <1>2 DEF Decide
    <2>3. approval_rechecked \cap Moving \subseteq page[t].changed
      BY <1>2 DEF Decide, Offered, ScreenKeepsUp
    <2> QED
      BY <2>1, <2>2, <2>3
  <1>3. ASSUME NEW t \in Tabs, SwitchNext(t) \/ RuleNext(t) \/ ControlNext(t)
        PROVE  ApprovedAtTheShownPrice'
    <2>1. UNCHANGED approvals /\ (click' = click \/ click'.kind # "decide")
      BY <1>3 DEF SwitchNext, Toggle, SwitchAccount, ResumeNode, RuleNext, UpdateRefused,
                  UpdateRiskRule, ControlNext, EmergencyStop, ResumeAll, LiquidateAll
    <2> QED
      BY <2>1
  <1>4. ASSUME Pristine, Clicked("reset", Nothing, TRUE, TRUE)
        PROVE  ApprovedAtTheShownPrice'
    BY <1>4 DEF Pristine
  <1>5. CASE UNCHANGED <<approvals, click>>
    BY <1>5
  <1> QED
    BY <1>1, <1>2, <1>3, <1>4, <1>5
    DEF Next, vars, Open, ApprovalNext, DecideRefused, Reset, HeartbeatChanges, Restart

LEMMA FinalStep ==
    ASSUME TypeOK, ScreenKeepsUp, [Next]_vars, NEW a \in Approvals,
           approval_decisions[a] \notin {"PENDING", approval_decisions'[a]}
    PROVE  click'.kind = "reset"
  <1> USE DEF approvals, Clicked
  <1>1. ASSUME NEW t \in Tabs, NEW b \in Approvals, NEW approve \in BOOLEAN,
               Decide(t, b, approve)
        PROVE  FALSE
    <2>1. approval_decisions[b] = "PENDING"
      BY <1>1 DEF Decide, Offered, ScreenKeepsUp
    <2>2. a # b => approval_decisions'[a] = approval_decisions[a]
      BY <1>1 DEF Decide, TypeOK
    <2> QED
      BY <2>1, <2>2
  <1>2. \/ UNCHANGED approval_decisions
        \/ \E t \in Tabs : Reset(t)
        \/ Restart
    BY <1>1 DEF Next, vars, Open, ApprovalNext, RecheckApproval, DecideRefused, SwitchNext,
                Toggle, SwitchAccount, ResumeNode, RuleNext, UpdateRefused, UpdateRiskRule,
                ControlNext, EmergencyStop, ResumeAll, LiquidateAll, HeartbeatChanges
  <1> QED
    BY <1>2 DEF Reset, Restart
------------------------------------------------------------------------------
(***************************************************************************)
(* Controls.                                                               *)
(***************************************************************************)
\* What ControlsAreGuarded says of a step.
Guarded(kind) == click'.kind = kind /\ click'.seen

LEMMA ControlStep ==
    ASSUME TypeOK, [Next]_vars
    PROVE  /\ \A r \in Rules : risk_limits'[r] > risk_limits[r] =>
                 Guarded("limit") \/ Guarded("reset")
           /\ ~emergency_stop /\ emergency_stop' => Guarded("stop")
           /\ ~liquidation_running /\ liquidation_running' => Guarded("liquidate")
           /\ liquidation_running /\ ~liquidation_running' => Guarded("reset")
  <1> DEFINE Goal ==
           /\ \A r \in Rules : risk_limits'[r] > risk_limits[r] =>
                 Guarded("limit") \/ Guarded("reset")
           /\ ~emergency_stop /\ emergency_stop' => Guarded("stop")
           /\ ~liquidation_running /\ liquidation_running' => Guarded("liquidate")
           /\ liquidation_running /\ ~liquidation_running' => Guarded("reset")
  <1> USE DEF Clicked, Guarded, controls
  <1>1. \A r \in Rules : risk_limits[r] \in Int
    <2>1. Numbers \subseteq Int
      BY ConsoleAssumption DEF Numbers, Infinite, MinusInfinite
    <2> QED
      BY <2>1 DEF TypeOK
  <1>2. ASSUME NEW t \in Tabs, NEW r \in Rules, NEW limit \in Numbers \cup {Unreadable},
               NEW reauthenticated \in BOOLEAN, UpdateRiskRule(t, r, limit, reauthenticated)
        PROVE  Goal
    <2>1. UNCHANGED controls
      BY <1>2 DEF UpdateRiskRule
    <2>2. ASSUME NEW s \in Rules, risk_limits'[s] > risk_limits[s]
          PROVE  Guarded("limit")
      <3>1. s = r /\ risk_limits'[r] = limit
        BY <1>1, <1>2, <2>2 DEF UpdateRiskRule, TypeOK
      <3>2. reauthenticated
        BY <1>2, <2>2, <3>1 DEF UpdateRiskRule, Loosens
      <3> QED
        BY <1>2, <3>2 DEF UpdateRiskRule
    <2> QED
      BY <2>1, <2>2
  <1>3. ASSUME NEW t \in Tabs, ControlNext(t)
        PROVE  Goal
    <2>1. UNCHANGED risk_limits
      BY <1>3 DEF ControlNext, ResumeAll, EmergencyStop, LiquidateAll
    <2>2. \A r \in Rules : ~(risk_limits'[r] > risk_limits[r])
      BY <1>1, <2>1
    <2> DEFINE Kept == /\ ~emergency_stop /\ emergency_stop' => Guarded("stop")
                       /\ ~liquidation_running /\ liquidation_running' => Guarded("liquidate")
                       /\ liquidation_running => liquidation_running'
    <2>3. ASSUME ResumeAll(t)
          PROVE  Kept
      BY <2>3 DEF ResumeAll
    <2>4. ASSUME NEW reauthenticated \in BOOLEAN, EmergencyStop(t, reauthenticated)
          PROVE  Kept
      BY <2>4 DEF EmergencyStop
    <2>5. ASSUME NEW phrase \in BOOLEAN, NEW reauthenticated \in BOOLEAN,
                 LiquidateAll(t, phrase, reauthenticated)
          PROVE  Kept
      BY <2>5 DEF LiquidateAll
    <2>6. Kept
      BY <1>3, <2>3, <2>4, <2>5 DEF ControlNext
    <2> QED
      BY <2>2, <2>6
  <1>4. ASSUME Pristine, Clicked("reset", Nothing, TRUE, TRUE)
        PROVE  Goal
    BY <1>4 DEF Pristine
  <1>5. CASE UNCHANGED <<risk_limits, controls>>
    BY <1>1, <1>5
  <1> QED
    BY <1>2, <1>3, <1>4, <1>5
    DEF Next, vars, Open, ApprovalNext, RecheckApproval, Decide, DecideRefused, SwitchNext,
        Toggle, SwitchAccount, ResumeNode, RuleNext, UpdateRefused, Reset,
        HeartbeatChanges, Restart
------------------------------------------------------------------------------
LEMMA InitIInv == Init => IInv
  <1> SUFFICES ASSUME Init
               PROVE  IInv
    OBVIOUS
  <1>1. \A t \in Tabs : page[t].of = "admin"
    BY DEF Init, Rendered
  <1>2. TypeOK
    BY <1>1, ConsoleAssumption DEF Init, TypeOK, Pages, Numbers
  <1>3. ScreenKeepsUp
    BY <1>1 DEF ScreenKeepsUp, Shows
  <1>4. ApprovedAtTheShownPrice
    BY DEF Init, ApprovedAtTheShownPrice
  <1> QED
    BY <1>2, <1>3, <1>4 DEF IInv

\* Every variable keeps its type, whoever acts.
THEOREM TypeCorrect == Spec => []TypeOK
  <1>1. Init => TypeOK
    BY InitIInv DEF IInv
  <1> QED
    BY <1>1, TypeStep, PTL DEF Spec

\* Loosening a limit, stopping and liquidating take a reauthentication, whatever the
\* tabs show and however many there are.
THEOREM ControlsAreGuardedHolds == Spec => ControlsAreGuarded
  <1>1. TypeOK /\ [Next]_vars =>
           [LET by(kind) == click'.kind = kind /\ click'.seen IN
            /\ \A r \in Rules :
                  risk_limits'[r] > risk_limits[r] => by("limit") \/ by("reset")
            /\ ~emergency_stop /\ emergency_stop' => by("stop")
            /\ ~liquidation_running /\ liquidation_running' => by("liquidate")
            /\ liquidation_running /\ ~liquidation_running' => by("reset")]_vars
    BY ControlStep DEF Guarded
  <1> QED
    BY <1>1, TypeCorrect, PTL DEF Spec, ControlsAreGuarded

\* The inductive invariant, when one tab decides: its page keeps up with the store.
THEOREM InductiveInvariant == ASSUME OneDecider PROVE Spec => []IInv
  <1>1. IInv /\ [Next]_vars => IInv'
    BY TypeStep, ScreenStep, ApprovedStep DEF IInv
  <1> QED
    BY InitIInv, <1>1, PTL DEF Spec

\* When one tab decides, what is approved was rechecked, and approved at the price
\* that the tab showed.
THEOREM ApprovedAtTheShownPriceHolds ==
    ASSUME OneDecider PROVE Spec => []ApprovedAtTheShownPrice
  <1>1. IInv => ApprovedAtTheShownPrice
    BY DEF IInv
  <1> QED
    BY InductiveInvariant, <1>1, PTL

\* When one tab decides, only an emptied store takes a decision back.
THEOREM DecisionIsFinalHolds == ASSUME OneDecider PROVE Spec => DecisionIsFinal
  <1>1. IInv /\ [Next]_vars =>
           [\A a \in Approvals :
               approval_decisions[a] \notin {"PENDING", approval_decisions'[a]}
                 => click'.kind = "reset"]_vars
    BY FinalStep DEF IInv
  <1> QED
    BY <1>1, InductiveInvariant, PTL DEF Spec, DecisionIsFinal
==============================================================================
