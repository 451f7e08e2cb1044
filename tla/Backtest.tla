------------------------------ MODULE Backtest ------------------------------
(***************************************************************************)
(* strategies/ut_bot/backtest.py: run_backtest drives the trade manager    *)
(* bar by bar and keeps the books of a simulated broker.  A bar is three   *)
(* steps: at its open the market orders queued by the bar before are       *)
(* filled, inside it the brackets are hit, at its close the trade manager  *)
(* is asked for decisions.                                                 *)
(*                                                                         *)
(* Bars and signals are arbitrary: any open, range and close, any side,    *)
(* any stop beyond the bar's range, any flip of the Hull band.  That       *)
(* includes every sequence that compute_signals produces.                  *)
(***************************************************************************)
EXTENDS TradeManager, SequencesExt

CONSTANTS
    Prices,             \* prices a bar can show
    MaxBars,            \* bound on the bars of a run
    InitialEquity,
    Config,             \* settings of Sizing
    Symbol,             \* symbol limits of Sizing
    ConfirmOverBudget   \* confirm_over_budget

S == INSTANCE Sizing

\* Targets stay positive, so that 0 can stand for None.
ASSUME BacktestAssumption ==
    /\ \A p, q \in Prices : p \in Nat /\ p > RrMult * (q - p)
    /\ MaxBars \in Nat /\ InitialEquity \in Nat
    /\ S!Valid(Config) /\ Symbol \in S!Specs
    /\ ConfirmOverBudget \in BOOLEAN

VARIABLES
    index,      \* index of the bar at hand
    phase,      \* which step of the bar comes next
    bar,        \* the bar so far
    trade,      \* state of the trade manager
    brackets,   \* brackets at the simulated broker, by role
    queued,     \* actions deferred to the next open
    entered,    \* quantity filled at this bar's open, 0 if none
    book        \* open entries, equity and counts of fills

vars == <<index, phase, bar, trade, brackets, queued, entered, book>>

NoBracket == [side |-> "NONE", stopLoss |-> 0, takeProfit |-> 0,
              activeFrom |-> 0, breakeven |-> FALSE]
NoBar   == [open |-> 0, high |-> 0, low |-> 0, close |-> 0]
NoEntry == [side |-> "NONE", price |-> 0, quantity |-> 0, bar |-> 0]
------------------------------------------------------------------------------
\* record_exit: nothing happens for a role without an open entry.
RecordExit(bk, role, price) ==
    LET e == bk.held[role]
        points == IF e.side = "BUY" THEN price - e.price ELSE e.price - price
        equity == bk.equity + points * e.quantity
    IN  IF e = NoEntry THEN bk
        ELSE [held |-> [bk.held EXCEPT ![role] = NoEntry], equity |-> equity,
              ruined |-> bk.ruined \/ equity <= 0,
              entries |-> bk.entries, exits |-> bk.exits + 1]

Init ==
    /\ index = 0 /\ phase = "open"
    /\ bar = NoBar
    /\ trade = NoTrade
    /\ brackets = [r \in TrancheRole |-> NoBracket]
    /\ queued = <<>>
    /\ entered = 0
    /\ book = [held |-> [r \in TrancheRole |-> NoEntry], equity |-> InitialEquity,
               ruined |-> FALSE, entries |-> 0, exits |-> 0]
------------------------------------------------------------------------------
(***************************************************************************)
(* 1. The open.                                                            *)
(***************************************************************************)
EntryIsQueued == \E i \in DOMAIN queued : queued[i].kind = "OPEN"
ClosesOf(r)   == {i \in DOMAIN queued : queued[i].kind = "CLOSE" /\ queued[i].role = r}

\* One round over the queue.
Settle(bk, action, price) ==
    IF action.kind = "CLOSE" THEN RecordExit(bk, action.role, price) ELSE bk

Settled(bk, actions, price) == FoldLeft(LAMBDA b, a : Settle(b, a, price), bk, actions)
AfterCloses(price)          == Settled(book, queued, price)

Unbracketed ==
    [r \in TrancheRole |-> IF ClosesOf(r) # {} THEN NoBracket ELSE brackets[r]]

Entry(price, bk) ==
    S!SizeEntry(Config, Symbol, Distance(price, trade.pendingStop), bk.equity)

\* Mutant of Skipped: only the equity of the moment counts.
SkippedWhilePoor(price, bk) ==
    LET out == Entry(price, bk) IN
    bk.equity <= 0 \/ out.lots = 0 \/ (out.confirm /\ ~ConfirmOverBudget)

\* _skip_reason is not None.
Skipped(price, bk) ==
    LET out == Entry(price, bk) IN
    bk.ruined \/ bk.equity <= 0 \/ out.lots = 0 \/ (out.confirm /\ ~ConfirmOverBudget)

BeginBar(price) ==
    /\ phase = "open" /\ index < MaxBars
    /\ phase' = "inside"
    /\ bar' = [open |-> price, high |-> price, low |-> price, close |-> price]
    /\ brackets' = Unbracketed
    /\ queued' = <<>>
    /\ UNCHANGED index

OpenWithoutEntry(price) ==
    /\ BeginBar(price)
    /\ ~EntryIsQueued
    /\ book' = AfterCloses(price)
    /\ entered' = 0
    /\ UNCHANGED trade

OpenSkippingEntry(price) ==
    /\ BeginBar(price)
    /\ EntryIsQueued /\ Skipped(price, AfterCloses(price))
    /\ book' = AfterCloses(price)
    /\ entered' = 0
    /\ trade' = NoTrade

OpenWithEntry(price) ==
    LET bk == AfterCloses(price)
        quantity == Entry(price, bk).lots * Symbol.contract
    IN  /\ BeginBar(price)
        /\ EntryIsQueued /\ ~Skipped(price, bk)
        /\ book' = [bk EXCEPT
               !.held = [r \in TrancheRole |-> [side |-> trade.side, price |-> price,
                                                quantity |-> quantity, bar |-> index]],
               !.entries = @ + 2]
        /\ entered' = quantity
        /\ UNCHANGED trade
------------------------------------------------------------------------------
(***************************************************************************)
(* 2. Inside the bar.                                                      *)
(***************************************************************************)
\* _bracket_exit: the stop comes before the target; a gap fills at the open.
BracketExit(b, br) ==
    LET long      == b.side = "BUY"
        hitStop   == IF long THEN br.low <= b.stopLoss ELSE br.high >= b.stopLoss
        hitTarget == b.takeProfit # 0 /\ Touched(b.side, b.takeProfit, br)
        Worse(p)  == IF long THEN S!Least(br.open, p) ELSE S!Greatest(br.open, p)
        Better(p) == IF long THEN S!Greatest(br.open, p) ELSE S!Least(br.open, p)
    IN  CASE hitStop -> [price |-> Worse(b.stopLoss),
                         reason |-> IF b.breakeven THEN "BREAKEVEN_STOP" ELSE "STOP_LOSS"]
          [] ~hitStop /\ hitTarget -> [price |-> Better(b.takeProfit), reason |-> "TAKE_PROFIT"]
          [] OTHER -> [price |-> 0, reason |-> "NONE"]

\* Brackets that are active and hit.
Hits(br) == {r \in TrancheRole :
                /\ brackets[r] # NoBracket /\ brackets[r].activeFrom <= index
                /\ BracketExit(brackets[r], br).reason # "NONE"}

\* T1's bracket is always set before T2's, and so comes first.
Inside(high, low) ==
    LET br == [bar EXCEPT !.high = high, !.low = low]
        Exit(r)       == BracketExit(brackets[r], br)
        Booked(bk, r) == IF r \in Hits(br) THEN RecordExit(bk, r, Exit(r).price) ELSE bk
        Told(t, r)    == IF r \in Hits(br) THEN OnTrancheClosed(t, r, Exit(r).reason) ELSE t
    IN  /\ phase = "inside" /\ low <= bar.open /\ bar.open <= high
        /\ phase' = "close"
        /\ bar' = br
        /\ brackets' = [r \in TrancheRole |->
               IF r \in Hits(br) THEN NoBracket ELSE brackets[r]]
        /\ book' = Booked(Booked(book, "T1"), "T2")
        /\ trade' = Told(Told(trade, "T1"), "T2")
        /\ UNCHANGED <<index, queued, entered>>
------------------------------------------------------------------------------
(***************************************************************************)
(* 3. The close.                                                           *)
(***************************************************************************)
\* Mutant of Register: a close ordered for the next open leaves its bracket.
RegisterKeeping(at, action, tr, i) ==
    LET r == action.role IN
    CASE action.kind = "SET_BRACKETS" ->
            [at EXCEPT !.brackets[r] =
                [side |-> tr.tranches[r].side, stopLoss |-> action.stopLoss,
                 takeProfit |-> action.takeProfit, activeFrom |-> i + 1,
                 breakeven |-> FALSE]]
      [] action.kind \in {"OPEN", "CLOSE"} -> [at EXCEPT !.queued = Append(@, action)]
      [] OTHER -> at

\* One round of _register_brackets: what it does to the brackets and the queue.
Register(at, action, tr, i) ==
    LET r == action.role IN
    CASE action.kind = "SET_BRACKETS" /\ tr.tranches[r].quantity # 0 ->
            [at EXCEPT !.brackets[r] =
                [side |-> tr.tranches[r].side, stopLoss |-> action.stopLoss,
                 takeProfit |-> action.takeProfit, activeFrom |-> i + 1,
                 breakeven |-> FALSE]]
      [] action.kind = "MOVE_STOP" /\ at.brackets[r] # NoBracket ->
            [at EXCEPT !.brackets[r].stopLoss = action.stopLoss,
                       !.brackets[r].breakeven = TRUE,
                       !.brackets[r].activeFrom = i + 1]
      [] action.kind = "CLOSE" ->
            [at EXCEPT !.brackets[r] = NoBracket, !.queued = Append(@, action)]
      [] action.kind = "OPEN" -> [at EXCEPT !.queued = Append(@, action)]
      [] OTHER -> at

RegisterBrackets(at, decision, i) ==
    FoldLeft(LAMBDA a, action : Register(a, action, decision.trade, i), at, decision.actions)

Close(price, signal) ==
    LET br     == [bar EXCEPT !.close = price]
        filled == IF entered # 0
                  THEN OnEntryFilled(trade, bar.open, index, entered, trade.referenceClose)
                  ELSE Decision(trade, <<>>)
        judged == OnBarClose(filled.trade, br, signal)
        before == [brackets |-> brackets, queued |-> queued]
        after  == RegisterBrackets(RegisterBrackets(before, filled, index), judged, index)
    IN  /\ phase = "close" /\ bar.low <= price /\ price <= bar.high
        /\ phase' = "open"
        /\ index' = index + 1
        /\ bar' = NoBar
        /\ entered' = 0
        /\ trade' = judged.trade
        /\ brackets' = after.brackets
        /\ queued' = after.queued
        /\ UNCHANGED book

\* lowest / highest over sl_len bars, this one included; 0 while warming up.
Stops(side) ==
    CASE side = "BUY"  -> {0} \cup {p \in Prices : p <= bar.low}
      [] side = "SELL" -> {0} \cup {p \in Prices : p >= bar.high}
      [] OTHER         -> {0}

Next ==
    \/ \E p \in Prices : OpenWithoutEntry(p) \/ OpenSkippingEntry(p) \/ OpenWithEntry(p)
    \/ \E high, low \in Prices : Inside(high, low)
    \/ \E p \in Prices, side \in OrderSide \cup {"NONE"}, flip \in {"NONE", "UP", "DOWN"} :
          \E stop \in Stops(side) :
              Close(p, [index |-> index, side |-> side, stop |-> stop, hullFlip |-> flip])

Spec == Init /\ [][Next]_vars
------------------------------------------------------------------------------
(***************************************************************************)
(* Properties.                                                             *)
(***************************************************************************)
\* Between bars the trade manager and the broker's books agree: a position is
\* held for a role exactly when its tranche is OPEN or its close is queued,
\* an OPEN tranche has the bracket at the broker that the trade manager thinks
\* it has, nothing else has one, and a tranche waits for its fill exactly as
\* long as its order is queued.
BooksAgree ==
    phase = "open" => \A r \in TrancheRole :
        LET t == trade.tranches[r] IN
        /\ book.held[r] # NoEntry <=> t.state = "OPEN" \/ ClosesOf(r) # {}
        /\ t.state = "OPEN" =>
               /\ book.held[r].side = t.side /\ book.held[r].price = t.entryPrice
               /\ brackets[r].stopLoss = t.stopLoss
               /\ brackets[r].takeProfit = t.takeProfit
               /\ brackets[r].breakeven = t.breakevenMoved
        /\ t.state # "OPEN" => brackets[r] = NoBracket
        /\ t.state = "PENDING_ENTRY" <=>
               \E i \in DOMAIN queued : queued[i] = OpenAction(r, trade.side)

\* No position is overwritten by a later entry or closed twice: entries less
\* exits is what is held.
NoPositionIsLost ==
    book.entries - book.exits = Cardinality({r \in TrancheRole : book.held[r] # NoEntry})

\* The runner's stop is at its entry only once the other tranche has taken its
\* profit: the trade manager, which looks at the bar, and the broker, which
\* fills the bracket, never disagree on that.
BreakevenIsEarned ==
    phase = "open" /\ trade.tranches["T2"].state = "OPEN"
                   /\ trade.tranches["T2"].breakevenMoved =>
        /\ trade.tranches["T1"].closeReason = "TAKE_PROFIT"
        /\ trade.tranches["T2"].stopLoss = trade.tranches["T2"].entryPrice

\* A close ordered for the next open names the quantity that is held, for an
\* entry given up right after its fill too.
ClosesNameTheQuantity ==
    phase = "open" => \A i \in DOMAIN queued : queued[i].kind = "CLOSE" =>
        queued[i].quantity = book.held[queued[i].role].quantity

\* Once the equity has been at or below zero nothing is entered again, even if
\* the exit of the other tranche lifts it above zero.
RuinIsFinal == [][book.ruined => book'.entries = book.entries]_vars
==============================================================================
