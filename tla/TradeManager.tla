---------------------------- MODULE TradeManager ----------------------------
(***************************************************************************)
(* application/trade_manager.py: the life cycle of one UT Bot trade, two   *)
(* tranches entered together, as pure functions from a trade and an event  *)
(* to the next trade and the actions it orders.                            *)
(*                                                                         *)
(* Prices and quantities are positive integers and 0 is None.  A bar is    *)
(* [open, high, low, close].  A signal is what on_bar_close looks at in a  *)
(* BarSignal: its index, the UT side, the stop price for that side and     *)
(* which way the Hull band flipped.                                        *)
(***************************************************************************)
EXTENDS Integers, Sequences

CONSTANTS
    RrMult,         \* rr_mult
    UseHullExit,    \* use_hull_exit
    OnlyAfterBe,    \* only_after_be
    MaxEntryGapBps  \* max_entry_gap_bps, 0 for None

ASSUME TradeManagerAssumption ==
    /\ RrMult \in Nat \ {0} /\ MaxEntryGapBps \in Nat
    /\ UseHullExit \in BOOLEAN /\ OnlyAfterBe \in BOOLEAN

TrancheRole == {"T1", "T2"}
OrderSide   == {"BUY", "SELL"}
CloseReason == {"STOP_LOSS", "TAKE_PROFIT", "BREAKEVEN_STOP", "HULL_FLIP",
                "REVERSAL", "INVALID_RISK", "ENTRY_GAP"}

\* A trade has both tranches or none (state ABSENT).
NoTranche ==
    [side |-> "NONE", state |-> "ABSENT", quantity |-> 0, entryPrice |-> 0,
     stopLoss |-> 0, takeProfit |-> 0, entryBar |-> 0,
     breakevenMoved |-> FALSE, closeReason |-> "NONE"]

NoTrade ==
    [side |-> "NONE", pendingStop |-> 0, referenceClose |-> 0,
     tranches |-> [r \in TrancheRole |-> NoTranche]]

Live(trade)   == {r \in TrancheRole : trade.tranches[r].state \in {"PENDING_ENTRY", "OPEN"}}
IsFlat(trade) == Live(trade) = {}

\* What is done for the roles, in their order.
Each(roles, Op(_)) ==
    LET Only(r) == IF r \in roles THEN <<Op(r)>> ELSE <<>>
    IN  Only("T1") \o Only("T2")

OpenAction(role, side) == [kind |-> "OPEN", role |-> role, side |-> side]
CloseAction(role, quantity, reason) ==
    [kind |-> "CLOSE", role |-> role, quantity |-> quantity, reason |-> reason]
SetBrackets(role, stop, target) ==
    [kind |-> "SET_BRACKETS", role |-> role, stopLoss |-> stop, takeProfit |-> target]
MoveStop(role, stop) == [kind |-> "MOVE_STOP", role |-> role, stopLoss |-> stop]

Decision(trade, actions) == [trade |-> trade, actions |-> actions]

CloseAll(trade, roles, reason) ==
    LET tr == trade.tranches IN
    Decision([trade EXCEPT !.tranches = [r \in TrancheRole |->
                  IF r \in roles
                  THEN [tr[r] EXCEPT !.state = "CLOSED", !.closeReason = reason]
                  ELSE tr[r]]],
             Each(roles, LAMBDA r : CloseAction(r, tr[r].quantity, reason)))

FlattenIfDone(trade) == IF IsFlat(trade) THEN NoTrade ELSE trade

Touched(side, price, bar) ==
    IF side = "BUY" THEN bar.high >= price ELSE bar.low <= price

\* Mutant of ApplyBreakeven: the bar of the entry counts too.
ApplyBreakevenAtOnce(trade, bar, signal) ==
    LET runner == trade.tranches["T2"]
        fixed  == trade.tranches["T1"]
    IN  IF /\ runner.state = "OPEN" /\ ~runner.breakevenMoved
           /\ fixed.takeProfit # 0
           /\ Touched(runner.side, fixed.takeProfit, bar)
        THEN Decision([trade EXCEPT !.tranches["T2"].stopLoss = runner.entryPrice,
                                    !.tranches["T2"].breakevenMoved = TRUE],
                      <<MoveStop("T2", runner.entryPrice)>>)
        ELSE Decision(trade, <<>>)

\* Once T1's target is touched after the entry bar, T2's stop moves to entry.
ApplyBreakeven(trade, bar, signal) ==
    LET runner == trade.tranches["T2"]
        fixed  == trade.tranches["T1"]
    IN  IF /\ runner.state = "OPEN" /\ ~runner.breakevenMoved
           /\ fixed.takeProfit # 0
           /\ signal.index > runner.entryBar
           /\ Touched(runner.side, fixed.takeProfit, bar)
        THEN Decision([trade EXCEPT !.tranches["T2"].stopLoss = runner.entryPrice,
                                    !.tranches["T2"].breakevenMoved = TRUE],
                      <<MoveStop("T2", runner.entryPrice)>>)
        ELSE Decision(trade, <<>>)

\* A Hull band that flips against the runner closes the runner only.
ApplyHullExit(trade, signal) ==
    LET runner == trade.tranches["T2"] IN
    IF /\ runner.state = "OPEN" /\ UseHullExit
       /\ OnlyAfterBe => runner.breakevenMoved
       /\ signal.hullFlip = (IF runner.side = "BUY" THEN "DOWN" ELSE "UP")
    THEN CloseAll(trade, {"T2"}, "HULL_FLIP")
    ELSE Decision(trade, <<>>)

Entered(bar, signal) ==
    Decision([side |-> signal.side, pendingStop |-> signal.stop,
              referenceClose |-> bar.close,
              tranches |-> [r \in TrancheRole |->
                  [NoTranche EXCEPT !.side = signal.side, !.state = "PENDING_ENTRY"]]],
             Each(TrancheRole, LAMBDA r : OpenAction(r, signal.side)))

Against(trade, side) == {r \in Live(trade) : trade.tranches[r].side # side}

\* Mutant of ApplySignal: enters although a tranche of this side is alive.
ApplySignalPyramiding(trade, bar, signal) ==
    IF signal.side = "NONE" THEN Decision(trade, <<>>)
    ELSE LET left == CloseAll(trade, Against(trade, signal.side), "REVERSAL") IN
         IF signal.stop = 0 THEN left
         ELSE [Entered(bar, signal) EXCEPT !.actions = left.actions \o @]

\* A signal closes what is open against it and, if that leaves nothing and the
\* stop is known, orders both tranches for the next bar.
ApplySignal(trade, bar, signal) ==
    IF signal.side = "NONE" THEN Decision(trade, <<>>)
    ELSE LET left == CloseAll(trade, Against(trade, signal.side), "REVERSAL") IN
         IF ~IsFlat(left.trade) \/ signal.stop = 0 THEN left
         ELSE [Entered(bar, signal) EXCEPT !.actions = left.actions \o @]

OnBarClose(trade, bar, signal) ==
    LET moved  == ApplyBreakeven(trade, bar, signal)
        exited == ApplyHullExit(moved.trade, signal)
        turned == ApplySignal(exited.trade, bar, signal)
    IN  Decision(turned.trade, moved.actions \o exited.actions \o turned.actions)

Distance(a, b) == IF a >= b THEN a - b ELSE b - a

EntryGap(price, reference) ==
    /\ MaxEntryGapBps # 0 /\ reference > 0
    /\ Distance(price, reference) * 10000 > MaxEntryGapBps * reference

AbortEntry(trade, reason) ==
    LET gone == CloseAll(trade, Live(trade), reason)
    IN  Decision(FlattenIfDone(gone.trade), gone.actions)

Pending(trade) == {r \in TrancheRole : trade.tranches[r].state = "PENDING_ENTRY"}

\* Mutant of WithQuantity: the quantity is recorded only when brackets are set.
WithQuantityLater(trade, quantity) == trade

WithQuantity(trade, quantity) ==
    [trade EXCEPT !.tranches = [r \in TrancheRole |->
        IF r \in Pending(trade) THEN [@[r] EXCEPT !.quantity = quantity] ELSE @[r]]]

\* Both tranches were filled at price: give up, or fix R and set the brackets.
OnEntryFilled(given, price, index, quantity, reference) ==
    LET trade  == WithQuantity(given, quantity)
        stop   == trade.pendingStop
        long   == trade.side = "BUY"
        risk   == IF long THEN price - stop ELSE stop - price
        target == IF long THEN price + RrMult * risk ELSE price - RrMult * risk
        TakeProfit(r) == IF r = "T1" THEN target ELSE 0
        Filled(r) ==
            [trade.tranches[r] EXCEPT !.state = "OPEN", !.entryPrice = price,
                !.entryBar = index, !.stopLoss = stop, !.takeProfit = TakeProfit(r)]
    IN  CASE EntryGap(price, reference)                -> AbortEntry(trade, "ENTRY_GAP")
          [] ~EntryGap(price, reference) /\ risk <= 0  -> AbortEntry(trade, "INVALID_RISK")
          [] OTHER ->
                Decision([trade EXCEPT !.tranches = [r \in TrancheRole |->
                             IF r \in Pending(trade) THEN Filled(r) ELSE @[r]]],
                         Each(Pending(trade),
                              LAMBDA r : SetBrackets(r, stop, TakeProfit(r))))

OnTrancheClosed(trade, role, reason) ==
    IF role \in Live(trade)
    THEN FlattenIfDone([trade EXCEPT !.tranches[role].state = "CLOSED",
                                     !.tranches[role].closeReason = reason])
    ELSE trade
==============================================================================
