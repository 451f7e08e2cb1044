---------------------------- MODULE StrategyCalls ----------------------------
(***************************************************************************)
(* The strategy's two pure functions as their callers use them: size_entry *)
(* asked for one entry and two stop distances, and compute_signals asked   *)
(* for a series of bars.  An initial state is a call, and the one step     *)
(* answers it, so that what is true of every answer is an invariant.       *)
(***************************************************************************)
EXTENDS Sizing, UtSignals

CONSTANTS
    Sizings,      \* calls of size_entry
    Signalings    \* calls of compute_signals

ASSUME StrategyAssumption ==
    /\ Sizings \subseteq [fn : {"size_entry"}, cfg : Configs, spec : Specs,
                          equity : Int, distance : Int, wider : Int]
    /\ \A c \in Sizings : Valid(c.cfg)
    /\ Signalings \subseteq [fn : {"compute_signals"}, cfg : Settings,
                             bars : Seq([close : Int, high : Int, low : Int])]
    /\ NA \notin Int

VARIABLES call, answer

Nothing == [fn |-> "none"]

Init == call \in Sizings \cup Signalings /\ answer = Nothing

SizeBoth ==
    /\ call.fn = "size_entry"
    /\ answer = Nothing
    /\ answer' = [fn   |-> "size_entry",
                  out  |-> SizeEntry(call.cfg, call.spec, call.distance, call.equity),
                  wide |-> SizeEntry(call.cfg, call.spec, call.wider, call.equity)]
    /\ UNCHANGED call

Signal ==
    /\ call.fn = "compute_signals"
    /\ answer = Nothing
    /\ answer' = [fn |-> "compute_signals", out |-> ComputeSignals(call.bars, call.cfg)]
    /\ UNCHANGED call

Next == SizeBoth \/ Signal
Spec == Init /\ [][Next]_<<call, answer>>

Sized    == answer.fn = "size_entry"
Signaled == answer.fn = "compute_signals"
------------------------------------------------------------------------------
(* Sizing.                                                                   *)
\* size_entry: without the user's confirmation a RISK_PERCENT entry never risks
\* more than its share of the equity, whatever the broker's steps and limits.
WithinBudget ==
    Sized /\ call.cfg.mode = "RISK_PERCENT" /\ ~answer.out.confirm =>
        answer.out.lots * RiskPerLot(call.cfg, call.spec, call.distance)
            <= Budget(call.cfg, call.equity)

\* _finalise: the broker will take the volume, a whole number of its steps and
\* no less than its minimum, otherwise there is no entry; and as long as that
\* minimum fits under max_lots, no entry in either mode is larger than max_lots.
Tradable ==
    Sized /\ answer.out.lots # 0 =>
        /\ answer.out.lots % call.spec.step = 0
        /\ answer.out.lots >= call.spec.min
        /\ call.spec.min <= call.cfg.max => answer.out.lots <= call.cfg.max

\* A wider stop never gets more lots than a narrower one, as long as the floor
\* fits under both caps.
Monotone ==
    /\ Sized
    /\ FloorLots(call.cfg, call.spec) <= Least(call.cfg.max, call.spec.max)
    /\ 0 < call.distance /\ call.distance <= call.wider
    => answer.wide.lots <= answer.out.lots
------------------------------------------------------------------------------
(* Signals.                                                                  *)
\* The bars i to j all have a positive loss distance.
Moving(i, j) ==
    LET loss == Loss(call.bars, call.cfg)
    IN  \A k \in i..j : loss[k] # NA /\ loss[k] > 0

\* compute_signals never repaints: what it says of a bar is what it said when
\* that bar was the last one, so the backtest, which computes all signals before
\* it replays the bars, acts on nothing the live strategy could not know.
NoRepaint ==
    Signaled =>
        \A n \in DOMAIN call.bars :
            ComputeSignals(SubSeq(call.bars, 1, n), call.cfg) = SubSeq(answer.out, 1, n)

\* Buys and sells alternate: the stop changes sides only at a crossing.  Bars
\* without any range are the exception, where the stop and the close coincide.
SidesAlternate ==
    Signaled =>
        \A i, j \in DOMAIN call.bars :
            /\ i < j /\ answer.out[i].buy /\ answer.out[j].buy /\ Moving(i, j)
                   => \E k \in i..j : answer.out[k].sell
            /\ i < j /\ answer.out[i].sell /\ answer.out[j].sell /\ Moving(i, j)
                   => \E k \in i..j : answer.out[k].buy

\* _trailing_stop: from a buy to the sell that ends it the stop never falls, and
\* from a sell to the next buy it never rises, except that a close exactly on the
\* stop ends a ride from below (a sell) and loosens one from above.
RideRatchets ==
    Signaled =>
        \A i, j \in DOMAIN call.bars :
            /\ i < j /\ answer.out[i].buy /\ Moving(i, j)
               /\ (\A k \in i..j : ~answer.out[k].sell)
                   => answer.out[j].stop >= answer.out[i].stop
            /\ i < j /\ answer.out[i].sell /\ Moving(i, j)
               /\ (\A k \in i + 1 .. j :
                       ~answer.out[k].buy /\ call.bars[k].close # answer.out[k - 1].stop)
                   => answer.out[j].stop <= answer.out[i].stop

\* The stop is never further from the close than ut_key times the largest true
\* range so far, however the smoothed range was seeded.
StopIsNear ==
    Signaled =>
        \A i \in DOMAIN call.bars :
            answer.out[i].stop # NA =>
                Abs(call.bars[i].close - answer.out[i].stop)
                    <= call.cfg.key * Max({TrueRange(call.bars)[j] : j \in 1..i})
==============================================================================
