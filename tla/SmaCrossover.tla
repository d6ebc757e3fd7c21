---------------------------- MODULE SmaCrossover ----------------------------
(***************************************************************************)
(* SMACrossoverStrategy (src/hermes/strategies/sma_crossover.py): two      *)
(* simple moving averages, one market order per crossing, long only.       *)
(*                                                                         *)
(* NautilusTrader is the environment: it fills an order some time after it *)
(* was submitted, or refuses it, and the portfolio the strategy asks shows *)
(* filled orders only.  In a backtest the fill comes before the next bar;  *)
(* live it may not.                                                        *)
(***************************************************************************)
EXTENDS Integers, Sequences, SequencesExt

CONSTANTS
    FastPeriod, SlowPeriod,
    Prices,             \* closes a bar may have
    MayRefuse,          \* orders may be denied or rejected
    MaxPending          \* bound: orders under way

ASSUME SmaAssumption ==
    /\ {FastPeriod, SlowPeriod} \subseteq Nat \ {0}
    /\ FastPeriod <= SlowPeriod
    /\ Prices \subseteq Nat
    /\ MayRefuse \in BOOLEAN
    /\ MaxPending \in Nat

VARIABLES
    closes,     \* the closes the averages still hold, the newest last
    prevAbove,  \* _prev_fast_above_slow: "unset", "above" or "below"
    lots,       \* net position, in trade_size
    pending,    \* orders under way, in order, as lots they add
    \* History.
    wasBelow,   \* some bar found the fast line not above the slow one
    late,       \* a bar came while an order was under way
    refused     \* an order was refused

vars == <<closes, prevAbove, lots, pending, wasBelow, late, refused>>

Init ==
    /\ closes = <<>> /\ prevAbove = "unset"
    /\ lots = 0 /\ pending = <<>>
    /\ wasBelow = FALSE /\ late = FALSE /\ refused = FALSE

-----------------------------------------------------------------------------
\* n times the mean of the last n closes.
Total(s, n) == FoldLeft(LAMBDA a, b : a + b, 0, SubSeq(s, Len(s) - n + 1, Len(s)))

Initialized(s) == Len(s) = SlowPeriod

\* What `fast.value > slow.value` may say.  The values are floats: two means
\* that are equal may come out a rounding apart, either way.
Readings(s) ==
    LET fast == Total(s, FastPeriod) * SlowPeriod
        slow == Total(s, SlowPeriod) * FastPeriod
    IN  {r \in {"above", "below"} :
            /\ r = "above" => fast >= slow
            /\ r = "below" => fast <= slow}

\* update_raw of both averages.
Updated(price) ==
    LET s == Append(closes, price)
    IN  IF Len(s) > SlowPeriod THEN Tail(s) ELSE s

\* Mutant of Crossed: the first relation found counts as a crossing.
CrossedAtOnce(from, to) == from # to

\* The two crossings; the first relation found only sets the latch.
Crossed(from, to) == from # "unset" /\ from # to

\* The order of one bar, as the lots it would add: a buy, a close of the
\* position the portfolio shows, or none.
Signal(now) ==
    IF ~Crossed(prevAbove, now) THEN <<>>
    ELSE IF now = "above" /\ lots = 0 THEN <<1>>
    ELSE IF now = "below" /\ lots > 0 THEN <<-lots>>
    ELSE <<>>

\* on_bar.
OnBar(price) ==
    /\ Len(pending) < MaxPending
    /\ closes' = Updated(price)
    /\ late' = (late \/ pending # <<>>)
    /\ IF Initialized(closes')
       THEN \E now \in Readings(closes') :
              /\ prevAbove' = now
              /\ pending' = pending \o Signal(now)
              /\ wasBelow' = (wasBelow \/ now = "below")
       ELSE UNCHANGED <<prevAbove, pending, wasBelow>>
    /\ UNCHANGED <<lots, refused>>

-----------------------------------------------------------------------------
\* close_all_positions sends reduce-only orders: they never sell more than
\* there is.
Fill ==
    /\ pending # <<>>
    /\ lots' = LET left == lots + Head(pending) IN IF left > 0 THEN left ELSE 0
    /\ pending' = Tail(pending)
    /\ UNCHANGED <<closes, prevAbove, wasBelow, late, refused>>

Refuse ==
    /\ MayRefuse
    /\ pending # <<>>
    /\ pending' = Tail(pending)
    /\ refused' = TRUE
    /\ UNCHANGED <<closes, prevAbove, lots, wasBelow, late>>

Next ==
    \/ \E price \in Prices : OnBar(price)
    \/ Fill
    \/ Refuse

Spec == Init /\ [][Next]_vars

-----------------------------------------------------------------------------
(* sma_crossover.py:21, "buy when the fast line crosses above the slow     *)
(* one, close when it crosses below; long only".  When every order was     *)
(* filled before the next bar, the position is one lot exactly while the   *)
(* fast line is above, after the first time it was not; on equal lines     *)
(* either answer will do.  (A bar that comes before the fill consumes the  *)
(* crossing: the position may then stay open below the slow line, or be    *)
(* bought twice.)                                                          *)
FollowsCrossings ==
    ~late /\ ~refused /\ pending = <<>> =>
        IF Initialized(closes)
        THEN \E now \in Readings(closes) :
                lots = IF wasBelow /\ now = "above" THEN 1 ELSE 0
        ELSE lots = 0

=============================================================================
