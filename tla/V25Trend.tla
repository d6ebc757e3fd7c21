------------------------------ MODULE V25Trend ------------------------------
(***************************************************************************)
(* V25TrendStrategy (src/hermes/strategies/v25_trend.py): what one bar     *)
(* does to the position, the equity tracker and the cooldown, next to what *)
(* the market orders it submits do to the account.                         *)
(*                                                                         *)
(* on_bar is one action: it runs to its end without waiting, and the       *)
(* backtest engine fills its market orders before the next bar.  The       *)
(* indicators are the environment's: a bar says what they make of it.      *)
(* Prices, sizes and amounts are integers and a division rounds down,      *)
(* where the code's floats round much further down.                        *)
(***************************************************************************)
EXTENDS Integers

CONSTANTS
    None,           \* no position
    Prices,         \* closes
    Atr,            \* the average true range
    Capital,        \* init_capital
    Lot,            \* size units per step of the size precision
    Fee,            \* the instrument's taker fee, in ten-thousandths
    Tiers,          \* position sizes in thousandths of the equity
    EntryPause,     \* 6: bars without an entry after one
    LossLimit,      \* 3: losing exits in a row that lead to a pause
    LossPause,      \* 24: bars of that pause
    MaxBars         \* bound: bars in all

\* _pos, a dict of the position's cost, sizes and flags.
Positions ==
    [avg : Nat, initial : Nat, size : Nat \ {0}, base : Nat, peak : Prices,
     adds : 0 .. 3, tp : 0 .. 3, ss : BOOLEAN, dom : BOOLEAN]

ASSUME V25Assumption ==
    /\ Prices \subseteq Nat \ {0}
    /\ {Atr, Capital, Lot, EntryPause, LossLimit, LossPause} \subseteq Nat \ {0}
    /\ Tiers \subseteq Nat \ {0}
    /\ Fee \in Nat /\ MaxBars \in Nat
    /\ None \notin Positions

VARIABLES
    eq,         \* _eq
    rl,         \* _rl
    cd,         \* _cd
    pos,        \* _pos
    last,       \* _prev_close
    \* The account.
    lots,       \* net quantity, in lots
    cash,       \* Capital less what was paid, plus what was received
    fees,       \* commissions, which the cash has paid
    \* History, read by no action of the program.
    trades,     \* sizes rounded to lots; one rounded to none has no order
    phantom,    \* credited by trailing stops for positions they kept
    losing,     \* losing exits in a row
    quiet,      \* bars since the last exit, up to LossPause
    entered,    \* the latest bar opened a position
    bars        \* bars so far

account == <<lots, cash, fees>>
history == <<trades, phantom, losing, quiet, entered, bars>>
vars    == <<eq, rl, cd, pos, last, account, history>>

Init ==
    /\ eq = Capital /\ rl = 0 /\ cd = 0 /\ pos = None
    /\ last \in Prices
    /\ lots = 0 /\ cash = Capital /\ fees = 0
    /\ trades = 0 /\ phantom = 0 /\ losing = 0 /\ quiet = LossPause
    /\ entered = FALSE /\ bars = 0

-----------------------------------------------------------------------------
\* What the indicators make of a bar: its close is above high_20 x 0.995; the
\* trend is strong (ADX over 40, four rising closes); the entry conditions
\* hold and choose a size, 0 for no entry.
Bars == [close : Prices, breakout : BOOLEAN, strong : BOOLEAN, tier : Tiers \cup {0}]

\* Bars that can follow the last close: high_20 is no lower than it, a strong
\* trend has just risen, and an entry asks for a volatility of 2% to 8%.
Follows(bar) ==
    /\ bar.breakout => 1000 * bar.close > 995 * last
    /\ bar.strong => bar.close > last
    /\ bar.tier # 0 => 2 * bar.close <= 100 * Atr /\ 100 * Atr <= 8 * bar.close

\* What the steps of a bar work on.
Book == [eq |-> eq, rl |-> rl, pos |-> pos, lots |-> lots, cash |-> cash,
         fees |-> fees, trades |-> trades, phantom |-> phantom]

\* _qty: rounded to the nearest lot, and no order for none.
Lots(size) == (size + Lot \div 2) \div Lot

Distance(a, b) == IF a < b THEN b - a ELSE a - b

\* What the engine charges for n lots (instruments.py: taker_fee).  The
\* equity tracker knows nothing of it.
Commission(n, p) == (Distance(n, 0) * Lot * p * Fee) \div 10000

\* A market order for n lots, negative to sell, is filled at the close.  For
\* no lots there is no order, and the account stays what it was.
Filled(b, n, p) ==
    [b EXCEPT !.lots = @ + n,
              !.cash = @ - n * Lot * p - Commission(n, p),
              !.fees = @ + Commission(n, p),
              !.trades = @ + 1]

\* Mutant of Closes: the order is for the size the position began with.
ClosesInitial(b, p) ==
    [Filled(b, -Lots(b.pos.initial), p) EXCEPT
        !.eq = @ + b.pos.size * p, !.pos = None]

\* Reduce, add to, and close the position (close_all_positions).
Sells(b, size, p) ==
    [Filled(b, -Lots(size), p) EXCEPT !.eq = @ + size * p, !.pos.size = @ - size]

Buys(b, cost, p) ==
    LET size == cost \div p
        held == b.pos.size
    IN  [Filled(b, Lots(size), p) EXCEPT
            !.eq = @ - cost,
            !.pos.avg = (held * b.pos.avg + cost) \div (held + size),
            !.pos.size = @ + size]

Closes(b, p) ==
    [Filled(b, -b.lots, p) EXCEPT
        !.eq = @ + b.pos.size * p, !.pos = None]

-----------------------------------------------------------------------------
\* pnl against a percentage, up and down.
Gains(po, p, pct) == 100 * (p - po.avg) >= pct * po.avg
Loses(po, p, pct) == 100 * (p - po.avg) <= -(pct * po.avg)

HardStop(po, p) == Loses(po, p, 18) \/ (Loses(po, p, 12) /\ po.adds > 0)

\* Mutant of SoftStop: the half that was sold is not credited.
SoftStopUncredited(b, p) ==
    IF Loses(b.pos, p, 6) /\ ~b.pos.ss
    THEN [Sells(b, b.pos.size \div 2, p) EXCEPT !.pos.ss = TRUE, !.eq = b.eq]
    ELSE b

SoftStop(b, p) ==
    IF Loses(b.pos, p, 6) /\ ~b.pos.ss
    THEN [Sells(b, b.pos.size \div 2, p) EXCEPT !.pos.ss = TRUE]
    ELSE b

\* The three profit steps: the gain that takes one, the share of the initial
\* size it sells, in percent.
Steps == <<[gain |-> 8,  share |-> 10],
           [gain |-> 15, share |-> 10],
           [gain |-> 30, share |-> 15]>>

\* Mutant of TakesProfit: a step may be taken again.
TakesProfitAgain(b, n, p) ==
    LET part == (b.pos.initial * Steps[n].share) \div 100
    IN  IF Gains(b.pos, p, Steps[n].gain)
        THEN [Sells(b, part, p) EXCEPT !.pos.tp = n]
        ELSE b

\* A step that would sell the whole position is taken without a sale.
TakesProfit(b, n, p) ==
    LET part == (b.pos.initial * Steps[n].share) \div 100
        sold == IF part < b.pos.size THEN Sells(b, part, p) ELSE b
    IN  IF Gains(b.pos, p, Steps[n].gain) /\ b.pos.tp = n - 1
        THEN [sold EXCEPT !.pos.tp = n]
        ELSE b

\* Six ranges below the peak, or more than 55% of a gain over 10% given back.
Trails(po, p) ==
    /\ po.tp > 0
    /\ \/ p < po.peak - 6 * Atr
       \/ /\ 100 * (po.peak - po.avg) > 10 * po.avg
          /\ 100 * (po.peak - p) > 55 * (po.peak - po.avg)

\* The pyramid's cost by the adds so far.  The second and third level ask for
\* a close above the peak, which already includes this close.
PyramidCost(po, p) ==
    CASE po.adds = 0 -> po.base
      [] po.adds = 1 /\ p > po.peak -> (po.base * 12) \div 10
      [] po.adds = 2 /\ p > po.peak -> (po.base * 15) \div 10
      [] OTHER -> 0

Pyramids(b, bar) ==
    LET cost == PyramidCost(b.pos, bar.close)
    IN  IF bar.breakout /\ cost > 0 /\ b.eq >= cost
        THEN [Buys(b, cost, bar.close) EXCEPT !.pos.adds = @ + 1]
        ELSE b

Dominates(b, bar) ==
    LET cost == 2 * b.pos.base
    IN  IF ~b.pos.dom /\ bar.strong /\ b.eq >= cost
        THEN [Buys(b, cost, bar.close) EXCEPT !.pos.dom = TRUE]
        ELSE b

Adds(b, bar) == Dominates(Pyramids(b, bar), bar)

\* _manage_position.  A trailing stop hit at a loss credits the equity as if
\* the position were closed, and keeps it.
Managed(b, bar) ==
    LET p    == bar.close
        top  == [b EXCEPT !.pos.peak = IF @ < p THEN p ELSE @]
        step == TakesProfit(TakesProfit(TakesProfit(SoftStop(top, p), 1, p), 2, p), 3, p)
    IN  IF HardStop(top.pos, p)
        THEN [Closes(top, p) EXCEPT !.rl = @ + 1]
        ELSE IF ~Trails(step.pos, p)
        THEN Adds(step, bar)
        ELSE IF p > step.pos.avg
        THEN [Closes(step, p) EXCEPT !.rl = 0]
        ELSE Adds([step EXCEPT !.eq = @ + step.pos.size * p,
                               !.phantom = @ + step.pos.size * p], bar)

-----------------------------------------------------------------------------
\* The position an entry opens.
Opens(b, bar) ==
    LET p    == bar.close
        base == (b.eq * bar.tier) \div 1000
        size == base \div p
        po   == [avg |-> p, initial |-> size, size |-> size, base |-> base,
                 peak |-> p, adds |-> 0, tp |-> 0, ss |-> FALSE, dom |-> FALSE]
    IN  [Filled(b, Lots(size), p) EXCEPT !.pos = po, !.eq = @ - base]

\* Mutant of Pauses: one losing exit more.
PausesLate(b, wait) == b.pos = None /\ wait = 0 /\ b.rl > LossLimit

\* The two outcomes of _try_entry that change anything; it is reached without
\* a position and with the cooldown over.
Pauses(b, wait) == b.pos = None /\ wait = 0 /\ b.rl >= LossLimit

Enters(b, wait, bar) ==
    /\ b.pos = None /\ wait = 0 /\ ~Pauses(b, wait)
    /\ bar.tier # 0
    /\ Lots(((b.eq * bar.tier) \div 1000) \div bar.close) > 0

\* on_bar, once the indicators are ready.
OnBar(bar) ==
    LET wait   == IF cd > 0 THEN cd - 1 ELSE 0
        b      == IF pos = None THEN Book ELSE Managed(Book, bar)
        pauses == Pauses(b, wait)
        enters == Enters(b, wait, bar)
        end    == IF enters THEN Opens(b, bar) ELSE b
        exits  == pos # None /\ b.pos = None
    IN  /\ bars < MaxBars
        /\ Follows(bar)
        /\ eq' = end.eq /\ pos' = end.pos
        /\ rl' = IF pauses THEN 0 ELSE end.rl
        /\ cd' = IF pauses THEN LossPause ELSE IF enters THEN EntryPause ELSE wait
        /\ last' = bar.close
        /\ lots' = end.lots /\ cash' = end.cash /\ fees' = end.fees
        /\ trades' = end.trades /\ phantom' = end.phantom
        /\ losing' = IF ~exits THEN losing
                     ELSE IF bar.close <= pos.avg THEN losing + 1 ELSE 0
        /\ quiet' = IF exits THEN 0 ELSE IF quiet < LossPause THEN quiet + 1 ELSE quiet
        /\ entered' = enters
        /\ bars' = bars + 1

Next == \E bar \in Bars : OnBar(bar)

Spec == Init /\ [][Next]_vars

-----------------------------------------------------------------------------
(* Types.  An open position has a size: no sequence of stops and profit    *)
(* steps sells all of it, or more.                                         *)
TypeOK ==
    /\ eq \in Int /\ cash \in Int
    /\ rl \in 0 .. LossLimit
    /\ cd \in 0 .. EntryPause + LossPause
    /\ pos \in Positions \cup {None}
    /\ last \in Prices
    /\ lots \in Int /\ fees \in Nat /\ trades \in Nat /\ phantom \in Nat
    /\ entered \in BOOLEAN
    /\ losing \in Nat /\ quiet \in 0 .. LossPause /\ bars \in 0 .. MaxBars

Max(S) == CHOOSE x \in S : \A y \in S : y <= x

(* The position the strategy works with is the one the account has: flat   *)
(* together, apart by no more than half a lot for each trade of the        *)
(* position, and never short if the position began with 24 lots or more    *)
(* (the rounding of its sells can take a smaller one below zero).          *)
Large(po) == po.initial >= 24 * Lot
TradesOf(po) == 1 + po.adds + po.tp + (IF po.ss THEN 1 ELSE 0) + (IF po.dom THEN 1 ELSE 0)
AccountFollows ==
    /\ pos = None => lots = 0
    /\ pos # None =>
        /\ Large(pos) => lots >= 0
        /\ 2 * Distance(lots * Lot, pos.size) <= TradesOf(pos) * Lot

(* "equity tracker": whatever stops, profit steps and adds there were, the *)
(* equity is the cash of the account, up to the rounding of the trades and *)
(* two things the account does not agree with: the commissions it has paid *)
(* and what trailing stops credited for positions they kept, each time     *)
(* they met one at a loss.                                                 *)
EquityIsCash ==
    Distance(eq, cash + fees + phantom) <= trades * (Lot \div 2 + 1) * Max(Prices)

(* "Consecutive-loss cooldown": after every LossLimit losing exits in a    *)
(* row no position is opened until LossPause bars have gone by.            *)
PauseEnforced ==
    entered /\ losing > 0 /\ losing % LossLimit = 0 => quiet >= LossPause

(* v25_trend.py:41, "Pyramid add  : high_20x0.995 breakout, 3 levels": a   *)
(* breakout whose close is a new high adds the second level.  (A position  *)
(* that stays in place gains at most one level on a bar.)                  *)
PyramidLevels ==
    [][ \A bar \in Bars :
          /\ OnBar(bar) /\ bar.breakout
          /\ pos # None /\ pos.adds = 1 /\ bar.close > pos.peak
          /\ eq >= 2 * pos.base
          /\ pos' # None /\ ~entered'
          => pos'.adds = 2 ]_vars

=============================================================================
