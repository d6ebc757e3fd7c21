--------------------------- MODULE V25TrendProofs ---------------------------
(***************************************************************************)
(* Proofs about V25Trend, for all prices, sizes and pauses and any number  *)
(* of bars.                                                                *)
(***************************************************************************)
EXTENDS V25Trend, TLAPS

-----------------------------------------------------------------------------
(* What the steps of a bar keep.                                           *)
Books ==
    [eq : Int, rl : Nat, pos : Positions \cup {None}, lots : Int, cash : Int,
     fees : Nat, trades : Nat, phantom : Nat]

\* The cash with the commissions back, and with what the equity was credited
\* for positions that were kept.
Gross(b) == b.cash + b.fees + b.phantom

Open(b) == b \in Books /\ b.pos \in Positions

\* A step that leaves the counter, and the position open, at the same cost
\* and with the same adds.
Holds(b, c) ==
    /\ Open(c) /\ c.rl = b.rl /\ c.pos.avg = b.pos.avg
    /\ c.pos.adds = b.pos.adds /\ c.pos.peak = b.pos.peak

LEMMA LotsNat == ASSUME NEW size \in Nat PROVE Lots(size) \in Nat
BY V25Assumption DEF Lots

LEMMA PricesPositive == \A p \in Prices : p \in Nat /\ p > 0
BY V25Assumption

LEMMA CommissionNat ==
    ASSUME NEW n \in Int, NEW p \in Prices PROVE Commission(n, p) \in Nat
<1> DEFINE d == Distance(n, 0)
           x == d * Lot * p * Fee
<1>1. d \in Nat /\ Lot \in Nat /\ p \in Nat /\ Fee \in Nat
    BY PricesPositive, V25Assumption DEF Distance
<1> HIDE DEF d
<1>2. x \in Nat
    BY <1>1
<1>3. Commission(n, p) = x \div 10000
    BY DEF Commission, d
<1> HIDE DEF x
<1>4. QED
    BY <1>2, <1>3

LEMMA FilledBook ==
    ASSUME NEW b \in Books, NEW n \in Int, NEW p \in Prices
    PROVE  /\ Filled(b, n, p) \in Books
           /\ Filled(b, n, p).pos = b.pos /\ Filled(b, n, p).rl = b.rl
           /\ Filled(b, n, p).eq = b.eq
           /\ Filled(b, n, p).lots = b.lots + n
           /\ Gross(Filled(b, n, p)) = Gross(b) - n * Lot * p
           /\ Filled(b, n, p).trades = b.trades + 1
<1>1. n * Lot * p \in Int
    BY V25Assumption, PricesPositive
<1> DEFINE cost == n * Lot * p
           fee == Commission(n, p)
<1>2. Filled(b, n, p) =
        [b EXCEPT !.lots = b.lots + n, !.cash = b.cash - cost - fee,
                  !.fees = b.fees + fee, !.trades = b.trades + 1]
    BY DEF Filled
<1>3. cost \in Int /\ fee \in Nat
    BY <1>1, CommissionNat
<1> HIDE DEF cost, fee
<1>4. Filled(b, n, p) =
        [eq |-> b.eq, rl |-> b.rl, pos |-> b.pos, lots |-> b.lots + n,
         cash |-> b.cash - cost - fee, fees |-> b.fees + fee,
         trades |-> b.trades + 1, phantom |-> b.phantom]
    BY <1>2 DEF Books
<1>5. /\ b.eq \in Int /\ b.rl \in Nat /\ b.pos \in Positions \cup {None}
      /\ b.lots + n \in Int /\ b.cash - cost - fee \in Int /\ b.trades + 1 \in Nat
      /\ b.fees + fee \in Nat /\ b.phantom \in Nat
      /\ b.cash \in Int /\ b.fees \in Nat
    BY <1>3 DEF Books
<1>6. Filled(b, n, p) \in Books
    BY <1>4, <1>5 DEF Books
<1>7. Gross(Filled(b, n, p)) = Gross(b) - cost
    BY <1>3, <1>4, <1>5 DEF Gross
<1>8. QED
    BY <1>4, <1>6, <1>7 DEF cost

\* A position has one level of the pyramid at most.
OneLevel(b) == b.pos # None => b.pos.adds <= 1

\* Equity and position replaced.
With(b, e, po) ==
    [eq |-> e, rl |-> b.rl, pos |-> po, lots |-> b.lots, cash |-> b.cash,
     fees |-> b.fees, trades |-> b.trades, phantom |-> b.phantom]

LEMMA WithBook ==
    ASSUME NEW b \in Books, NEW e \in Int, NEW po \in Positions \cup {None}
    PROVE  /\ With(b, e, po) \in Books
           /\ With(b, e, po).eq = e /\ With(b, e, po).pos = po
           /\ With(b, e, po).rl = b.rl /\ Gross(With(b, e, po)) = Gross(b)
<1>1. /\ b.rl \in Nat /\ b.lots \in Int /\ b.cash \in Int /\ b.trades \in Nat
      /\ b.fees \in Nat /\ b.phantom \in Nat
    BY DEF Books
<1>2. QED
    BY <1>1 DEF With, Books, Gross

LEMMA GrossInt == \A b \in Books : Gross(b) \in Int
BY DEF Books, Gross

\* An order for n lots at p that brings the equity money and the position
\* size units, and leaves what else the position remembers.
Trade(b, c, n, p, money, size) ==
    /\ c.lots = b.lots + n /\ Gross(c) = Gross(b) - n * Lot * p
    /\ c.trades = b.trades + 1
    /\ c.eq = b.eq + money /\ c.pos.size = b.pos.size + size

SameSteps(po, qo) ==
    /\ qo.initial = po.initial /\ qo.adds = po.adds
    /\ qo.tp = po.tp /\ qo.ss = po.ss /\ qo.dom = po.dom

LEMMA SellsHolds ==
    ASSUME NEW b, Open(b), NEW p \in Prices, NEW size \in Nat, size < b.pos.size
    PROVE  /\ Holds(b, Sells(b, size, p))
           /\ Trade(b, Sells(b, size, p), -Lots(size), p, size * p, -size)
           /\ SameSteps(b.pos, Sells(b, size, p).pos)
<1> DEFINE f == Filled(b, -Lots(size), p)
           gain == size * p
           po == [b.pos EXCEPT !.size = b.pos.size - size]
<1>1. f \in Books /\ f.pos = b.pos /\ f.rl = b.rl /\ f.eq = b.eq
    BY LotsNat, FilledBook DEF Open
<1>2. gain \in Int
    BY PricesPositive
<1>3. Sells(b, size, p) = [f EXCEPT !.eq = f.eq + gain, !.pos.size = f.pos.size - size]
    BY DEF Sells
<1> HIDE DEF f, gain
<1>4. b.pos.size - size \in Nat \ {0}
    BY DEF Open, Positions
<1>5. /\ po \in Positions /\ po.avg = b.pos.avg
      /\ po.adds = b.pos.adds /\ po.peak = b.pos.peak
    BY <1>4 DEF Open, Positions
<1>6. Sells(b, size, p) = With(f, f.eq + gain, po)
    BY <1>1, <1>3 DEF Books, With
<1>7. f.eq + gain \in Int
    BY <1>1, <1>2 DEF Books
<1>8. SameSteps(b.pos, po) /\ po.size = b.pos.size - size
    BY DEF SameSteps, Open, Positions
<1>9. Trade(b, Sells(b, size, p), -Lots(size), p, size * p, -size)
  <2>1. /\ f.lots = b.lots + -Lots(size)
        /\ Gross(f) = Gross(b) - (-Lots(size)) * Lot * p /\ f.trades = b.trades + 1
    BY LotsNat, FilledBook DEF Open, f
  <2> HIDE DEF po
  <2>2. QED
    BY <1>1, <1>6, <1>8, <2>1 DEF With, Gross, Trade, gain, Open, Positions
<1> HIDE DEF po
<1>10. Holds(b, Sells(b, size, p))
    BY <1>1, <1>5, <1>6, <1>7, WithBook DEF Holds, Open
<1>11. SameSteps(b.pos, Sells(b, size, p).pos)
    BY <1>6, <1>8 DEF With
<1>12. QED
    BY <1>9, <1>10, <1>11

LEMMA SoftStopHolds ==
    ASSUME NEW b, Open(b), NEW p \in Prices
    PROVE  Holds(b, SoftStop(b, p))
<1> DEFINE c == Sells(b, b.pos.size \div 2, p)
           po == [c.pos EXCEPT !.ss = TRUE]
<1>1. b.pos.size \div 2 \in Nat /\ b.pos.size \div 2 < b.pos.size
    BY DEF Open, Positions
<1>2. Holds(b, c)
    BY <1>1, SellsHolds
<1>3. SoftStop(b, p) = b \/ SoftStop(b, p) = [c EXCEPT !.pos.ss = TRUE]
    BY DEF SoftStop
<1> HIDE DEF c
<1>4. [c EXCEPT !.pos.ss = TRUE] = With(c, c.eq, po)
  <2>1. c \in Books
    BY <1>2 DEF Holds, Open
  <2>2. [c EXCEPT !.pos.ss = TRUE] = [c EXCEPT !.pos = po]
    BY Zenon
  <2> HIDE DEF po
  <2>3. [c EXCEPT !.pos = po] = With(c, c.eq, po)
    BY <2>1 DEF Books, With
  <2>4. QED
    BY <2>2, <2>3
<1>5. /\ po \in Positions /\ po.avg = c.pos.avg
      /\ po.adds = c.pos.adds /\ po.peak = c.pos.peak
    BY <1>2 DEF Holds, Open, Positions
<1> HIDE DEF po
<1>6. Holds(b, With(c, c.eq, po))
    BY <1>2, <1>5, WithBook DEF Holds, Open, Books
<1>7. QED
    BY <1>3, <1>4, <1>6 DEF Holds

LEMMA TakesProfitHolds ==
    ASSUME NEW b, Open(b), NEW p \in Prices, NEW n \in 1 .. 3
    PROVE  Holds(b, TakesProfit(b, n, p))
<1> DEFINE part == (b.pos.initial * Steps[n].share) \div 100
           sold == IF part < b.pos.size THEN Sells(b, part, p) ELSE b
           po == [sold.pos EXCEPT !.tp = n]
<1>1. part \in Nat
  <2>1. Steps[n].share \in Nat
    BY DEF Steps
  <2>2. b.pos.initial \in Nat
    BY DEF Open, Positions
  <2>3. QED
    BY <2>1, <2>2
<1>2. TakesProfit(b, n, p) = b \/ TakesProfit(b, n, p) = [sold EXCEPT !.pos.tp = n]
    BY DEF TakesProfit
<1> HIDE DEF part
<1>3. Holds(b, sold)
    BY <1>1, SellsHolds DEF Holds
<1> HIDE DEF sold
<1>4. [sold EXCEPT !.pos.tp = n] = With(sold, sold.eq, po)
    BY <1>3 DEF Holds, Open, Books, With
<1>5. /\ po \in Positions /\ po.avg = sold.pos.avg
      /\ po.adds = sold.pos.adds /\ po.peak = sold.pos.peak
    BY <1>3 DEF Holds, Open, Positions
<1> HIDE DEF po
<1>6. Holds(b, With(sold, sold.eq, po))
    BY <1>3, <1>5, WithBook DEF Holds, Open, Books
<1>7. QED
    BY <1>2, <1>4, <1>6 DEF Holds

\* An add keeps the position open and the counter; its cost changes.
LEMMA BuysOpen ==
    ASSUME NEW b, Open(b), NEW p \in Prices, NEW cost \in Nat
    PROVE  /\ Open(Buys(b, cost, p)) /\ Buys(b, cost, p).rl = b.rl
           /\ LET size == cost \div p
              IN  /\ Trade(b, Buys(b, cost, p), Lots(size), p, -cost, size)
                  /\ SameSteps(b.pos, Buys(b, cost, p).pos)
<1> DEFINE size == cost \div p
           f == Filled(b, Lots(size), p)
           avg == (b.pos.size * b.pos.avg + cost) \div (b.pos.size + size)
           po == [b.pos EXCEPT !.avg = avg, !.size = b.pos.size + size]
<1>1. size \in Nat
    BY PricesPositive
<1>2. f \in Books /\ f.pos = b.pos /\ f.rl = b.rl /\ f.eq = b.eq
    BY <1>1, LotsNat, FilledBook DEF Open
<1>3. Buys(b, cost, p) =
        [f EXCEPT !.eq = f.eq - cost, !.pos.avg = avg, !.pos.size = f.pos.size + size]
    BY DEF Buys
<1> HIDE DEF f, size
<1>4. avg \in Nat /\ b.pos.size + size \in Nat \ {0}
  <2>1. b.pos.size \in Nat \ {0} /\ b.pos.avg \in Nat
    BY DEF Open, Positions
  <2>2. b.pos.size * b.pos.avg \in Nat
    BY <2>1
  <2> DEFINE num == b.pos.size * b.pos.avg + cost
             den == b.pos.size + size
  <2>3. num \in Nat /\ den \in Nat \ {0}
    BY <1>1, <2>1, <2>2
  <2>4. avg = num \div den
    OBVIOUS
  <2> HIDE DEF num, den, avg
  <2>5. avg \in Nat
    BY <2>3, <2>4
  <2>6. QED
    BY <2>3, <2>5 DEF den
<1> HIDE DEF avg
<1>5. po \in Positions /\ SameSteps(b.pos, po) /\ po.size = b.pos.size + size
    BY <1>4 DEF Open, Positions, SameSteps
<1>6. Buys(b, cost, p) = With(f, f.eq - cost, po)
    BY <1>2, <1>3 DEF Books, Open, Positions, With
<1>7. f.eq - cost \in Int
    BY <1>2 DEF Books
<1> HIDE DEF po
<1>8. Trade(b, Buys(b, cost, p), Lots(size), p, -cost, size)
  <2>1. /\ f.lots = b.lots + Lots(size)
        /\ Gross(f) = Gross(b) - Lots(size) * Lot * p /\ f.trades = b.trades + 1
    BY <1>1, LotsNat, FilledBook DEF Open, f
  <2>2. QED
    BY <1>2, <1>5, <1>6, <2>1 DEF With, Gross, Trade, Open, Books
<1>9. SameSteps(b.pos, Buys(b, cost, p).pos)
    BY <1>5, <1>6 DEF With
<1>10. Open(Buys(b, cost, p)) /\ Buys(b, cost, p).rl = b.rl
    BY <1>2, <1>5, <1>6, <1>7, WithBook DEF Open
<1>11. QED
    BY <1>8, <1>9, <1>10 DEF size

LEMMA PyramidCostType ==
    ASSUME NEW b, Open(b), NEW p \in Prices
    PROVE  /\ PyramidCost(b.pos, p) \in Nat
           /\ PyramidCost(b.pos, p) > 0 => b.pos.adds \in 0 .. 2
           /\ PyramidCost(b.pos, p) > 0 /\ p <= b.pos.peak => b.pos.adds = 0
<1> DEFINE cost == PyramidCost(b.pos, p)
           adds == b.pos.adds
           base == b.pos.base
<1>1. adds \in 0 .. 3 /\ base \in Nat
    BY DEF Open, Positions
<1>2. cost = CASE adds = 0 -> base
                 [] adds = 1 /\ p > b.pos.peak -> (base * 12) \div 10
                 [] adds = 2 /\ p > b.pos.peak -> (base * 15) \div 10
                 [] OTHER -> 0
    BY DEF PyramidCost
<1> HIDE DEF adds, base, cost
<1>3. cost \in {0, base, (base * 12) \div 10, (base * 15) \div 10}
    BY <1>2
<1>4. cost # 0 => adds \in {0, 1, 2}
    BY <1>2
<1>5. (base * 12) \div 10 \in Nat /\ (base * 15) \div 10 \in Nat
    BY <1>1
<1>6. ASSUME cost > 0, p <= b.pos.peak PROVE adds = 0
  <2>1. ~(p > b.pos.peak)
    BY <1>6, PricesPositive DEF Open, Positions
  <2>2. cost # 0
    BY <1>6
  <2>3. QED
    BY <1>2, <2>1, <2>2
<1>7. QED
    BY <1>1, <1>3, <1>4, <1>5, <1>6 DEF adds, cost

LEMMA PyramidsOpen ==
    ASSUME NEW b, Open(b), NEW bar \in Bars
    PROVE  /\ Open(Pyramids(b, bar)) /\ Pyramids(b, bar).rl = b.rl
           /\ bar.close <= b.pos.peak /\ OneLevel(b) => OneLevel(Pyramids(b, bar))
<1> DEFINE p == bar.close
           cost == PyramidCost(b.pos, p)
           c == Buys(b, cost, p)
           po == [c.pos EXCEPT !.adds = c.pos.adds + 1]
<1>1. p \in Prices
    BY DEF Bars
<1>2. /\ cost \in Nat /\ (cost > 0 => b.pos.adds \in 0 .. 2)
      /\ cost > 0 /\ p <= b.pos.peak => b.pos.adds = 0
    BY <1>1, PyramidCostType
<1>3. Pyramids(b, bar) = b \/ (cost > 0 /\ Pyramids(b, bar) = [c EXCEPT !.pos.adds = c.pos.adds + 1])
    BY DEF Pyramids
<1> HIDE DEF p, cost
<1>4. Open(c) /\ c.rl = b.rl /\ c.pos.adds = b.pos.adds
    BY <1>1, <1>2, BuysOpen DEF SameSteps
<1> HIDE DEF c
<1>5. CASE cost > 0
  <2>1. po \in Positions
    <3>1. c.pos.adds + 1 \in 0 .. 3
      BY <1>2, <1>4, <1>5
    <3>2. QED
      BY <1>4, <3>1 DEF Open, Positions
  <2>2. [c EXCEPT !.pos.adds = c.pos.adds + 1] = With(c, c.eq, po)
    BY <1>4 DEF Open, Books, With
  <2> HIDE DEF po
  <2>3. /\ Open(With(c, c.eq, po)) /\ With(c, c.eq, po).rl = b.rl
        /\ With(c, c.eq, po).pos = po
    BY <1>4, <2>1, WithBook DEF Open, Books
  <2>4. p <= b.pos.peak => po.adds = 1
    <3>1. po.adds = c.pos.adds + 1
      BY <1>4 DEF Open, Positions, po
    <3>2. QED
      BY <1>2, <1>4, <1>5, <3>1
  <2>5. QED
    BY <1>3, <2>2, <2>3, <2>4 DEF OneLevel, p
<1>6. QED
    BY <1>3, <1>5

LEMMA DominatesOpen ==
    ASSUME NEW b, Open(b), NEW bar \in Bars
    PROVE  /\ Open(Dominates(b, bar)) /\ Dominates(b, bar).rl = b.rl
           /\ Dominates(b, bar).pos.adds = b.pos.adds
<1> DEFINE cost == 2 * b.pos.base
           c == Buys(b, cost, bar.close)
           po == [c.pos EXCEPT !.dom = TRUE]
<1>1. bar.close \in Prices /\ cost \in Nat
    BY DEF Bars, Open, Positions
<1>2. Dominates(b, bar) = b \/ Dominates(b, bar) = [c EXCEPT !.pos.dom = TRUE]
    BY DEF Dominates
<1> HIDE DEF cost
<1>3. Open(c) /\ c.rl = b.rl /\ c.pos.adds = b.pos.adds
    BY <1>1, BuysOpen DEF SameSteps
<1> HIDE DEF c
<1>4. po \in Positions /\ po.adds = b.pos.adds
    BY <1>3 DEF Open, Positions
<1>5. [c EXCEPT !.pos.dom = TRUE] = With(c, c.eq, po)
  <2>1. c \in Books
    BY <1>3 DEF Open
  <2>2. [c EXCEPT !.pos.dom = TRUE] = [c EXCEPT !.pos = po]
    BY Zenon
  <2> HIDE DEF po
  <2>3. [c EXCEPT !.pos = po] = With(c, c.eq, po)
    BY <2>1 DEF Books, With
  <2>4. QED
    BY <2>2, <2>3
<1> HIDE DEF po
<1>6. /\ Open(With(c, c.eq, po)) /\ With(c, c.eq, po).rl = b.rl
      /\ With(c, c.eq, po).pos = po
    BY <1>3, <1>4, WithBook DEF Open, Books
<1>7. QED
    BY <1>2, <1>4, <1>5, <1>6

LEMMA AddsOpen ==
    ASSUME NEW b, Open(b), NEW bar \in Bars
    PROVE  /\ Open(Adds(b, bar)) /\ Adds(b, bar).rl = b.rl
           /\ bar.close <= b.pos.peak /\ OneLevel(b) => OneLevel(Adds(b, bar))
<1> DEFINE c == Pyramids(b, bar)
<1>1. /\ Open(c) /\ c.rl = b.rl
      /\ bar.close <= b.pos.peak /\ OneLevel(b) => OneLevel(c)
    BY PyramidsOpen
<1>2. Adds(b, bar) = Dominates(c, bar)
    BY DEF Adds
<1> HIDE DEF c
<1>3. /\ Open(Dominates(c, bar)) /\ Dominates(c, bar).rl = c.rl
      /\ Dominates(c, bar).pos.adds = c.pos.adds
    BY <1>1, DominatesOpen
<1>4. c.pos # None
    BY <1>1, V25Assumption DEF Open
<1>5. QED
    BY <1>1, <1>2, <1>3, <1>4 DEF OneLevel

LEMMA ClosesBook ==
    ASSUME NEW b, Open(b), NEW p \in Prices
    PROVE  /\ Closes(b, p) \in Books /\ Closes(b, p).pos = None
           /\ Closes(b, p).rl = b.rl
           /\ Closes(b, p).lots = 0 /\ Closes(b, p).trades = b.trades + 1
           /\ Closes(b, p).eq = b.eq + b.pos.size * p
           /\ Gross(Closes(b, p)) = Gross(b) + b.lots * Lot * p
<1> DEFINE f == Filled(b, -b.lots, p)
           gain == b.pos.size * p
<1>1. -b.lots \in Int /\ gain \in Int
    BY PricesPositive DEF Open, Books, Positions
<1>2. /\ f \in Books /\ f.rl = b.rl /\ f.eq = b.eq
      /\ f.lots = b.lots + -b.lots /\ Gross(f) = Gross(b) - (-b.lots) * Lot * p
      /\ f.trades = b.trades + 1
    BY <1>1, FilledBook DEF Open
<1>3. Closes(b, p) = [f EXCEPT !.eq = f.eq + gain, !.pos = None]
    BY DEF Closes
<1> HIDE DEF f, gain
<1>4. f.eq + gain \in Int
    BY <1>1, <1>2 DEF Books
<1>5. [f EXCEPT !.eq = f.eq + gain, !.pos = None] = With(f, f.eq + gain, None)
  <2> DEFINE e == f.eq + gain
             g == [f EXCEPT !.eq = e]
  <2>1. [f EXCEPT !.eq = e, !.pos = None] = [g EXCEPT !.pos = None]
    BY Zenon
  <2> HIDE DEF e
  <2>2. g = [eq |-> e, rl |-> f.rl, pos |-> f.pos, lots |-> f.lots, cash |-> f.cash,
             fees |-> f.fees, trades |-> f.trades, phantom |-> f.phantom]
    BY <1>2 DEF Books
  <2> HIDE DEF g
  <2>3. [g EXCEPT !.pos = None] = With(f, e, None)
    BY <2>2 DEF With
  <2>4. QED
    BY <2>1, <2>3 DEF e, g
<1>6. f.lots = 0 /\ Gross(f) = Gross(b) + b.lots * Lot * p
  <2>1. b.lots \in Int /\ Gross(b) \in Int /\ Lot \in Nat /\ p \in Nat
    BY PricesPositive, GrossInt, V25Assumption DEF Open, Books
  <2> DEFINE paid == b.lots * Lot * p
  <2>2. (-b.lots) * Lot * p = -paid /\ paid \in Int
    BY <2>1
  <2> HIDE DEF paid
  <2>3. Gross(f) = Gross(b) + paid /\ f.lots = 0
    BY <1>2, <2>1, <2>2
  <2>4. QED
    BY <2>3 DEF paid
<1>7. /\ Closes(b, p) \in Books /\ Closes(b, p).pos = None /\ Closes(b, p).rl = b.rl
      /\ Closes(b, p).eq = f.eq + gain
    BY <1>2, <1>3, <1>4, <1>5, WithBook
<1>8. /\ Closes(b, p).lots = f.lots /\ Closes(b, p).trades = f.trades
      /\ Gross(Closes(b, p)) = Gross(f)
    BY <1>3, <1>5 DEF With, Gross
<1>9. QED
    BY <1>2, <1>6, <1>7, <1>8 DEF gain

-----------------------------------------------------------------------------
(* The account next to the position.  Off is the size the account lacks,   *)
(* Gap the equity that neither its cash nor its fees account for.          *)
Off(b) == (IF b.pos = None THEN 0 ELSE b.pos.size) - b.lots * Lot
Gap(b) == b.eq - Gross(b)

\* The prices have a greatest one.
PricesBounded == \E p \in Prices : \A q \in Prices : q <= p

\* An order moves the account and the position apart by half a lot at most,
\* and the equity by what the half lot costs and a remainder.
OneOrder(b, c, p) ==
    /\ c.trades = b.trades + 1
    /\ \E e \in Int, r \in 0 .. p :
         /\ -Lot <= 2 * e /\ 2 * e <= Lot
         /\ Off(c) = Off(b) + e
         /\ Gap(c) = Gap(b) - e * p - r

\* Whatever the price a position is closed at, equity and cash then differ by
\* no more than a slack for each order.
Slack == (Lot \div 2) * Max(Prices) + Max(Prices)

Agrees(b) ==
    \A q \in 0 .. Max(Prices) :
        /\ -(b.trades * Slack) <= Gap(b) + Off(b) * q
        /\ Gap(b) + Off(b) * q <= b.trades * Slack

LEMMA HighestPrice ==
    ASSUME PricesBounded
    PROVE  /\ Max(Prices) \in Prices /\ Max(Prices) \in Nat
           /\ \A p \in Prices : p <= Max(Prices)
BY PricesPositive DEF Max, PricesBounded

LEMMA HalfALot ==
    ASSUME NEW size \in Nat
    PROVE  /\ Lots(size) * Lot - size \in Int
           /\ -Lot <= 2 * (Lots(size) * Lot - size)
           /\ 2 * (Lots(size) * Lot - size) <= Lot
<1> DEFINE half == Lot \div 2
           n == (size + half) \div Lot
           r == (size + half) % Lot
<1>1. Lot \in Nat /\ Lot > 0
    BY V25Assumption
<1>2. half \in Nat /\ 2 * half <= Lot /\ Lot <= 2 * half + 1
    BY <1>1
<1> HIDE DEF half
<1>3. n \in Int /\ r \in 0 .. Lot - 1 /\ size + half = Lot * n + r
    BY <1>1, <1>2
<1>4. Lots(size) = n
    BY DEF Lots, half
<1> HIDE DEF n, r
<1>5. n * Lot = Lot * n
    BY <1>1, <1>3
<1>6. QED
    BY <1>1, <1>2, <1>3, <1>4, <1>5

LEMMA SaleIsOneOrder ==
    ASSUME NEW b, NEW c, Open(b), Open(c), NEW p \in Prices, NEW size \in Nat,
           Trade(b, c, -Lots(size), p, size * p, -size)
    PROVE  OneOrder(b, c, p)
<1> DEFINE n == Lots(size)
           e == n * Lot - size
<1>1. n \in Nat /\ p \in Nat /\ Lot \in Nat /\ e \in Int
    BY LotsNat, PricesPositive, V25Assumption
<1>2. /\ b.eq \in Int /\ Gross(b) \in Int /\ b.lots \in Int /\ b.pos.size \in Int
      /\ b.pos # None /\ c.pos # None
    BY GrossInt, V25Assumption DEF Open, Books, Positions
<1>3. /\ c.lots = b.lots - n /\ Gross(c) = Gross(b) - (-n) * Lot * p
      /\ c.eq = b.eq + size * p /\ c.pos.size = b.pos.size - size
      /\ c.trades = b.trades + 1
    BY <1>1, <1>2 DEF Trade
<1>4. -Lot <= 2 * e /\ 2 * e <= Lot
    BY HalfALot
<1> HIDE DEF n
<1>5. Off(c) = Off(b) + e
  <2>1. (b.lots - n) * Lot = b.lots * Lot - n * Lot
    BY <1>1, <1>2
  <2>2. QED
    BY <1>1, <1>2, <1>3, <2>1 DEF Off
<1>6. Gap(c) = Gap(b) - e * p - 0
  <2> DEFINE paid == n * Lot * p
             worth == size * p
  <2>1. (-n) * Lot * p = -paid /\ e * p = paid - worth
    BY <1>1
  <2>2. paid \in Int /\ worth \in Int
    BY <1>1
  <2>3. Gross(c) = Gross(b) + paid /\ c.eq = b.eq + worth
    BY <1>2, <1>3, <2>1, <2>2
  <2> HIDE DEF e, paid, worth
  <2>4. QED
    BY <1>2, <2>1, <2>2, <2>3 DEF Gap
<1>7. 0 \in 0 .. p
    BY <1>1
<1> HIDE DEF e
<1>8. QED
    BY <1>1, <1>3, <1>4, <1>5, <1>6, <1>7 DEF OneOrder

\* A division with its remainder.
LEMMA Quotient ==
    ASSUME NEW a \in Nat, NEW d \in Nat, d > 0
    PROVE  a \div d \in Nat /\ a % d \in 0 .. d /\ a = d * (a \div d) + (a % d)
    OBVIOUS

\* What the cost of an order leaves after a whole number of units is less
\* than the price of one.
LEMMA PurchaseIsOneOrder ==
    ASSUME NEW b \in Books, NEW c \in Books, NEW p \in Prices, NEW cost \in Nat,
           c.pos # None, b.pos = None => b.lots = 0,
           c.lots = b.lots + Lots(cost \div p),
           Gross(c) = Gross(b) - Lots(cost \div p) * Lot * p,
           c.eq = b.eq - cost,
           c.pos.size = (IF b.pos = None THEN 0 ELSE b.pos.size) + cost \div p,
           c.trades = b.trades + 1
    PROVE  OneOrder(b, c, p)
<1> DEFINE size == cost \div p
           r == cost % p
           n == Lots(size)
           e == size - n * Lot
           held == IF b.pos = None THEN 0 ELSE b.pos.size
<1>1. p \in Nat /\ p > 0 /\ Lot \in Nat
    BY PricesPositive, V25Assumption
<1>2. size \in Nat /\ r \in 0 .. p /\ cost = p * size + r
    BY <1>1, Quotient
<1> HIDE DEF size, r
<1>3. n \in Nat /\ e \in Int /\ -Lot <= 2 * e /\ 2 * e <= Lot
    BY <1>1, <1>2, LotsNat, HalfALot
<1>4. b.eq \in Int /\ Gross(b) \in Int /\ b.lots \in Int /\ held \in Int
    BY GrossInt DEF Books, Positions
<1>5. c.lots = b.lots + n /\ Gross(c) = Gross(b) - n * Lot * p /\ c.pos.size = held + size
    BY DEF size
<1> HIDE DEF n
<1>6. Off(c) = Off(b) + e
  <2>1. (b.lots + n) * Lot = b.lots * Lot + n * Lot
    BY <1>1, <1>3, <1>4
  <2>2. b.lots * Lot \in Int /\ n * Lot \in Int
    BY <1>1, <1>3, <1>4
  <2>3. Off(b) = held - b.lots * Lot
    BY DEF Off
  <2> HIDE DEF held
  <2>4. Off(c) = c.pos.size - c.lots * Lot
    BY DEF Off
  <2>5. Off(c) = (held + size) - (b.lots + n) * Lot
    <3>1. c.lots * Lot = (b.lots + n) * Lot
      BY <1>5
    <3>2. c.pos.size = held + size
      BY <1>5
    <3> HIDE DEF e
    <3>3. QED
      BY <2>4, <3>1, <3>2, Zenon
  <2>6. QED
    BY <1>1, <1>2, <1>3, <1>4, <2>1, <2>2, <2>3, <2>5
<1>7. Gap(c) = Gap(b) - e * p - r
  <2>1. e * p = p * size - n * Lot * p
    BY <1>1, <1>2, <1>3
  <2>2. n * Lot * p \in Int /\ p * size \in Int
    BY <1>1, <1>2, <1>3
  <2> HIDE DEF e
  <2>3. QED
    BY <1>2, <1>4, <1>5, <2>1, <2>2 DEF Gap
<1> HIDE DEF e
<1>8. QED
    BY <1>2, <1>3, <1>6, <1>7 DEF OneOrder

\* Half a lot at two prices differs by no more than a slack.
LEMMA SlackSuffices ==
    ASSUME NEW top \in Nat, NEW half \in Nat, NEW e \in Int, -half <= e, e <= half,
           NEW p \in 0 .. top, NEW q \in 0 .. top
    PROVE  -(half * top) <= e * (q - p) /\ e * (q - p) <= half * top
<1> DEFINE d == q - p
<1>1. d \in Int /\ -top <= d /\ d <= top
    OBVIOUS
<1> HIDE DEF d
<1>2. half * top \in Int /\ e * d \in Int
    BY <1>1
<1>3. CASE d >= 0
  <2>1. e * d <= half * d /\ -(half * d) <= e * d /\ half * d <= half * top
    BY <1>1, <1>3
  <2>2. half * d \in Int
    BY <1>1
  <2>3. QED
    BY <1>2, <2>1, <2>2 DEF d
<1>4. CASE d < 0
  <2> DEFINE f == -d
  <2>1. f \in Nat /\ f <= top
    BY <1>1, <1>4
  <2>2. e * d = -(e * f)
    BY <1>1
  <2> HIDE DEF f
  <2>3. e * f <= half * f /\ -(half * f) <= e * f /\ half * f <= half * top
    BY <2>1
  <2>4. half * f \in Int /\ e * f \in Int
    BY <2>1
  <2>5. QED
    BY <1>2, <2>2, <2>3, <2>4 DEF d
<1>5. QED
    BY <1>1, <1>3, <1>4

LEMMA OrderAgrees ==
    ASSUME NEW b \in Books, NEW c \in Books, NEW p \in Prices, PricesBounded,
           Agrees(b), OneOrder(b, c, p)
    PROVE  Agrees(c)
<1> DEFINE top == Max(Prices)
           half == Lot \div 2
<1>1. top \in Nat /\ p \in 0 .. top /\ half \in Nat /\ Lot \in Nat
    BY HighestPrice, PricesPositive, V25Assumption
<1> SUFFICES ASSUME NEW q \in 0 .. top
             PROVE  /\ -(c.trades * Slack) <= Gap(c) + Off(c) * q
                    /\ Gap(c) + Off(c) * q <= c.trades * Slack
    BY DEF Agrees
<1>2. PICK e \in Int, r \in 0 .. p :
         /\ -Lot <= 2 * e /\ 2 * e <= Lot
         /\ Off(c) = Off(b) + e
         /\ Gap(c) = Gap(b) - e * p - r
    BY DEF OneOrder
<1>3. /\ -(b.trades * Slack) <= Gap(b) + Off(b) * q
      /\ Gap(b) + Off(b) * q <= b.trades * Slack
    BY Zenon DEF Agrees, OneOrder
<1>4. -half <= e /\ e <= half
    BY <1>1, <1>2
<1>5. Gap(b) \in Int /\ Off(b) \in Int /\ b.trades \in Nat
  <2>1. (IF b.pos = None THEN 0 ELSE b.pos.size) \in Int /\ b.lots * Lot \in Int
    BY <1>1 DEF Books, Positions
  <2>2. QED
    BY <2>1, GrossInt DEF Books, Gap, Off
<1> HIDE DEF top, half
<1>6. -(half * top) <= e * (q - p) /\ e * (q - p) <= half * top
    BY <1>1, <1>4, SlackSuffices
<1>7. Slack = half * top + top /\ Slack \in Int
    BY <1>1 DEF Slack, half, top
<1>8. Gap(c) + Off(c) * q = (Gap(b) + Off(b) * q) + e * (q - p) - r
    BY <1>1, <1>2, <1>5
<1>9. c.trades * Slack = b.trades * Slack + Slack
    BY <1>5, <1>7 DEF OneOrder
<1>10. /\ Off(b) * q \in Int /\ e * (q - p) \in Int /\ half * top \in Int
       /\ b.trades * Slack \in Int
    BY <1>1, <1>5, <1>7
<1>11. r <= top /\ r >= 0
    BY <1>1, <1>2
<1>12. QED
    BY <1>1, <1>3, <1>5, <1>6, <1>7, <1>8, <1>9, <1>10, <1>11

\* What is left of a position that was never added to, in percent of what it
\* began with.
Left(po) == (IF po.ss THEN 50 ELSE 100) - (IF po.tp = 3 THEN 35 ELSE 10 * po.tp)

\* Half a lot for each order of the position, and the size that is left.
Near(po, off) ==
    /\ -(TradesOf(po) * Lot) <= 2 * off /\ 2 * off <= TradesOf(po) * Lot
    /\ 100 * po.size >= po.initial * Left(po)

\* A book whose account follows its position.
Sound(b) ==
    /\ b.pos = None => b.lots = 0
    /\ b.pos # None => Near(b.pos, Off(b))
    /\ PricesBounded => Agrees(b)

LEMMA OpenTypes ==
    ASSUME NEW b, Open(b)
    PROVE  /\ b.pos # None /\ Off(b) \in Int /\ Gap(b) \in Int
           /\ TradesOf(b.pos) \in Nat /\ Left(b.pos) \in 15 .. 100
           /\ b.pos.size \in Nat /\ b.pos.initial \in Nat
<1>1. b.pos # None
    BY V25Assumption DEF Open
<1>2. /\ b.pos.size \in Nat /\ b.pos.initial \in Nat /\ b.pos.adds \in 0 .. 3
      /\ b.pos.tp \in 0 .. 3 /\ b.lots \in Int /\ b.eq \in Int /\ Gross(b) \in Int
    BY GrossInt DEF Open, Books, Positions
<1>3. b.lots * Lot \in Int
    BY <1>2, V25Assumption
<1>4. QED
    BY <1>1, <1>2, <1>3 DEF Off, Gap, TradesOf, Left

\* A step of a bar with one order that the position remembers.
LEMMA OrderKeepsSound ==
    ASSUME NEW b, NEW c, Open(b), Open(c), NEW p \in Prices,
           Sound(b), OneOrder(b, c, p),
           TradesOf(c.pos) >= TradesOf(b.pos) + 1,
           100 * c.pos.size >= c.pos.initial * Left(c.pos)
    PROVE  Sound(c)
<1>1. PricesBounded => Agrees(c)
    BY OrderAgrees DEF Open, Sound
<1>2. PICK e \in Int : -Lot <= 2 * e /\ 2 * e <= Lot /\ Off(c) = Off(b) + e
    BY DEF OneOrder
<1>3. /\ b.pos # None /\ c.pos # None /\ Off(b) \in Int
      /\ TradesOf(b.pos) \in Nat /\ TradesOf(c.pos) \in Nat
    BY OpenTypes
<1>4. -(TradesOf(b.pos) * Lot) <= 2 * Off(b) /\ 2 * Off(b) <= TradesOf(b.pos) * Lot
    BY <1>3 DEF Sound, Near
<1> DEFINE m == TradesOf(b.pos)
           n == TradesOf(c.pos)
<1>5. m \in Nat /\ n \in Nat /\ n >= m + 1 /\ Lot \in Nat
    BY <1>3, V25Assumption
<1> HIDE DEF m, n
<1>6. n * Lot >= m * Lot + Lot /\ m * Lot \in Int /\ n * Lot \in Int
  <2>1. (m + 1) * Lot = m * Lot + Lot /\ n * Lot >= (m + 1) * Lot
    BY <1>5
  <2>2. QED
    BY <1>5, <2>1
<1>7. -(n * Lot) <= 2 * Off(c) /\ 2 * Off(c) <= n * Lot
    BY <1>2, <1>3, <1>4, <1>5, <1>6 DEF m
<1>8. QED
    BY <1>1, <1>3, <1>7 DEF Sound, Near, n

\* And one with no order.
LEMMA NoOrderKeepsSound ==
    ASSUME NEW b, NEW c, Open(b), Open(c), Sound(b),
           c.eq = b.eq, Gross(c) = Gross(b), c.lots = b.lots, c.trades = b.trades,
           c.pos.size = b.pos.size,
           TradesOf(c.pos) >= TradesOf(b.pos),
           100 * c.pos.size >= c.pos.initial * Left(c.pos)
    PROVE  Sound(c)
<1>1. /\ b.pos # None /\ c.pos # None /\ Off(b) \in Int
      /\ TradesOf(b.pos) \in Nat /\ TradesOf(c.pos) \in Nat /\ Lot \in Nat
    BY OpenTypes, V25Assumption
<1>2. Off(c) = Off(b) /\ Gap(c) = Gap(b)
    BY <1>1 DEF Off, Gap
<1>3. PricesBounded => Agrees(c)
    BY <1>2, Zenon DEF Sound, Agrees
<1>4. -(TradesOf(b.pos) * Lot) <= 2 * Off(b) /\ 2 * Off(b) <= TradesOf(b.pos) * Lot
    BY <1>1 DEF Sound, Near
<1>5. TradesOf(c.pos) * Lot >= TradesOf(b.pos) * Lot
  <2> DEFINE m == TradesOf(b.pos)
             n == TradesOf(c.pos)
  <2>1. m \in Nat /\ n \in Nat /\ Lot \in Nat /\ n >= m
    BY <1>1
  <2> HIDE DEF m, n
  <2>2. n * Lot >= m * Lot
    BY <2>1
  <2>3. QED
    BY <2>2 DEF m, n
<1>6. TradesOf(c.pos) * Lot \in Int /\ TradesOf(b.pos) * Lot \in Int
    BY <1>1
<1>7. -(TradesOf(c.pos) * Lot) <= 2 * Off(c) /\ 2 * Off(c) <= TradesOf(c.pos) * Lot
    BY <1>1, <1>2, <1>4, <1>5, <1>6
<1>8. QED
    BY <1>1, <1>3, <1>7 DEF Sound, Near

\* Only the position changed after the order.
LEMMA OrderThenFlag ==
    ASSUME NEW b, NEW c, NEW d, Open(c), Open(d), NEW p, OneOrder(b, c, p),
           d.eq = c.eq, Gross(d) = Gross(c), d.lots = c.lots, d.trades = c.trades,
           d.pos.size = c.pos.size
    PROVE  OneOrder(b, d, p)
<1>1. Off(d) = Off(c) /\ Gap(d) = Gap(c)
    BY OpenTypes DEF Off, Gap
<1>2. QED
    BY <1>1 DEF OneOrder

LEMMA SoftStopSound ==
    ASSUME NEW b, Open(b), NEW p \in Prices, Sound(b)
    PROVE  Sound(SoftStop(b, p))
<1> DEFINE half == b.pos.size \div 2
           c == Sells(b, half, p)
           d == SoftStop(b, p)
<1>1. CASE ~(Loses(b.pos, p, 6) /\ ~b.pos.ss)
    BY <1>1 DEF SoftStop
<1>2. CASE Loses(b.pos, p, 6) /\ ~b.pos.ss
  <2>1. half \in Nat /\ half < b.pos.size /\ 2 * (b.pos.size - half) >= b.pos.size
    BY DEF Open, Positions
  <2> HIDE DEF half
  <2>2. /\ Open(c) /\ Trade(b, c, -Lots(half), p, half * p, -half)
        /\ SameSteps(b.pos, c.pos)
    BY <2>1, SellsHolds DEF Holds
  <2>3. Open(d)
    BY SoftStopHolds DEF Holds
  <2>4. d = [c EXCEPT !.pos.ss = TRUE]
    BY <1>2 DEF SoftStop, half
  <2> HIDE DEF c, d
  <2>5. /\ d.eq = c.eq /\ Gross(d) = Gross(c) /\ d.lots = c.lots /\ d.trades = c.trades
        /\ d.pos = [c.pos EXCEPT !.ss = TRUE]
    BY <2>2, <2>4 DEF Open, Books, Gross
  <2>6. /\ d.pos.size = c.pos.size /\ d.pos.initial = b.pos.initial
        /\ d.pos.adds = b.pos.adds /\ d.pos.tp = b.pos.tp
        /\ d.pos.dom = b.pos.dom /\ d.pos.ss
    BY <2>2, <2>5 DEF Open, Positions, SameSteps
  <2>7. OneOrder(b, d, p)
    <3>1. OneOrder(b, c, p)
      BY <2>1, <2>2, SaleIsOneOrder
    <3>2. QED
      BY <2>2, <2>3, <2>5, <2>6, <3>1, OrderThenFlag
  <2>8. TradesOf(d.pos) = TradesOf(b.pos) + 1
    <3>1. b.pos.adds \in Nat /\ b.pos.tp \in Nat
      BY DEF Open, Positions
    <3>2. QED
      BY <1>2, <2>6, <3>1 DEF TradesOf
  <2>9. 100 * d.pos.size >= d.pos.initial * Left(d.pos)
    <3> DEFINE i == b.pos.initial
               l == Left(b.pos)
               m == Left(d.pos)
    <3>1. l >= 2 * m /\ l \in Nat /\ m \in Nat /\ i \in Nat
      <4>1. l \in Nat /\ m \in Nat /\ i \in Nat /\ b.pos.tp \in 0 .. 3
        BY <2>3, OpenTypes DEF Open, Positions
      <4>2. QED
        BY <1>2, <2>6, <4>1 DEF Left
    <3>2. 100 * b.pos.size >= i * l
      BY OpenTypes DEF Sound, Near
    <3>3. d.pos.size = b.pos.size - half /\ b.pos.size \in Nat
      BY <2>1, <2>2, <2>6, OpenTypes DEF Trade
    <3> HIDE DEF i, l, m
    <3>4. i * l >= i * (2 * m) /\ i * (2 * m) = 2 * (i * m) /\ i * l \in Int /\ i * m \in Int
      BY <3>1
    <3>5. 100 * (b.pos.size - half) >= i * m
      BY <2>1, <3>2, <3>3, <3>4
    <3>6. QED
      BY <2>6, <3>3, <3>5 DEF i, m
  <2>10. QED
    BY <2>3, <2>7, <2>8, <2>9, OrderKeepsSound, OpenTypes DEF d
<1>3. QED
    BY <1>1, <1>2

LEMMA TakesProfitSound ==
    ASSUME NEW b, Open(b), NEW p \in Prices, NEW n \in 1 .. 3, Sound(b)
    PROVE  Sound(TakesProfit(b, n, p))
<1> DEFINE share == Steps[n].share
           part == (b.pos.initial * share) \div 100
           sells == part < b.pos.size
           c == IF sells THEN Sells(b, part, p) ELSE b
           d == TakesProfit(b, n, p)
<1>1. CASE ~(Gains(b.pos, p, Steps[n].gain) /\ b.pos.tp = n - 1)
    BY <1>1 DEF TakesProfit
<1>2. CASE Gains(b.pos, p, Steps[n].gain) /\ b.pos.tp = n - 1
  <2>1. share \in Nat /\ b.pos.initial \in Nat /\ b.pos.size \in Nat
    BY OpenTypes DEF Steps
  <2>2. part \in Nat /\ 100 * part <= b.pos.initial * share
    <3> DEFINE x == b.pos.initial * share
    <3>1. x \in Nat
      BY <2>1
    <3> HIDE DEF x
    <3>2. x \div 100 \in Nat /\ 100 * (x \div 100) <= x
      BY <3>1
    <3>3. QED
      BY <3>2 DEF x
  <2>3. d = [c EXCEPT !.pos.tp = n]
    BY <1>2 DEF TakesProfit
  <2>4. Open(d)
    BY TakesProfitHolds DEF Holds
  <2> HIDE DEF part, d
  <2>5. sells => /\ Open(c) /\ SameSteps(b.pos, c.pos)
                 /\ Trade(b, c, -Lots(part), p, part * p, -part)
    BY <2>2, SellsHolds DEF Holds
  <2>6. ~sells => c = b
    OBVIOUS
  <2> HIDE DEF sells, c
  <2>7. Open(c) /\ SameSteps(b.pos, c.pos)
    BY <2>5, <2>6 DEF SameSteps
  <2>8. /\ d.eq = c.eq /\ Gross(d) = Gross(c) /\ d.lots = c.lots /\ d.trades = c.trades
        /\ d.pos = [c.pos EXCEPT !.tp = n]
    BY <2>3, <2>7 DEF Open, Books, Gross
  <2>9. /\ d.pos.size = c.pos.size /\ d.pos.initial = b.pos.initial
        /\ d.pos.adds = b.pos.adds /\ d.pos.tp = n
        /\ d.pos.dom = b.pos.dom /\ d.pos.ss = b.pos.ss
    BY <2>7, <2>8 DEF Open, Positions, SameSteps
  <2>10. TradesOf(d.pos) = TradesOf(b.pos) + 1
    <3>1. b.pos.adds \in Nat /\ b.pos.tp \in Nat
      BY DEF Open, Positions
    <3>2. QED
      BY <1>2, <2>9, <3>1 DEF TradesOf
  <2>11. 100 * d.pos.size >= d.pos.initial * Left(d.pos)
    <3> DEFINE i == b.pos.initial
               l == Left(b.pos)
               m == Left(d.pos)
    <3>1. l = m + share /\ l \in Nat /\ m \in Nat /\ i \in Nat
      <4>1. l \in Nat /\ m \in Nat /\ i \in Nat
        BY <2>4, OpenTypes
      <4>2. share = IF n = 3 THEN 15 ELSE 10
        BY DEF Steps
      <4>3. QED
        BY <1>2, <2>9, <4>1, <4>2 DEF Left
    <3>2. 100 * b.pos.size >= i * l
      BY OpenTypes DEF Sound, Near
    <3>3. IF sells THEN d.pos.size = b.pos.size - part ELSE d.pos.size = b.pos.size
      BY <2>1, <2>2, <2>5, <2>6, <2>9 DEF Trade
    <3> HIDE DEF i, l, m
    <3>4. i * l = i * m + i * share /\ i * m \in Int /\ i * share \in Nat
      BY <2>1, <3>1
    <3>5. 100 * part <= i * share
      BY <2>2 DEF i
    <3>6. 100 * d.pos.size >= i * m
      BY <2>1, <2>2, <3>2, <3>3, <3>4, <3>5
    <3>7. QED
      BY <2>9, <3>6 DEF i, m
  <2>12. CASE sells
    <3>1. OneOrder(b, c, p)
      BY <2>2, <2>5, <2>12, SaleIsOneOrder
    <3>2. OneOrder(b, d, p)
      BY <2>4, <2>7, <2>8, <2>9, <3>1, OrderThenFlag
    <3>3. TradesOf(d.pos) >= TradesOf(b.pos) + 1
      BY <2>10, OpenTypes
    <3>4. Sound(d)
      BY <2>4, <2>11, <3>2, <3>3, OrderKeepsSound
    <3>5. QED
      BY <3>4 DEF d
  <2>13. CASE ~sells
    <3>1. c = b
      BY <2>6, <2>13
    <3>2. TradesOf(d.pos) >= TradesOf(b.pos)
      BY <2>10, OpenTypes
    <3>3. Sound(d)
      BY <2>4, <2>8, <2>9, <2>11, <3>1, <3>2, NoOrderKeepsSound
    <3>4. QED
      BY <3>3 DEF d
  <2>14. QED
    BY <2>12, <2>13
<1>3. QED
    BY <1>1, <1>2

\* An add leaves more of the position, not less.
LEMMA AddKeepsSound ==
    ASSUME NEW b, NEW d, Open(b), Open(d), NEW p \in Prices, NEW cost \in Nat,
           Sound(b),
           LET c == Buys(b, cost, p)
           IN  /\ d.eq = c.eq /\ Gross(d) = Gross(c) /\ d.lots = c.lots
               /\ d.trades = c.trades
               /\ d.pos.size = c.pos.size /\ d.pos.initial = c.pos.initial
               /\ d.pos.tp = c.pos.tp /\ d.pos.ss = c.pos.ss,
           TradesOf(d.pos) >= TradesOf(b.pos) + 1
    PROVE  Sound(d)
<1> DEFINE c == Buys(b, cost, p)
           size == cost \div p
<1>1. /\ Open(c) /\ Trade(b, c, Lots(size), p, -cost, size)
      /\ SameSteps(b.pos, c.pos)
    BY BuysOpen
<1>2. /\ d.eq = c.eq /\ Gross(d) = Gross(c) /\ d.lots = c.lots
      /\ d.trades = c.trades
      /\ d.pos.size = c.pos.size /\ d.pos.initial = c.pos.initial
      /\ d.pos.tp = c.pos.tp /\ d.pos.ss = c.pos.ss
    OBVIOUS
<1> HIDE DEF c
<1>3. OneOrder(b, d, p)
  <2>1. /\ b \in Books /\ c \in Books /\ b.pos # None /\ c.pos # None
        /\ b.eq \in Int
    BY <1>1, OpenTypes DEF Open, Books
  <2>2. /\ c.lots = b.lots + Lots(size) /\ Gross(c) = Gross(b) - Lots(size) * Lot * p
        /\ c.eq = b.eq - cost /\ c.pos.size = b.pos.size + size
        /\ c.trades = b.trades + 1
    BY <1>1, <2>1 DEF Trade
  <2>3. OneOrder(b, c, p)
    BY <2>1, <2>2, PurchaseIsOneOrder
  <2>4. QED
    BY <1>1, <1>2, <2>3, OrderThenFlag
<1>4. 100 * d.pos.size >= d.pos.initial * Left(d.pos)
  <2>1. d.pos.initial = b.pos.initial /\ Left(d.pos) = Left(b.pos)
    BY <1>1, <1>2 DEF SameSteps, Left
  <2>2. d.pos.size = b.pos.size + size /\ size \in Nat /\ b.pos.size \in Nat
    BY <1>1, <1>2, OpenTypes, PricesPositive DEF Trade
  <2>3. 100 * b.pos.size >= b.pos.initial * Left(b.pos)
    BY OpenTypes DEF Sound, Near
  <2>4. b.pos.initial * Left(b.pos) \in Int
    BY OpenTypes
  <2> HIDE DEF size
  <2>5. QED
    BY <2>1, <2>2, <2>3, <2>4
<1>5. QED
    BY <1>3, <1>4, OrderKeepsSound

LEMMA PyramidsSound ==
    ASSUME NEW b, Open(b), NEW bar \in Bars, Sound(b)
    PROVE  Sound(Pyramids(b, bar))
<1> DEFINE p == bar.close
           cost == PyramidCost(b.pos, p)
           c == Buys(b, cost, p)
           d == Pyramids(b, bar)
<1>1. p \in Prices /\ Open(d)
    BY PyramidsOpen DEF Bars
<1>2. cost \in Nat
    BY PyramidCostType, <1>1
<1>3. d = b \/ d = [c EXCEPT !.pos.adds = c.pos.adds + 1]
    BY DEF Pyramids
<1>4. CASE d = [c EXCEPT !.pos.adds = c.pos.adds + 1]
  <2>1. Open(c) /\ SameSteps(b.pos, c.pos)
    BY <1>1, <1>2, BuysOpen
  <2> HIDE DEF p, cost, d
  <2>2. /\ d.eq = c.eq /\ Gross(d) = Gross(c) /\ d.lots = c.lots /\ d.trades = c.trades
        /\ d.pos = [c.pos EXCEPT !.adds = c.pos.adds + 1]
    <3> HIDE DEF c
    <3>1. QED
      BY <1>4, <2>1 DEF Open, Books, Gross
  <2>3. /\ d.pos.size = c.pos.size /\ d.pos.initial = c.pos.initial
        /\ d.pos.tp = c.pos.tp /\ d.pos.ss = c.pos.ss /\ d.pos.dom = c.pos.dom
        /\ d.pos.adds = c.pos.adds + 1
    <3> HIDE DEF c
    <3>1. QED
      BY <2>1, <2>2 DEF Open, Positions
  <2>4. TradesOf(d.pos) = TradesOf(b.pos) + 1
    <3> HIDE DEF c
    <3>1. b.pos.adds \in Nat /\ b.pos.tp \in Nat
      BY DEF Open, Positions
    <3>2. QED
      BY <2>1, <2>3, <3>1 DEF TradesOf, SameSteps
  <2>5. TradesOf(d.pos) >= TradesOf(b.pos) + 1
    BY <2>4, OpenTypes
  <2>6. QED
    BY <1>1, <1>2, <2>2, <2>3, <2>5, AddKeepsSound DEF d
<1>5. QED
    BY <1>3, <1>4

LEMMA DominatesSound ==
    ASSUME NEW b, Open(b), NEW bar \in Bars, Sound(b)
    PROVE  Sound(Dominates(b, bar))
<1> DEFINE p == bar.close
           cost == 2 * b.pos.base
           c == Buys(b, cost, p)
           d == Dominates(b, bar)
<1>1. p \in Prices /\ Open(d) /\ cost \in Nat
    BY DominatesOpen DEF Bars, Open, Positions
<1>2. d = b \/ (~b.pos.dom /\ d = [c EXCEPT !.pos.dom = TRUE])
    BY DEF Dominates
<1>3. CASE ~b.pos.dom /\ d = [c EXCEPT !.pos.dom = TRUE]
  <2>1. Open(c) /\ SameSteps(b.pos, c.pos)
    BY <1>1, BuysOpen
  <2> HIDE DEF p, cost, d
  <2>2. /\ d.eq = c.eq /\ Gross(d) = Gross(c) /\ d.lots = c.lots /\ d.trades = c.trades
        /\ d.pos = [c.pos EXCEPT !.dom = TRUE]
    <3> HIDE DEF c
    <3>1. QED
      BY <1>3, <2>1 DEF Open, Books, Gross
  <2>3. /\ d.pos.size = c.pos.size /\ d.pos.initial = c.pos.initial
        /\ d.pos.tp = c.pos.tp /\ d.pos.ss = c.pos.ss /\ d.pos.adds = c.pos.adds
        /\ d.pos.dom
    <3> HIDE DEF c
    <3>1. QED
      BY <2>1, <2>2 DEF Open, Positions
  <2>4. TradesOf(d.pos) = TradesOf(b.pos) + 1
    <3> HIDE DEF c
    <3>1. b.pos.adds \in Nat /\ b.pos.tp \in Nat
      BY DEF Open, Positions
    <3>2. QED
      BY <1>3, <2>1, <2>3, <3>1 DEF TradesOf, SameSteps
  <2>5. TradesOf(d.pos) >= TradesOf(b.pos) + 1
    BY <2>4, OpenTypes
  <2>6. QED
    BY <1>1, <2>2, <2>3, <2>5, AddKeepsSound DEF d
<1>4. QED
    BY <1>2, <1>3

LEMMA AddsSound ==
    ASSUME NEW b, Open(b), NEW bar \in Bars, Sound(b)
    PROVE  Sound(Adds(b, bar))
BY PyramidsOpen, PyramidsSound, DominatesSound DEF Adds

\* A position is closed at a price the slack was for.
LEMMA ClosesSound ==
    ASSUME NEW b, Open(b), NEW p \in Prices, Sound(b)
    PROVE  Sound(Closes(b, p))
<1> DEFINE c == Closes(b, p)
           paid == b.lots * Lot * p
           worth == b.pos.size * p
<1>1. /\ c.pos = None /\ c.lots = 0 /\ c.trades = b.trades + 1
      /\ c.eq = b.eq + worth /\ Gross(c) = Gross(b) + paid
    BY ClosesBook
<1> HIDE DEF c
<1>2. Lot \in Nat /\ p \in Nat
    BY PricesPositive, V25Assumption
<1>3. /\ b.pos # None /\ b.pos.size \in Nat /\ Off(b) \in Int /\ Gap(b) \in Int
      /\ b.lots \in Int /\ b.eq \in Int /\ Gross(b) \in Int /\ b.trades \in Nat
    BY OpenTypes, GrossInt DEF Open, Books
<1>4. paid \in Int /\ worth \in Int
    BY <1>2, <1>3
<1>5. Off(c) = 0
    BY <1>1, <1>2 DEF Off
<1>6. Gap(c) = Gap(b) + Off(b) * p
  <2>1. Off(b) * p = worth - paid
    <3>1. Off(b) = b.pos.size - b.lots * Lot
      BY <1>3 DEF Off
    <3>2. (b.pos.size - b.lots * Lot) * p = b.pos.size * p - b.lots * Lot * p
      BY <1>2, <1>3
    <3>3. QED
      BY <3>1, <3>2
  <2> HIDE DEF paid, worth
  <2>2. QED
    BY <1>1, <1>3, <1>4, <2>1 DEF Gap
<1>7. ASSUME PricesBounded PROVE Agrees(c)
  <2> SUFFICES ASSUME NEW q \in 0 .. Max(Prices)
               PROVE  /\ -(c.trades * Slack) <= Gap(c) + Off(c) * q
                      /\ Gap(c) + Off(c) * q <= c.trades * Slack
    BY DEF Agrees
  <2>1. p \in 0 .. Max(Prices) /\ Max(Prices) \in Nat
    BY <1>2, <1>7, HighestPrice
  <2>2. /\ -(b.trades * Slack) <= Gap(b) + Off(b) * p
        /\ Gap(b) + Off(b) * p <= b.trades * Slack
    BY <1>1, <1>7, <2>1, Zenon DEF Sound, Agrees
  <2>3. Slack \in Nat
    BY <1>2, <2>1 DEF Slack
  <2>4. c.trades * Slack = b.trades * Slack + Slack /\ b.trades * Slack \in Int
    BY <1>1, <1>3, <2>3
  <2>5. Off(c) * q = 0 /\ Off(b) * p \in Int
    BY <1>2, <1>3, <1>5, <2>1
  <2>6. QED
    BY <1>3, <1>6, <2>2, <2>3, <2>4, <2>5
<1>8. QED
    BY <1>1, <1>7 DEF Sound, c

\* The loss counter replaced.
LEMMA Recounted ==
    ASSUME NEW b \in Books, NEW n \in Nat
    PROVE  /\ [b EXCEPT !.rl = n] \in Books
           /\ [b EXCEPT !.rl = n].rl = n /\ [b EXCEPT !.rl = n].pos = b.pos
           /\ Sound(b) => Sound([b EXCEPT !.rl = n])
<1> DEFINE c == [b EXCEPT !.rl = n]
<1>1. c = [eq |-> b.eq, rl |-> n, pos |-> b.pos, lots |-> b.lots, cash |-> b.cash,
           fees |-> b.fees, trades |-> b.trades, phantom |-> b.phantom]
    BY DEF Books
<1>2. /\ b.eq \in Int /\ b.pos \in Positions \cup {None} /\ b.lots \in Int
      /\ b.cash \in Int /\ b.trades \in Nat /\ b.fees \in Nat /\ b.phantom \in Nat
    BY DEF Books
<1> HIDE DEF c
<1>3. c \in Books
    BY <1>1, <1>2 DEF Books
<1>4. /\ c.eq = b.eq /\ c.pos = b.pos /\ c.lots = b.lots /\ c.cash = b.cash
      /\ c.trades = b.trades /\ c.fees = b.fees /\ c.phantom = b.phantom /\ c.rl = n
    BY <1>1
<1>5. Sound(b) => Sound(c)
    BY <1>4, Zenon DEF Sound, Agrees, Near, Off, Gap, Gross
<1>6. QED
    BY <1>3, <1>4, <1>5 DEF c

\* What _manage_position makes of an open position: a losing exit, a winning
\* one, or a position that is still open.
LEMMA ManagedCases ==
    ASSUME NEW b, Open(b), NEW bar \in Bars
    PROVE  LET c == Managed(b, bar)
           IN  /\ \/ /\ c \in Books /\ c.pos = None /\ c.rl = b.rl + 1
                     /\ bar.close <= b.pos.avg
                  \/ /\ c \in Books /\ c.pos = None /\ c.rl = 0
                     /\ bar.close > b.pos.avg
                  \/ Open(c) /\ c.rl = b.rl
               /\ Sound(b) => Sound(c)
               /\ OneLevel(b) => OneLevel(c)
<1> DEFINE p == bar.close
           high == IF b.pos.peak < p THEN p ELSE b.pos.peak
           top == [b EXCEPT !.pos.peak = high]
           po == [b.pos EXCEPT !.peak = high]
           step == TakesProfit(TakesProfit(TakesProfit(SoftStop(top, p), 1, p), 2, p), 3, p)
           keeps == [step EXCEPT !.eq = step.eq + step.pos.size * p,
                                 !.phantom = step.phantom + step.pos.size * p]
           StillSound(c) == Sound(b) => Sound(c)
<1>1. p \in Prices /\ b \in Books /\ b.pos \in Positions /\ b.rl \in Nat
    BY DEF Bars, Open, Books
<1>2. /\ Open(top) /\ top.rl = b.rl /\ top.pos.avg = b.pos.avg
      /\ top.pos.adds = b.pos.adds /\ p <= top.pos.peak
      /\ StillSound(top)
  <2>1. /\ po \in Positions /\ po.avg = b.pos.avg /\ po.size = b.pos.size
        /\ SameSteps(b.pos, po) /\ p <= po.peak
    <3>1. high \in Prices /\ p <= high
      BY <1>1, PricesPositive DEF Positions
    <3> HIDE DEF high, p
    <3>2. QED
      BY <1>1, <3>1 DEF Positions, SameSteps
  <2>2. top = With(b, b.eq, po)
    BY <1>1 DEF Books, With
  <2> HIDE DEF po, top
  <2>3. Open(top) /\ top.rl = b.rl /\ top.pos = po
    BY <1>1, <2>1, <2>2, WithBook DEF Open, Books
  <2>4. ASSUME Sound(b) PROVE Sound(top)
    <3>1. /\ top.eq = b.eq /\ Gross(top) = Gross(b) /\ top.lots = b.lots
          /\ top.trades = b.trades
      BY <2>2 DEF With, Gross
    <3>2. TradesOf(top.pos) = TradesOf(b.pos) /\ Left(top.pos) = Left(b.pos)
      BY <2>1, <2>3 DEF SameSteps, TradesOf, Left
    <3>3. 100 * b.pos.size >= b.pos.initial * Left(b.pos)
      BY <2>4, OpenTypes DEF Sound, Near
    <3>4. TradesOf(top.pos) >= TradesOf(b.pos)
      BY <3>2, OpenTypes
    <3>5. top.pos.size = b.pos.size /\ top.pos.initial = b.pos.initial
      BY <2>1, <2>3 DEF SameSteps
    <3>6. QED
      BY <2>3, <2>4, <3>1, <3>2, <3>3, <3>4, <3>5, NoOrderKeepsSound
  <2>5. QED
    BY <2>1, <2>3, <2>4 DEF SameSteps
<1>3. Managed(b, bar) =
        IF HardStop(top.pos, p) THEN [Closes(top, p) EXCEPT !.rl = Closes(top, p).rl + 1]
        ELSE IF ~Trails(step.pos, p) THEN Adds(step, bar)
        ELSE IF p > step.pos.avg THEN [Closes(step, p) EXCEPT !.rl = 0]
        ELSE Adds(keeps, bar)
    BY DEF Managed
<1> HIDE DEF top
<1>4. Holds(top, step) /\ StillSound(step)
  <2> DEFINE s0 == SoftStop(top, p)
             s1 == TakesProfit(s0, 1, p)
             s2 == TakesProfit(s1, 2, p)
  <2>1. Holds(top, s0) /\ StillSound(s0)
    BY <1>1, <1>2, SoftStopHolds, SoftStopSound DEF Holds
  <2> HIDE DEF s0
  <2>2. Holds(s0, s1) /\ StillSound(s1)
    <3>1. Open(s0) /\ 1 \in 1 .. 3
      BY <2>1 DEF Holds
    <3>2. Holds(s0, s1)
      BY <1>1, <3>1, TakesProfitHolds
    <3>3. Sound(s0) => Sound(s1)
      BY <1>1, <3>1, TakesProfitSound
    <3>4. QED
      BY <2>1, <3>2, <3>3
  <2> HIDE DEF s1
  <2>3. Holds(s1, s2) /\ StillSound(s2)
    <3>1. Open(s1) /\ 2 \in 1 .. 3
      BY <2>2 DEF Holds
    <3>2. Holds(s1, s2)
      BY <1>1, <3>1, TakesProfitHolds
    <3>3. Sound(s1) => Sound(s2)
      BY <1>1, <3>1, TakesProfitSound
    <3>4. QED
      BY <2>2, <3>2, <3>3
  <2> HIDE DEF s2
  <2>4. Holds(s2, TakesProfit(s2, 3, p)) /\ StillSound(TakesProfit(s2, 3, p))
    <3>1. Open(s2) /\ 3 \in 1 .. 3
      BY <2>3 DEF Holds
    <3>2. Holds(s2, TakesProfit(s2, 3, p))
      BY <1>1, <3>1, TakesProfitHolds
    <3>3. Sound(s2) => Sound(TakesProfit(s2, 3, p))
      BY <1>1, <3>1, TakesProfitSound
    <3>4. QED
      BY <2>3, <3>2, <3>3
  <2>5. QED
    BY <1>2, <2>1, <2>2, <2>3, <2>4 DEF Holds, s0, s1, s2
<1> HIDE DEF step
<1>5. Open(keeps) /\ keeps.rl = b.rl /\ StillSound(keeps) /\ keeps.pos = step.pos
  <2> DEFINE worth == step.pos.size * p
  <2>1. step \in Books /\ step.pos \in Positions /\ step.rl = b.rl
    BY <1>2, <1>4 DEF Holds, Open
  <2>2. worth \in Nat
    <3>1. step.pos.size \in Nat /\ p \in Nat
      BY <1>1, <2>1, PricesPositive DEF Positions
    <3>2. QED
      BY <3>1
  <2>3. keeps = [step EXCEPT !.eq = step.eq + worth, !.phantom = step.phantom + worth]
    OBVIOUS
  <2> HIDE DEF worth, keeps
  <2>4. keeps = [eq |-> step.eq + worth, rl |-> step.rl, pos |-> step.pos,
                 lots |-> step.lots, cash |-> step.cash, fees |-> step.fees,
                 trades |-> step.trades, phantom |-> step.phantom + worth]
    BY <2>1, <2>3 DEF Books
  <2>5. /\ step.eq \in Int /\ step.rl \in Nat /\ step.lots \in Int /\ step.cash \in Int
        /\ step.fees \in Nat /\ step.trades \in Nat /\ step.phantom \in Nat
    BY <2>1 DEF Books
  <2>6. keeps \in Books
    <3>1. step.eq + worth \in Int /\ step.phantom + worth \in Nat
      BY <2>2, <2>5
    <3>2. QED
      BY <2>1, <2>4, <2>5, <3>1 DEF Books
  <2>7. Open(keeps) /\ keeps.pos = step.pos
    BY <2>1, <2>4, <2>6 DEF Open
  <2>8. ASSUME Sound(step) PROVE Sound(keeps)
    <3>1. keeps.lots = step.lots /\ keeps.trades = step.trades
      BY <2>4
    <3>2. Gap(keeps) = Gap(step)
      BY <2>2, <2>4, <2>5 DEF Gap, Gross
    <3>3. Off(keeps) = Off(step)
      BY <2>7, <3>1 DEF Off
    <3>4. Agrees(step) => Agrees(keeps)
      BY <3>1, <3>2, <3>3 DEF Agrees
    <3>5. QED
      BY <2>7, <2>8, <3>1, <3>3, <3>4 DEF Sound
  <2>9. keeps.rl = b.rl
    BY <2>1, <2>4
  <2>10. QED
    BY <1>4, <2>7, <2>8, <2>9
<1> HIDE DEF keeps
<1>6. /\ OneLevel(b) => OneLevel(step) /\ OneLevel(keeps)
      /\ p <= step.pos.peak /\ p <= keeps.pos.peak
  <2>1. b.pos # None /\ step.pos.adds = b.pos.adds /\ step.pos.peak = top.pos.peak
    BY <1>1, <1>2, <1>4, V25Assumption DEF Holds
  <2>2. QED
    BY <1>2, <1>5, <2>1 DEF OneLevel
<1>7. CASE HardStop(top.pos, p)
  <2>1. p <= b.pos.avg
    <3>1. top.pos.avg = b.pos.avg /\ b.pos.avg \in Nat /\ p \in Nat
      BY <1>1, <1>2, PricesPositive DEF Positions
    <3>2. Loses(top.pos, p, 18) \/ Loses(top.pos, p, 12)
      BY <1>7 DEF HardStop
    <3>3. QED
      BY <3>1, <3>2 DEF Loses
  <2> DEFINE c == Closes(top, p)
  <2>2. c \in Books /\ c.pos = None /\ c.rl = b.rl /\ StillSound(c)
    BY <1>1, <1>2, ClosesBook, ClosesSound
  <2>3. Managed(b, bar) = [c EXCEPT !.rl = c.rl + 1]
    BY <1>3, <1>7
  <2> HIDE DEF c
  <2>4. c.rl + 1 \in Nat
    BY <1>1, <2>2
  <2>5. QED
    BY <2>1, <2>2, <2>3, <2>4, Recounted DEF OneLevel
<1>8. CASE ~HardStop(top.pos, p) /\ ~Trails(step.pos, p)
  <2>1. Open(step) /\ step.rl = b.rl
    BY <1>2, <1>4 DEF Holds
  <2>2. /\ Open(Adds(step, bar)) /\ Adds(step, bar).rl = step.rl
        /\ p <= step.pos.peak /\ OneLevel(step) => OneLevel(Adds(step, bar))
    BY <2>1, AddsOpen
  <2>3. QED
    BY <1>3, <1>4, <1>6, <1>8, <2>1, <2>2, AddsSound
<1>9. CASE ~HardStop(top.pos, p) /\ Trails(step.pos, p) /\ p > step.pos.avg
  <2> DEFINE c == Closes(step, p)
  <2>1. c \in Books /\ c.pos = None /\ StillSound(c)
    BY <1>1, <1>4, ClosesBook, ClosesSound DEF Holds
  <2>2. Managed(b, bar) = [c EXCEPT !.rl = 0]
    BY <1>3, <1>9
  <2> HIDE DEF c
  <2>3. p > b.pos.avg
    BY <1>2, <1>4, <1>9 DEF Holds
  <2>4. QED
    BY <2>1, <2>2, <2>3, Recounted DEF OneLevel
<1>10. CASE ~HardStop(top.pos, p) /\ Trails(step.pos, p) /\ ~(p > step.pos.avg)
  <2>1. /\ Open(Adds(keeps, bar)) /\ Adds(keeps, bar).rl = keeps.rl
        /\ p <= keeps.pos.peak /\ OneLevel(keeps) => OneLevel(Adds(keeps, bar))
    BY <1>5, AddsOpen
  <2>2. QED
    BY <1>3, <1>5, <1>6, <1>10, <2>1, AddsSound
<1>11. QED
    BY <1>7, <1>8, <1>9, <1>10

\* The tier of a bar is a number of thousandths, or 0.
LEMMA TierType == \A bar \in Bars : bar.tier \in Nat
<1>1. Tiers \cup {0} \subseteq Nat
    BY V25Assumption
<1>2. QED
    BY <1>1 DEF Bars

LEMMA OpensOpen ==
    ASSUME NEW b \in Books, NEW bar \in Bars, NEW wait \in Nat, Enters(b, wait, bar)
    PROVE  /\ Open(Opens(b, bar)) /\ Opens(b, bar).rl = b.rl
           /\ Sound(b) => Sound(Opens(b, bar))
           /\ OneLevel(Opens(b, bar))
<1> DEFINE p == bar.close
           base == (b.eq * bar.tier) \div 1000
           size == base \div p
           f == Filled(b, Lots(size), p)
           po == [avg |-> p, initial |-> size, size |-> size, base |-> base,
                  peak |-> p, adds |-> 0, tp |-> 0, ss |-> FALSE, dom |-> FALSE]
<1>1. p \in Prices /\ p \in Nat /\ p > 0 /\ b.eq \in Int /\ bar.tier \in Nat
  <2>1. p \in Prices
    BY DEF Bars
  <2>2. bar.tier \in Nat
    BY TierType
  <2>3. b.eq \in Int
    BY DEF Books
  <2>4. QED
    BY <2>1, <2>2, <2>3, PricesPositive
<1>2. base \in Int
  <2>1. b.eq * bar.tier \in Int
    BY <1>1
  <2>2. QED
    BY <2>1
<1>3. Lots(size) > 0
    BY DEF Enters
<1>4. Opens(b, bar) = [f EXCEPT !.pos = po, !.eq = f.eq - base]
    BY DEF Opens
<1> HIDE DEF base, p
<1>5. size \in Int
    BY <1>1, <1>2
<1>6. size \in Nat \ {0} /\ base \in Nat
  <2>1. size > 0
    <3> HIDE DEF size
    <3> DEFINE half == Lot \div 2
               sum == size + half
    <3>1. half \in Nat /\ half < Lot /\ Lot \in Nat \ {0}
      BY V25Assumption
    <3>2. sum \div Lot > 0
      BY <1>3 DEF Lots
    <3> HIDE DEF half
    <3>3. sum >= Lot
      <4> sum \in Int
        BY <1>5, <3>1
      <4> HIDE DEF sum
      <4>1. QED
        BY <3>1, <3>2
    <3>4. QED
      BY <1>5, <3>1, <3>3
  <2>2. base >= 0
    BY <1>1, <1>2, <2>1
  <2>3. QED
    BY <1>2, <1>5, <2>1, <2>2
<1> HIDE DEF size
<1>7. /\ f \in Books /\ f.rl = b.rl /\ f.eq = b.eq
      /\ f.lots = b.lots + Lots(size) /\ Gross(f) = Gross(b) - Lots(size) * Lot * p
      /\ f.trades = b.trades + 1
  <2>1. Lots(size) \in Int
    BY <1>6, LotsNat
  <2>2. QED
    BY <1>1, <2>1, FilledBook
<1>8. po \in Positions
    BY <1>1, <1>6 DEF Positions
<1>9. /\ po.size = size /\ TradesOf(po) = 1 /\ po.adds = 0
      /\ 100 * po.size >= po.initial * Left(po)
    BY <1>6 DEF TradesOf, Left
<1> HIDE DEF f, po
<1>10. f.eq - base \in Int
    BY <1>2, <1>7 DEF Books
<1>11. [f EXCEPT !.pos = po, !.eq = f.eq - base] = With(f, f.eq - base, po)
  <2> DEFINE e == f.eq - base
             g == [f EXCEPT !.pos = po]
  <2>1. [f EXCEPT !.pos = po, !.eq = e] = [g EXCEPT !.eq = e]
    BY Zenon
  <2> HIDE DEF e
  <2>2. g = [eq |-> f.eq, rl |-> f.rl, pos |-> po, lots |-> f.lots, cash |-> f.cash,
             fees |-> f.fees, trades |-> f.trades, phantom |-> f.phantom]
    BY <1>7 DEF Books
  <2> HIDE DEF g
  <2>3. [g EXCEPT !.eq = e] = With(f, e, po)
    BY <2>2 DEF With
  <2>4. QED
    BY <2>1, <2>3 DEF e, g
<1> DEFINE c == Opens(b, bar)
<1>12. Open(c) /\ c.rl = b.rl /\ c.eq = b.eq - base /\ c.pos = po
    BY <1>4, <1>7, <1>8, <1>10, <1>11, WithBook DEF Open
<1>13. /\ c.lots = b.lots + Lots(size)
       /\ Gross(c) = Gross(b) - Lots(size) * Lot * p /\ c.trades = b.trades + 1
    BY <1>4, <1>7, <1>11 DEF With, Gross
<1> HIDE DEF c
<1>14. ASSUME Sound(b) PROVE Sound(c)
  <2>1. b.pos = None /\ b.lots = 0 /\ c.pos # None /\ c \in Books
    BY <1>12, <1>14, OpenTypes DEF Enters, Sound, Open
  <2>2. OneOrder(b, c, p)
    <3>1. c.pos.size = (IF b.pos = None THEN 0 ELSE b.pos.size) + base \div p
      BY <1>6, <1>12, <1>9, <2>1 DEF size
    <3>2. QED
      BY <1>1, <1>6, <1>12, <1>13, <2>1, <3>1, PurchaseIsOneOrder DEF size
  <2>3. PricesBounded => Agrees(c)
    BY <1>1, <1>14, <2>1, <2>2, OrderAgrees DEF Sound
  <2>4. PICK e \in Int : -Lot <= 2 * e /\ 2 * e <= Lot /\ Off(c) = Off(b) + e
    BY <2>2 DEF OneOrder
  <2>5. Off(b) = 0 /\ Lot \in Nat
    BY <2>1, V25Assumption DEF Off
  <2>6. Near(c.pos, Off(c))
    BY <1>12, <1>9, <2>4, <2>5 DEF Near
  <2>7. QED
    BY <2>1, <2>3, <2>6 DEF Sound
<1>15. OneLevel(c)
    BY <1>9, <1>12 DEF OneLevel
<1>16. QED
    BY <1>12, <1>14, <1>15 DEF c

-----------------------------------------------------------------------------
(* Losing exits and pauses.                                                *)
PauseInv ==
    /\ TypeOK
    /\ pos # None => rl < LossLimit
    /\ \E k \in Nat : losing = k * LossLimit + rl
    /\ pos = None /\ rl = 0 /\ losing > 0 => quiet + cd >= LossPause
    /\ PauseEnforced

LEMMA Remainder ==
    ASSUME NEW k \in Nat, NEW m \in Nat \ {0}, NEW r \in Nat, r < m,
           (k * m + r) % m = 0
    PROVE  r = 0
<1> DEFINE x == k * m + r
           q == x \div m
<1>1. x \in Nat /\ q \in Nat /\ x = m * q + (x % m)
  <2>1. k * m \in Nat
    OBVIOUS
  <2>2. x \in Nat
    BY <2>1
  <2> HIDE DEF x
  <2>3. QED
    BY <2>2
<1>2. k * m + r = m * q
    BY <1>1
<1> HIDE DEF x, q
<1>3. m * q = q * m
    BY <1>1
<1>4. r = (q - k) * m
    BY <1>1, <1>2, <1>3
<1>5. ASSUME q - k >= 1 PROVE (q - k) * m >= m
    BY <1>1, <1>5
<1>6. ASSUME q - k <= -1 PROVE (q - k) * m <= -m
    BY <1>1, <1>6
<1>7. QED
    BY <1>1, <1>4, <1>5, <1>6

LEMMA PauseInvInit == Init => PauseInv
<1> SUFFICES ASSUME Init PROVE PauseInv
    OBVIOUS
<1>1. entered \in BOOLEAN
    BY Zenon DEF Init
<1>2. TypeOK
    BY <1>1, V25Assumption DEF Init, TypeOK
<1>3. 0 \in Nat /\ losing = 0 * LossLimit + rl
    BY V25Assumption DEF Init
<1>4. PauseEnforced
    BY DEF Init, PauseEnforced
<1>5. pos = None /\ losing = 0
    BY DEF Init
<1>6. \E k \in Nat : losing = k * LossLimit + rl
    BY <1>3
<1>7. ~(losing > 0)
    BY <1>5
<1>8. QED
    BY <1>2, <1>4, <1>5, <1>6, <1>7, Zenon DEF PauseInv

\* What a bar does to the position, the counter and the cooldown: the cases
\* the invariants tell apart.  b is the book once the position was managed.
Outcome(bar, b, wait) ==
    /\ wait = IF cd > 0 THEN cd - 1 ELSE 0
    /\ \/ pos = None /\ b.pos = None /\ b.rl = rl /\ losing' = losing
          /\ quiet' = (IF quiet < LossPause THEN quiet + 1 ELSE quiet)
       \/ pos # None /\ b.pos = None /\ b.rl = rl + 1
          /\ losing' = losing + 1 /\ quiet' = 0
       \/ pos # None /\ b.pos = None /\ b.rl = 0
          /\ losing' = 0 /\ quiet' = 0
       \/ pos # None /\ b.pos # None /\ b.rl = rl /\ losing' = losing
          /\ quiet' = (IF quiet < LossPause THEN quiet + 1 ELSE quiet)
    /\ \/ /\ Pauses(b, wait) /\ rl' = 0 /\ cd' = LossPause
          /\ eq' = b.eq /\ pos' = b.pos
          /\ lots' = b.lots /\ cash' = b.cash /\ fees' = b.fees
          /\ trades' = b.trades /\ phantom' = b.phantom /\ entered' = FALSE
       \/ /\ Enters(b, wait, bar) /\ rl' = b.rl /\ cd' = EntryPause
          /\ eq' = Opens(b, bar).eq /\ pos' = Opens(b, bar).pos
          /\ lots' = Opens(b, bar).lots /\ cash' = Opens(b, bar).cash
          /\ fees' = Opens(b, bar).fees
          /\ trades' = Opens(b, bar).trades /\ phantom' = Opens(b, bar).phantom
          /\ entered' = TRUE
       \/ /\ ~Pauses(b, wait) /\ rl' = b.rl /\ cd' = wait
          /\ eq' = b.eq /\ pos' = b.pos
          /\ lots' = b.lots /\ cash' = b.cash /\ fees' = b.fees
          /\ trades' = b.trades /\ phantom' = b.phantom /\ entered' = FALSE

LEMMA BarCases ==
    ASSUME TypeOK, NEW bar \in Bars, OnBar(bar)
    PROVE  \E b \in Books, wait \in Nat :
             /\ Outcome(bar, b, wait)
             /\ Sound(Book) => Sound(b)
             /\ OneLevel(Book) => OneLevel(b)
<1> DEFINE wait == IF cd > 0 THEN cd - 1 ELSE 0
           b == IF pos = None THEN Book ELSE Managed(Book, bar)
           end == IF Enters(b, wait, bar) THEN Opens(b, bar) ELSE b
<1>1. wait \in Nat
    BY V25Assumption DEF TypeOK
<1>2. Book \in Books /\ Book.pos = pos /\ Book.rl = rl
  <2>1. /\ eq \in Int /\ rl \in Nat /\ pos \in Positions \cup {None}
        /\ lots \in Int /\ cash \in Int /\ fees \in Nat /\ trades \in Nat
        /\ phantom \in Nat
    BY V25Assumption DEF TypeOK
  <2>2. QED
    BY <2>1 DEF Book, Books
<1>3. /\ eq' = end.eq /\ pos' = end.pos
      /\ rl' = IF Pauses(b, wait) THEN 0 ELSE end.rl
      /\ cd' = IF Pauses(b, wait) THEN LossPause
               ELSE IF Enters(b, wait, bar) THEN EntryPause ELSE wait
      /\ lots' = end.lots /\ cash' = end.cash /\ fees' = end.fees
      /\ trades' = end.trades /\ phantom' = end.phantom
      /\ entered' = Enters(b, wait, bar)
    BY Zenon DEF OnBar
<1>4. /\ losing' = IF ~(pos # None /\ b.pos = None) THEN losing
                   ELSE IF bar.close <= pos.avg THEN losing + 1 ELSE 0
      /\ quiet' = IF pos # None /\ b.pos = None THEN 0
                  ELSE IF quiet < LossPause THEN quiet + 1 ELSE quiet
    BY Zenon DEF OnBar
<1>5. ASSUME pos # None
      PROVE  /\ \/ /\ b \in Books /\ b.pos = None /\ b.rl = rl + 1
                   /\ bar.close <= pos.avg
                \/ /\ b \in Books /\ b.pos = None /\ b.rl = 0
                   /\ bar.close > pos.avg
                \/ b \in Books /\ b.pos # None /\ b.rl = rl
             /\ Sound(Book) => Sound(b)
             /\ OneLevel(Book) => OneLevel(b)
  <2>1. Open(Book)
    BY <1>2, <1>5 DEF Open, TypeOK
  <2>2. b = Managed(Book, bar)
    BY <1>5
  <2> HIDE DEF b
  <2>3. QED
    BY <1>2, <2>1, <2>2, ManagedCases, V25Assumption DEF Open
<1>6. pos = None => b = Book
    OBVIOUS
<1> HIDE DEF b, wait
<1>7. b \in Books
    BY <1>2, <1>5, <1>6
<1>8. \/ pos = None /\ b.pos = None /\ b.rl = rl /\ losing' = losing
         /\ quiet' = (IF quiet < LossPause THEN quiet + 1 ELSE quiet)
      \/ pos # None /\ b.pos = None /\ b.rl = rl + 1
         /\ losing' = losing + 1 /\ quiet' = 0
      \/ pos # None /\ b.pos = None /\ b.rl = 0
         /\ losing' = 0 /\ quiet' = 0
      \/ pos # None /\ b.pos # None /\ b.rl = rl /\ losing' = losing
         /\ quiet' = (IF quiet < LossPause THEN quiet + 1 ELSE quiet)
  <2>1. bar.close \in Nat /\ (pos # None => pos.avg \in Nat)
    BY PricesPositive DEF Bars, TypeOK, Positions
  <2>2. QED
    BY <1>2, <1>4, <1>5, <1>6, <2>1
<1>9. Enters(b, wait, bar) => ~Pauses(b, wait) /\ Opens(b, bar).rl = b.rl
    BY <1>1, <1>7, OpensOpen DEF Enters
<1>10. \/ /\ Pauses(b, wait) /\ rl' = 0 /\ cd' = LossPause
          /\ eq' = b.eq /\ pos' = b.pos
          /\ lots' = b.lots /\ cash' = b.cash /\ fees' = b.fees
          /\ trades' = b.trades /\ phantom' = b.phantom /\ entered' = FALSE
       \/ /\ Enters(b, wait, bar) /\ rl' = b.rl /\ cd' = EntryPause
          /\ eq' = Opens(b, bar).eq /\ pos' = Opens(b, bar).pos
          /\ lots' = Opens(b, bar).lots /\ cash' = Opens(b, bar).cash
          /\ fees' = Opens(b, bar).fees
          /\ trades' = Opens(b, bar).trades /\ phantom' = Opens(b, bar).phantom
          /\ entered' = TRUE
       \/ /\ ~Pauses(b, wait) /\ rl' = b.rl /\ cd' = wait
          /\ eq' = b.eq /\ pos' = b.pos
          /\ lots' = b.lots /\ cash' = b.cash /\ fees' = b.fees
          /\ trades' = b.trades /\ phantom' = b.phantom /\ entered' = FALSE
  <2>1. CASE Enters(b, wait, bar)
    <3>1. end = Opens(b, bar) /\ ~Pauses(b, wait)
      BY <1>9, <2>1
    <3> HIDE DEF end
    <3>2. entered' = TRUE
      BY <1>3, <2>1, Zenon
    <3>3. QED
      BY <1>3, <1>9, <2>1, <3>1, <3>2, Zenon
  <2>2. CASE ~Enters(b, wait, bar)
    <3>1. end = b
      BY <2>2
    <3>2. entered' = FALSE
      <4>1. entered' = Enters(b, wait, bar)
        BY <1>3
      <4>2. Enters(b, wait, bar) \in BOOLEAN
        BY Zenon DEF Enters
      <4>3. QED
        BY <2>2, <4>1, <4>2, Zenon
    <3> HIDE DEF end
    <3>3. QED
      BY <1>3, <2>2, <3>1, <3>2, Zenon
  <2>3. QED
    BY <2>1, <2>2
<1>11. wait = IF cd > 0 THEN cd - 1 ELSE 0
    BY DEF wait
<1>12. /\ Sound(Book) => Sound(b)
       /\ OneLevel(Book) => OneLevel(b)
    BY <1>5, <1>6
<1>13. Outcome(bar, b, wait)
    BY <1>8, <1>10, <1>11, Zenon DEF Outcome
<1>14. QED
    BY <1>1, <1>7, <1>12, <1>13, Zenon

LEMMA PauseInvStep == PauseInv /\ [Next]_vars => PauseInv'
<1> SUFFICES ASSUME PauseInv, [Next]_vars PROVE PauseInv'
    OBVIOUS
<1>1. CASE UNCHANGED vars
  <2>1. /\ eq' = eq /\ rl' = rl /\ cd' = cd /\ pos' = pos /\ last' = last
        /\ lots' = lots /\ cash' = cash /\ fees' = fees /\ trades' = trades
        /\ phantom' = phantom
        /\ losing' = losing /\ quiet' = quiet /\ entered' = entered /\ bars' = bars
    BY <1>1 DEF vars, account, history
  <2>2. QED
    BY <2>1, Zenon DEF PauseInv, TypeOK, PauseEnforced
<1>2. CASE Next
  <2>1. PICK bar \in Bars : OnBar(bar)
    BY <1>2 DEF Next
  <2>2. TypeOK /\ LossLimit \in Nat \ {0} /\ LossPause \in Nat \ {0} /\ EntryPause \in Nat \ {0}
    BY V25Assumption DEF PauseInv
  <2>3. PICK b \in Books, wait \in Nat : Outcome(bar, b, wait)
    BY <2>1, <2>2, BarCases
  <2> USE DEF Outcome
  <2> DEFINE exited == b.pos = None
             paused == Pauses(b, wait)
             opens == Enters(b, wait, bar)
  <2>4. last' = bar.close /\ bars' = bars + 1 /\ bars < MaxBars
    BY <2>1 DEF OnBar
  <2>5. /\ (paused <=> exited /\ wait = 0 /\ b.rl >= LossLimit)
        /\ (opens => exited /\ wait = 0 /\ b.rl < LossLimit)
        /\ (opens => Opens(b, bar) \in Books /\ Opens(b, bar).pos \in Positions)
    <3>1. paused <=> exited /\ wait = 0 /\ b.rl >= LossLimit
      BY DEF Pauses
    <3>2. b.rl \in Nat
      BY DEF Books
    <3>3. opens => exited /\ wait = 0 /\ ~paused
      BY DEF Enters
    <3>4. opens => Opens(b, bar) \in Books /\ Opens(b, bar).pos \in Positions
      BY OpensOpen DEF Open
    <3>5. QED
      BY <2>2, <3>1, <3>2, <3>3, <3>4
  <2>6. /\ rl \in 0 .. LossLimit /\ cd \in 0 .. EntryPause + LossPause
        /\ losing \in Nat /\ quiet \in 0 .. LossPause
        /\ (pos # None => rl < LossLimit)
        /\ (pos = None /\ rl = 0 /\ losing > 0 => quiet + cd >= LossPause)
    BY DEF PauseInv, TypeOK
  <2> HIDE DEF paused, opens, exited
  <2>7. /\ rl' \in 0 .. LossLimit /\ cd' \in 0 .. EntryPause + LossPause
        /\ losing' \in Nat /\ quiet' \in 0 .. LossPause
    BY <2>2, <2>3, <2>5, <2>6 DEF paused, opens, exited
  <2>8. TypeOK'
    <3>1. eq' \in Int /\ cash' \in Int /\ lots' \in Int /\ trades' \in Nat
      BY <2>3, <2>5 DEF Books, opens
    <3>2. pos' \in Positions \cup {None}
      BY <2>3, <2>5 DEF Books, opens
    <3>3. entered' \in BOOLEAN /\ fees' \in Nat /\ phantom' \in Nat
      <4>1. entered' \in BOOLEAN
        BY <2>3, Zenon
      <4>2. fees' \in Nat /\ phantom' \in Nat
        BY <2>3, <2>5 DEF Books, opens
      <4>3. QED
        BY <4>1, <4>2
    <3>4. last' \in Prices /\ bars' \in 0 .. MaxBars
      BY <2>2, <2>4, V25Assumption DEF Bars, TypeOK
    <3>5. QED
      BY <2>7, <3>1, <3>2, <3>3, <3>4, Zenon DEF TypeOK
  <2>9. pos' # None => rl' < LossLimit
    BY <2>2, <2>3, <2>5, <2>6 DEF opens, exited
  <2>10. \E k \in Nat : losing' = k * LossLimit + rl'
    <3>1. PICK k \in Nat : losing = k * LossLimit + rl
      BY DEF PauseInv
    <3>2. PICK j \in Nat : losing' = j * LossLimit + b.rl
      <4>1. losing' = k * LossLimit + b.rl \/ losing' = 0 * LossLimit + b.rl
        BY <2>2, <2>3, <2>6, <3>1
      <4>2. QED
        BY <4>1
    <3>3. b.rl <= LossLimit
      BY <2>2, <2>3, <2>6
    <3>4. CASE rl' = b.rl
      BY <3>2, <3>4
    <3>5. CASE paused /\ rl' = 0
      <4>1. b.rl = LossLimit
        BY <2>2, <2>5, <3>3, <3>5 DEF Books
      <4>2. losing' = (j + 1) * LossLimit + rl'
        BY <2>2, <3>2, <3>5, <4>1
      <4>3. QED
        BY <4>2
    <3>6. QED
      BY <2>3, <3>4, <3>5 DEF paused
  <2>11. pos' = None /\ rl' = 0 /\ losing' > 0 => quiet' + cd' >= LossPause
    <3>1. CASE opens /\ pos' = Opens(b, bar).pos
      <4>1. pos' \in Positions
        BY <2>5, <3>1
      <4>2. pos' # None
        BY <4>1, V25Assumption, Zenon
      <4>3. QED
        BY <4>2
    <3>2. CASE paused /\ cd' = LossPause
      <4>1. ASSUME NEW q \in Nat, NEW l \in Int PROVE q + l >= l
        BY <4>1
      <4>2. quiet' \in Nat /\ LossPause \in Int
        BY <2>2, <2>7
      <4>3. quiet' + LossPause >= LossPause
        BY <4>1, <4>2
      <4>4. QED
        BY <3>2, <4>3, Zenon
    <3>3. CASE ~paused /\ rl' = b.rl /\ cd' = wait /\ pos' = b.pos
      <4>1. wait = IF cd > 0 THEN cd - 1 ELSE 0
        BY <2>3
      <4>2. \/ pos = None /\ b.rl = rl /\ losing' = losing
               /\ quiet' = (IF quiet < LossPause THEN quiet + 1 ELSE quiet)
            \/ b.rl = rl + 1
            \/ losing' = 0
            \/ b.pos # None
        BY <2>3
      <4>3. QED
        BY <2>2, <2>6, <3>3, <4>1, <4>2
    <3>4. QED
      BY <2>3, <3>1, <3>2, <3>3 DEF paused, opens
  <2>12. PauseEnforced'
    <3> SUFFICES ASSUME entered', losing' > 0, losing' % LossLimit = 0
                 PROVE  quiet' >= LossPause
      BY DEF PauseEnforced
    <3>1. opens /\ rl' = b.rl
      BY <2>3, Zenon DEF opens
    <3>2. rl' < LossLimit /\ b.rl \in Nat
      BY <2>5, <3>1 DEF Books
    <3>3. rl' = 0
      BY <2>2, <2>10, <3>1, <3>2, Remainder
    <3>4. QED
      BY <2>2, <2>3, <2>5, <2>6, <3>1, <3>3 DEF exited
  <2>13. QED
    BY <2>8, <2>9, <2>10, <2>11, <2>12, Zenon DEF PauseInv
<1>3. QED
    BY <1>1, <1>2

LEMMA PauseInvHolds == Spec => []PauseInv
<1>1. Init => PauseInv
    BY PauseInvInit
<1>2. PauseInv /\ [Next]_vars => PauseInv'
    BY PauseInvStep
<1>3. QED
    BY <1>1, <1>2, PTL DEF Spec

-----------------------------------------------------------------------------
\* The state of the strategy stays in its types, whatever the closes do: in
\* particular no stop, profit step or entry leaves a position of no size, and
\* the counter of losses never passes its limit.
THEOREM V25TypeCorrect == Spec => []TypeOK
<1>1. PauseInv => TypeOK
    BY DEF PauseInv
<1>2. QED
    BY <1>1, PauseInvHolds, PTL

\* "Consecutive-loss cooldown": however the exits and the entry cooldown fall,
\* no position is opened for LossPause bars after a run of LossLimit losses.
THEOREM PausesKept == Spec => []PauseEnforced
<1>1. PauseInv => PauseEnforced
    BY DEF PauseInv
<1>2. QED
    BY <1>1, PauseInvHolds, PTL

-----------------------------------------------------------------------------
(* Position, account and equity.                                           *)
AccountInv == TypeOK /\ Sound(Book)

LEMMA BookIsABook ==
    ASSUME TypeOK
    PROVE  /\ Book \in Books /\ Book.pos = pos /\ Book.lots = lots
           /\ pos # None => Open(Book)
<1>1. /\ eq \in Int /\ rl \in Nat /\ pos \in Positions \cup {None}
      /\ lots \in Int /\ cash \in Int /\ fees \in Nat /\ trades \in Nat
      /\ phantom \in Nat
    BY V25Assumption DEF TypeOK
<1>2. QED
    BY <1>1 DEF Book, Books, Open

\* The account's books agree as long as what they are made of does.
LEMMA SameBook ==
    ASSUME NEW b, NEW c, Sound(b), c.eq = b.eq, c.pos = b.pos, c.lots = b.lots,
           c.cash = b.cash, c.trades = b.trades, c.fees = b.fees, c.phantom = b.phantom
    PROVE  Sound(c)
BY Zenon DEF Sound, Agrees, Near, Off, Gap, Gross

LEMMA AccountInvInit == Init => Sound(Book)
<1> SUFFICES ASSUME Init PROVE Sound(Book)
    OBVIOUS
<1>1. /\ Book.pos = None /\ Book.lots = 0 /\ Book.eq = Capital
      /\ Book.cash = Capital /\ Book.fees = 0 /\ Book.phantom = 0
      /\ Book.trades = 0
    BY DEF Init, Book
<1>2. Off(Book) = 0 /\ Gap(Book) = 0
    BY <1>1, V25Assumption DEF Off, Gap, Gross
<1>3. PricesBounded => Slack \in Nat /\ Max(Prices) \in Nat
    BY HighestPrice, V25Assumption DEF Slack
<1>4. PricesBounded => Agrees(Book)
    BY <1>1, <1>2, <1>3 DEF Agrees
<1>5. QED
    BY <1>1, <1>4 DEF Sound

LEMMA AccountInvStep == AccountInv /\ [Next]_vars => Sound(Book)'
<1> SUFFICES ASSUME AccountInv, [Next]_vars PROVE Sound(Book')
    BY DEF Sound, Agrees, Near, Off, Gap, Gross, Slack
<1>1. CASE UNCHANGED vars
  <2>1. Book' = Book
    BY <1>1 DEF vars, account, history, Book
  <2>2. QED
    BY <2>1 DEF AccountInv
<1>2. CASE Next
  <2>1. PICK bar \in Bars : OnBar(bar)
    BY <1>2 DEF Next
  <2>2. PICK b \in Books, wait \in Nat : Outcome(bar, b, wait) /\ Sound(b)
    BY <2>1, BarCases DEF AccountInv
  <2>3. /\ Book'.eq = eq' /\ Book'.pos = pos' /\ Book'.lots = lots'
        /\ Book'.cash = cash' /\ Book'.fees = fees' /\ Book'.trades = trades'
        /\ Book'.phantom = phantom'
    BY DEF Book
  <2>4. CASE /\ Enters(b, wait, bar)
             /\ eq' = Opens(b, bar).eq /\ pos' = Opens(b, bar).pos
             /\ lots' = Opens(b, bar).lots /\ cash' = Opens(b, bar).cash
             /\ fees' = Opens(b, bar).fees
             /\ trades' = Opens(b, bar).trades /\ phantom' = Opens(b, bar).phantom
    <3>1. Sound(Opens(b, bar))
      BY <2>2, <2>4, OpensOpen
    <3>2. QED
      BY <2>3, <2>4, <3>1, SameBook
  <2>5. CASE /\ eq' = b.eq /\ pos' = b.pos /\ lots' = b.lots /\ cash' = b.cash
             /\ fees' = b.fees /\ trades' = b.trades /\ phantom' = b.phantom
    BY <2>2, <2>3, <2>5, SameBook
  <2>6. QED
    BY <2>2, <2>4, <2>5, Zenon DEF Outcome
<1>3. QED
    BY <1>1, <1>2

LEMMA AccountInvHolds == Spec => []AccountInv
<1>1. PauseInv => TypeOK
    BY DEF PauseInv
<1>2. Init => Sound(Book)
    BY AccountInvInit
<1>3. TypeOK /\ Sound(Book) /\ [Next]_vars => Sound(Book)'
    BY AccountInvStep DEF AccountInv
<1>4. QED
    BY <1>1, <1>2, <1>3, PauseInvHolds, PTL DEF Spec, AccountInv

(* Whatever stops, profit steps and adds a position goes through, at       *)
(* whatever closes, and whatever the size precision: it is flat with the   *)
(* account, apart from it by half a lot for each of its trades, and never  *)
(* short if it began with 24 lots.                                         *)
THEOREM AccountTracksPosition == Spec => []AccountFollows
<1>1. AccountInv => AccountFollows
  <2> SUFFICES ASSUME AccountInv PROVE AccountFollows
    OBVIOUS
  <2>1. Book.pos = pos /\ Book.lots = lots /\ (pos # None => Open(Book))
    BY BookIsABook DEF AccountInv
  <2>2. pos = None => lots = 0
    BY <2>1 DEF AccountInv, Sound
  <2>3. ASSUME pos # None
        PROVE  /\ Large(pos) => lots >= 0
               /\ 2 * Distance(lots * Lot, pos.size) <= TradesOf(pos) * Lot
    <3> DEFINE off == Off(Book)
               n == TradesOf(pos)
    <3>1. /\ off \in Int /\ n \in Nat /\ Left(pos) \in 15 .. 100
          /\ pos.size \in Nat /\ pos.initial \in Nat /\ lots \in Int /\ Lot \in Nat
          /\ Lot > 0
      BY <2>1, <2>3, OpenTypes, V25Assumption DEF AccountInv, TypeOK
    <3>2. /\ off = pos.size - lots * Lot
          /\ -(n * Lot) <= 2 * off /\ 2 * off <= n * Lot
          /\ 100 * pos.size >= pos.initial * Left(pos)
      BY <2>1, <2>3 DEF AccountInv, Sound, Near, Off
    <3>3. n <= 9
      BY <2>1, <2>3 DEF TradesOf, Open, Positions
    <3> HIDE DEF off, n
    <3>4. lots * Lot \in Int /\ n * Lot \in Int /\ n * Lot <= 9 * Lot
      BY <3>1, <3>3
    <3>5. 2 * Distance(lots * Lot, pos.size) <= n * Lot
      BY <3>1, <3>2, <3>4 DEF Distance
    <3>6. ASSUME Large(pos) PROVE lots >= 0
      <4>1. pos.initial * Left(pos) >= pos.initial * 15
        BY <3>1
      <4>2. pos.initial * Left(pos) \in Int
        BY <3>1
      <4>3. 100 * pos.size >= 360 * Lot
        BY <3>1, <3>2, <3>6, <4>1, <4>2 DEF Large
      <4>4. lots * Lot > -Lot
        BY <3>1, <3>2, <3>4, <4>3
      <4>5. ASSUME lots <= -1 PROVE lots * Lot <= -Lot
        BY <3>1, <4>5
      <4>6. QED
        BY <3>1, <3>4, <4>4, <4>5
    <3>7. QED
      BY <3>5, <3>6 DEF n
  <2>4. QED
    BY <2>2, <2>3 DEF AccountFollows
<1>2. QED
    BY <1>1, AccountInvHolds, PTL

(* "equity tracker": for every fee and size precision, any number of bars  *)
(* and any set of prices that has a greatest one (no bound exists without  *)
(* it), equity and cash differ by the rounding of the trades, the          *)
(* commissions, and what trailing stops credited for positions they kept.  *)
THEOREM EquityTracksCash ==
    ASSUME PricesBounded PROVE Spec => []EquityIsCash
<1>1. AccountInv => EquityIsCash
  <2> DEFINE gross == cash + fees + phantom
  <2> SUFFICES ASSUME AccountInv, PricesBounded
               PROVE  Distance(eq, gross) <= trades * (Lot \div 2 + 1) * Max(Prices)
    BY DEF EquityIsCash
  <2>1. Book \in Books /\ Book.trades = trades /\ Gap(Book) = eq - gross
    BY BookIsABook DEF AccountInv, Book, Gap, Gross
  <2>2. Max(Prices) \in Nat /\ 0 \in 0 .. Max(Prices) /\ Lot \in Nat
    BY HighestPrice, V25Assumption
  <2>3. Off(Book) \in Int /\ trades \in Nat /\ eq \in Int /\ gross \in Int
    BY <2>1, <2>2 DEF Off, Books, Positions, AccountInv, TypeOK
  <2>4. Off(Book) * 0 = 0
    BY <2>3
  <2>5. /\ -(trades * Slack) <= Gap(Book) + Off(Book) * 0
        /\ Gap(Book) + Off(Book) * 0 <= trades * Slack
    BY <2>1, <2>2, Zenon DEF AccountInv, Sound, Agrees, Book
  <2>6. -(trades * Slack) <= eq - gross /\ eq - gross <= trades * Slack
    BY <2>1, <2>3, <2>4, <2>5
  <2>7. trades * Slack = trades * (Lot \div 2 + 1) * Max(Prices) /\ trades * Slack \in Int
    <3> DEFINE half == Lot \div 2
               top == Max(Prices)
    <3>1. half \in Nat /\ top \in Nat
      BY <2>2
    <3> HIDE DEF half, top
    <3>2. trades * (half * top + top) = trades * (half + 1) * top
      BY <2>3, <3>1
    <3>3. trades * (half * top + top) \in Int
      BY <2>3, <3>1
    <3>4. QED
      BY <3>2, <3>3 DEF Slack, half, top
  <2> HIDE DEF gross
  <2>8. QED
    BY <2>3, <2>6, <2>7 DEF Distance
<1>2. QED
    BY <1>1, AccountInvHolds, PTL

-----------------------------------------------------------------------------
(* The pyramid.                                                            *)
LevelInv == TypeOK /\ OneLevel(Book)

LEMMA LevelInvStep == LevelInv /\ [Next]_vars => OneLevel(Book)'
<1> SUFFICES ASSUME LevelInv, [Next]_vars PROVE OneLevel(Book')
    BY DEF OneLevel
<1>1. CASE UNCHANGED vars
  <2>1. Book' = Book
    BY <1>1 DEF vars, account, history, Book
  <2>2. QED
    BY <2>1 DEF LevelInv
<1>2. CASE Next
  <2>1. PICK bar \in Bars : OnBar(bar)
    BY <1>2 DEF Next
  <2>2. PICK b \in Books, wait \in Nat : Outcome(bar, b, wait) /\ OneLevel(b)
    BY <2>1, BarCases DEF LevelInv
  <2>3. Book'.pos = pos'
    BY DEF Book
  <2>4. CASE Enters(b, wait, bar) /\ pos' = Opens(b, bar).pos
    <3>1. OneLevel(Opens(b, bar))
      BY <2>2, <2>4, OpensOpen
    <3>2. QED
      BY <2>3, <2>4, <3>1 DEF OneLevel
  <2>5. CASE pos' = b.pos
    BY <2>2, <2>3, <2>5 DEF OneLevel
  <2>6. QED
    BY <2>2, <2>4, <2>5, Zenon DEF Outcome
<1>3. QED
    BY <1>1, <1>2

(* v25_trend.py:314 wants the close above the peak that :236 has just      *)
(* raised to it once the position has an addition: the docstring's "3      *)
(* levels" (:41) are one, at whatever prices.                              *)
OnePyramidLevel == pos # None => pos.adds <= 1

THEOREM PyramidStopsAtOne == Spec => []OnePyramidLevel
<1>1. PauseInv => TypeOK
    BY DEF PauseInv
<1>2. Init => OneLevel(Book)
    BY DEF Init, Book, OneLevel
<1>3. TypeOK /\ OneLevel(Book) /\ [Next]_vars => OneLevel(Book)'
    BY LevelInvStep DEF LevelInv
<1>4. OneLevel(Book) => OnePyramidLevel
    BY DEF OneLevel, OnePyramidLevel, Book
<1>5. QED
    BY <1>1, <1>2, <1>3, <1>4, PauseInvHolds, PTL DEF Spec

=============================================================================
