------------------------- MODULE SmaCrossoverProofs -------------------------
(***************************************************************************)
(* Proofs about SmaCrossover, for every pair of periods, every set of      *)
(* prices and every number of orders under way.  What the averages compute *)
(* stays closed: the position follows their reading whatever it is.        *)
(***************************************************************************)
EXTENDS SmaCrossover, SequenceTheorems, TLAPS

\* The latch is a reading of the closes held, once there are enough.
Latch ==
    /\ closes \in Seq(Prices) /\ Len(closes) <= SlowPeriod
    /\ prevAbove \in {"unset", "above", "below"}
    /\ ~Initialized(closes) => prevAbove = "unset"
    /\ Initialized(closes) => prevAbove \in Readings(closes)

\* What was below before is remembered, and nothing is before the first
\* relation.
History ==
    /\ prevAbove = "unset" => ~wasBelow
    /\ prevAbove = "below" => wasBelow

\* The lots that the crossings so far ask for.
Wanted == IF wasBelow /\ prevAbove = "above" THEN 1 ELSE 0

\* The position is what the crossings ask for, or it will be once the one
\* order under way is filled.
Follows ==
    ~late /\ ~refused =>
        \/ pending = <<>> /\ lots = Wanted
        \/ \E d \in {-1, 1} : pending = <<d>> /\ lots + d = Wanted

SmaInv ==
    /\ Latch
    /\ History
    /\ lots \in Nat /\ pending \in Seq(Int)
    /\ Follows

-----------------------------------------------------------------------------

LEMMA ReadingsAreTwo == ASSUME NEW s PROVE Readings(s) \subseteq {"above", "below"}
    BY DEF Readings

\* The averages hold at most SlowPeriod closes, and once they hold that many
\* they keep doing so.
LEMMA UpdatedHolds ==
    ASSUME closes \in Seq(Prices), Len(closes) <= SlowPeriod, NEW price \in Prices
    PROVE  /\ Updated(price) \in Seq(Prices)
           /\ Len(Updated(price)) <= SlowPeriod
           /\ Initialized(closes) => Initialized(Updated(price))
<1> DEFINE s == Append(closes, price)
<1>1. /\ s \in Seq(Prices) /\ Len(s) = Len(closes) + 1 /\ s # <<>>
      /\ SlowPeriod \in Nat /\ SlowPeriod > 0 /\ Len(closes) \in Nat
    BY SmaAssumption, AppendProperties
<1>2. Updated(price) = IF Len(s) > SlowPeriod THEN Tail(s) ELSE s
    BY DEF Updated
<1> HIDE DEF s
<1>3. Tail(s) \in Seq(Prices) /\ Len(Tail(s)) = Len(s) - 1
    BY <1>1, HeadTailProperties
<1>4. QED
    BY <1>1, <1>2, <1>3 DEF Initialized

\* A bar that comes in time found no order under way.
LEMMA BarInTime ==
    ASSUME SmaInv, NEW price \in Prices, OnBar(price), ~late', ~refused'
    PROVE  pending = <<>> /\ lots = Wanted /\ lots \in Nat
<1>1. late' = (late \/ pending # <<>>) /\ refused' = refused
    BY DEF OnBar
<1>2. ~late /\ pending = <<>> /\ ~refused
    BY <1>1, Zenon
<1>3. \A d \in {-1, 1} : pending # <<d>>
    BY <1>2
<1>4. QED
    BY <1>2, <1>3 DEF SmaInv, Follows

\* Before the averages have all their closes a bar changes the closes only.
LEMMA BarTooEarly ==
    ASSUME SmaInv, NEW price \in Prices, OnBar(price), ~Initialized(closes')
    PROVE  SmaInv'
<1>1. closes' = Updated(price) /\ UNCHANGED <<prevAbove, pending, wasBelow, lots, refused>>
    BY DEF OnBar
<1>2. closes' \in Seq(Prices) /\ Len(closes') <= SlowPeriod /\ ~Initialized(closes)
    BY <1>1, UpdatedHolds DEF SmaInv, Latch
<1>3. Latch' /\ History' /\ lots' \in Nat /\ pending' \in Seq(Int)
    BY <1>1, <1>2 DEF SmaInv, Latch, History, Initialized
<1>4. Follows'
  <2>1. Wanted' = Wanted
    BY <1>1 DEF Wanted
  <2>2. ~late' /\ ~refused' => pending' = <<>> /\ lots' = Wanted'
    BY <1>1, <2>1, BarInTime
  <2>3. QED
    BY <2>2, Zenon DEF Follows
<1>5. QED
    BY <1>3, <1>4 DEF SmaInv

\* A bar orders what brings the position to what the crossings ask for.
LEMMA BarSignals ==
    ASSUME SmaInv, NEW price \in Prices, OnBar(price), Initialized(closes')
    PROVE  SmaInv'
<1>1. PICK now \in Readings(closes') :
          /\ prevAbove' = now
          /\ pending' = pending \o Signal(now) /\ wasBelow' = (wasBelow \/ now = "below")
    BY DEF OnBar
<1>2. /\ closes' = Updated(price) /\ prevAbove' = now
      /\ pending' = pending \o Signal(now) /\ wasBelow' = (wasBelow \/ now = "below")
      /\ late' = (late \/ pending # <<>>) /\ lots' = lots /\ refused' = refused
    BY <1>1 DEF OnBar
<1>3. closes' \in Seq(Prices) /\ Len(closes') <= SlowPeriod
    BY <1>2, UpdatedHolds DEF SmaInv, Latch
<1>4. now \in {"above", "below"}
    BY ReadingsAreTwo
<1>5. prevAbove' \in Readings(closes')
    BY <1>2
<1>6. Latch'
    BY <1>2, <1>3, <1>4, <1>5 DEF Latch, Initialized
<1>7. History'
    BY <1>2, <1>4 DEF SmaInv, History
<1>8. Follows'
  <2> SUFFICES ASSUME ~late', ~refused' PROVE Follows'
    BY DEF Follows
  <2>1. pending = <<>> /\ lots = Wanted /\ lots \in Nat
    BY BarInTime
  <2>2. \/ Signal(now) = <<>> /\ lots = Wanted'
        \/ \E d \in {-1, 1} : Signal(now) = <<d>> /\ lots + d = Wanted'
    <3>1. Wanted' = IF (wasBelow \/ now = "below") /\ now = "above" THEN 1 ELSE 0
      BY <1>2 DEF Wanted
    <3>2. CASE prevAbove = "unset"
      BY <2>1, <3>1, <3>2 DEF SmaInv, History, Signal, Crossed, Wanted
    <3>3. CASE prevAbove = now
      BY <1>4, <2>1, <3>1, <3>3 DEF Signal, Crossed, Wanted
    <3>4. CASE prevAbove = "below" /\ now = "above"
      BY <2>1, <3>1, <3>4 DEF SmaInv, History, Signal, Crossed, Wanted
    <3>5. CASE prevAbove = "above" /\ now = "below"
      <4>1. Signal(now) = IF lots > 0 THEN <<-lots>> ELSE <<>>
        BY <3>5 DEF Signal, Crossed
      <4>2. lots = 1 \/ lots = 0
        BY <2>1 DEF Wanted
      <4>3. Wanted' = 0
        BY <3>1, <3>5
      <4>4. QED
        BY <4>1, <4>2, <4>3
    <3>6. QED
      BY <1>4, <3>2, <3>3, <3>4, <3>5 DEF SmaInv, Latch
  <2>3. pending' = Signal(now)
    BY <1>2, <2>1, <2>2
  <2>4. QED
    BY <1>2, <2>2, <2>3 DEF Follows
<1>9. pending' \in Seq(Int)
  <2>1. Signal(now) \in Seq(Int)
    BY DEF SmaInv, Signal
  <2>2. QED
    BY <1>2, <2>1, ConcatProperties DEF SmaInv
<1>10. QED
    BY <1>2, <1>6, <1>7, <1>8, <1>9 DEF SmaInv

LEMMA FillFollows == ASSUME SmaInv, Fill PROVE SmaInv'
<1>1. UNCHANGED <<closes, prevAbove, wasBelow, late, refused>>
    BY DEF Fill
<1>2. Latch' /\ History' /\ Wanted' = Wanted
    BY <1>1 DEF SmaInv, Latch, History, Wanted, Initialized
<1>3. ASSUME ~late, ~refused PROVE pending' = <<>> /\ lots' = Wanted
  <2>1. PICK d \in {-1, 1} : pending = <<d>> /\ lots + d = Wanted
    BY <1>3 DEF SmaInv, Follows, Fill
  <2>2. Head(pending) = d /\ Tail(pending) = <<>>
    BY <2>1
  <2>3. QED
    BY <2>1, <2>2 DEF Fill, Wanted
<1>4. lots' \in Nat /\ pending' \in Seq(Int)
  <2>1. Head(pending) \in Int /\ Tail(pending) \in Seq(Int)
    BY HeadTailProperties DEF SmaInv, Fill
  <2>2. QED
    BY <2>1 DEF SmaInv, Fill
<1>5. QED
    BY <1>1, <1>2, <1>3, <1>4 DEF SmaInv, Follows

LEMMA RefuseFollows == ASSUME SmaInv, Refuse PROVE SmaInv'
<1>1. UNCHANGED <<closes, prevAbove, lots, wasBelow, late>> /\ refused'
    BY DEF Refuse
<1>2. Latch' /\ History' /\ lots' \in Nat
    BY <1>1 DEF SmaInv, Latch, History, Initialized
<1>3. pending' \in Seq(Int)
    BY HeadTailProperties DEF SmaInv, Refuse
<1>4. QED
    BY <1>1, <1>2, <1>3 DEF SmaInv, Follows

LEMMA SmaStep == SmaInv /\ [Next]_vars => SmaInv'
<1> SUFFICES ASSUME SmaInv, [Next]_vars PROVE SmaInv'
    OBVIOUS
<1>1. CASE \E price \in Prices : OnBar(price)
    BY <1>1, BarTooEarly, BarSignals
<1>2. CASE Fill
    BY <1>2, FillFollows
<1>3. CASE Refuse
    BY <1>3, RefuseFollows
<1>4. CASE UNCHANGED vars
    BY <1>4 DEF vars, SmaInv, Latch, History, Follows, Wanted, Initialized
<1>5. QED
    BY <1>1, <1>2, <1>3, <1>4 DEF Next

(* sma_crossover.py:21: for every pair of periods and every sequence of    *)
(* closes, as long as each order was filled before the next bar the        *)
(* position is one lot exactly while the fast line is above, after the     *)
(* first time it was not; on equal lines either answer will do.            *)
THEOREM CrossingsAreFollowed == Spec => []FollowsCrossings
<1>1. Init => SmaInv
  <2> SUFFICES ASSUME Init PROVE SmaInv
    OBVIOUS
  <2>1. closes \in Seq(Prices) /\ pending \in Seq(Int) /\ Len(closes) = 0
    BY EmptySeq DEF Init
  <2>2. ~Initialized(closes) /\ SlowPeriod \in Nat
    BY <2>1, SmaAssumption DEF Initialized
  <2>3. QED
    BY <2>1, <2>2 DEF Init, SmaInv, Latch, History, Follows, Wanted
<1>2. SmaInv => FollowsCrossings
  <2> SUFFICES ASSUME SmaInv, ~late, ~refused, pending = <<>>
               PROVE  IF Initialized(closes)
                      THEN \E now \in Readings(closes) :
                              lots = IF wasBelow /\ now = "above" THEN 1 ELSE 0
                      ELSE lots = 0
    BY DEF FollowsCrossings
  <2>1. lots = Wanted
    BY DEF SmaInv, Follows
  <2>2. CASE Initialized(closes)
    <3>1. prevAbove \in Readings(closes)
      BY <2>2 DEF SmaInv, Latch
    <3>2. QED
      BY <2>1, <2>2, <3>1 DEF Wanted
  <2>3. CASE ~Initialized(closes)
    BY <2>1, <2>3 DEF SmaInv, Latch, Wanted
  <2>4. QED
    BY <2>2, <2>3
<1>3. QED
    BY <1>1, <1>2, SmaStep, PTL DEF Spec

=============================================================================
