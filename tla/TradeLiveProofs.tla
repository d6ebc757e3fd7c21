-------------------------- MODULE TradeLiveProofs ---------------------------
(***************************************************************************)
(* Proofs about Precision and TradeLive, for all requests, instruments and *)
(* average prices.                                                         *)
(***************************************************************************)
EXTENDS TradeLive, TLAPS

-----------------------------------------------------------------------------
(* Rounding.                                                               *)

\* What is floored is the largest multiple of the tick that is not beyond
\* the value.
LEMMA FloorFacts ==
    ASSUME NEW v \in Nat, NEW tick \in Nat, tick > 0
    PROVE  /\ FloorToTick(v, tick) \in Nat
           /\ FloorToTick(v, tick) <= v
           /\ v < FloorToTick(v, tick) + tick
<1> DEFINE k == v \div tick
           r == v % tick
<1>1. k \in Nat /\ r \in 0 .. tick - 1 /\ v = tick * k + r
    OBVIOUS
<1>2. FloorToTick(v, tick) = k * tick
    BY DEF FloorToTick
<1> HIDE DEF k, r
<1>3. k * tick = tick * k /\ k * tick \in Nat
    BY <1>1
<1>4. QED
    BY <1>1, <1>2, <1>3

\* The result is on the grid, for prices and quantities of either sign.
LEMMA FloorOnGrid ==
    ASSUME NEW v \in Int, NEW tick \in Nat, tick > 0
    PROVE  FloorToTick(v, tick) \in Int /\ FloorToTick(v, tick) % tick = 0
<1>1. ASSUME NEW k \in Int PROVE k * tick \in Int /\ (k * tick) % tick = 0
    BY <1>1
<1>2. CASE v >= 0
    BY <1>1, <1>2 DEF FloorToTick
<1>3. CASE ~(v >= 0)
  <2> DEFINE k == (-v) \div tick
  <2>1. k \in Int /\ FloorToTick(v, tick) = -(k * tick)
    BY <1>3 DEF FloorToTick
  <2> HIDE DEF k
  <2>2. -(k * tick) = (-k) * tick /\ -k \in Int
    BY <2>1
  <2>3. QED
    BY <2>1, <2>2, <1>1
<1>4. QED
    BY <1>2, <1>3

\* A price on the grid is left alone.
LEMMA FloorIdempotent ==
    ASSUME NEW v \in Nat, NEW tick \in Nat, tick > 0
    PROVE  FloorToTick(FloorToTick(v, tick), tick) = FloorToTick(v, tick)
<1> DEFINE f == FloorToTick(v, tick)
           k == f \div tick
<1>1. f \in Nat /\ f % tick = 0
    BY FloorFacts, FloorOnGrid
<1> HIDE DEF f
<1>2. k \in Nat /\ f = tick * k + (f % tick)
    BY <1>1
<1>3. FloorToTick(f, tick) = k * tick
    BY <1>1 DEF FloorToTick
<1> HIDE DEF k
<1>4. k * tick = tick * k
    BY <1>2
<1>5. QED
    BY <1>1, <1>2, <1>3, <1>4 DEF f

\* compute_far_limit_buy, where the margin is worth a tick: the price is on
\* the grid and not below the band of the average it was computed from.
LEMMA FarLimitKeepsBand ==
    ASSUME NEW avg \in Nat, NEW down \in Nat, NEW tick \in Nat, tick > 0
    PROVE  /\ FarLimit(avg, down, tick) \in Nat
           /\ FloorToTick(FarLimit(avg, down, tick), tick) = FarLimit(avg, down, tick)
           /\ down * avg * SafetyMargin >= tick * Hundred * Thousand =>
                 FarLimit(avg, down, tick) * Hundred >= avg * down
<1> DEFINE base == avg * down
           raw == base * (Thousand + SafetyMargin)
           x == raw \div (Hundred * Thousand)
           f == FloorToTick(x, tick)
<1>1. base \in Nat /\ SafetyMargin \in Nat
    BY MarginAssumption
<1>2. raw \in Nat /\ raw = base * 1000 + base * SafetyMargin
  <2> HIDE DEF base
  <2>1. base * SafetyMargin \in Nat
    BY <1>1
  <2>2. QED
    BY <1>1, <2>1 DEF Thousand
<1>3. x \in Nat /\ raw < x * 100000 + 100000
  <2> HIDE DEF raw
  <2>1. QED
    BY <1>2 DEF Hundred, Thousand
<1>4. FarLimit(avg, down, tick) = f
    BY DEF FarLimit
<1> HIDE DEF x
<1>5. f \in Nat /\ x < f + tick /\ FloorToTick(f, tick) = f
    BY <1>3, FloorFacts, FloorIdempotent
<1> HIDE DEF f, raw
<1>6. ASSUME down * avg * SafetyMargin >= tick * Hundred * Thousand
      PROVE  f * Hundred >= base
  <2>1. base * SafetyMargin >= tick * 100000
    BY <1>6, MarginAssumption DEF Hundred, Thousand
  <2> HIDE DEF base
  <2>2. base * SafetyMargin \in Nat
    BY <1>1
  <2>3. x * 100000 + 100000 <= f * 100000 + tick * 100000
    BY <1>3, <1>5
  <2>4. base * 1000 < f * 100000
    BY <1>1, <1>2, <1>3, <1>5, <2>1, <2>2, <2>3
  <2>5. QED
    BY <1>1, <1>5, <2>4 DEF Hundred
<1>7. QED
    BY <1>4, <1>5, <1>6

-----------------------------------------------------------------------------
(* The order that is built.                                                *)
Prepared ==
    /\ Translates(instrument) /\ Builds(Priced, Limits)
    /\ spec = Floored(Priced, Limits)

Given ==
    /\ request \in Requests /\ instrument \in Instruments
    /\ request.far => /\ Translates(instrument)
                      /\ FarLimitDefined(request.reference, Band["BUY"].down,
                                         instrument.tick)

\* The far limit of a request that has one, on the grid and in the band.
LEMMA FarPrice ==
    ASSUME Given, request.far
    PROVE  LET far == FarLimit(request.reference, Band["BUY"].down, instrument.tick)
           IN  /\ far \in Nat
               /\ FloorToTick(far, instrument.tick) = far
               /\ MarginWorthATick =>
                     far * Hundred >= request.reference * Band["BUY"].down
<1>1. /\ instrument.tick \in Nat /\ instrument.tick > 0
      /\ request.reference \in Nat
  <2>1. request.reference \in Int /\ instrument.tick \in Nat
    BY RequestsAssumption, InstrumentsAssumption DEF Given
  <2>2. request.reference > 0 /\ instrument.tick > 0
    BY DEF Given, FarLimitDefined
  <2>3. QED
    BY <2>1, <2>2
<1>2. Band["BUY"].down \in Nat
  <2>1. instrument.percentPrice # None /\ Band["BUY"]["down"] # None
    BY DEF Given, Translates, Band
  <2>2. Band["BUY"]["down"] \in Nat \cup {None}
    BY <2>1, InstrumentsAssumption DEF Given, Band
  <2>3. QED
    BY <2>1, <2>2
<1>3. QED
    BY <1>1, <1>2, FarLimitKeepsBand DEF MarginWorthATick

\* Only the price of a request is computed.
LEMMA PricedFields ==
    ASSUME Given
    PROVE  /\ Priced.type = request.type /\ Priced.side = request.side
           /\ Priced.qty = request.qty /\ Priced.qty \in Int
           /\ Priced.price \in Int
<1>1. CASE request.far
  <2> DEFINE far == FarLimit(request.reference, Band["BUY"].down, instrument.tick)
  <2>1. far \in Int
    BY <1>1, FarPrice
  <2> HIDE DEF far
  <2>2. Priced = [request EXCEPT !.price = far]
    BY <1>1 DEF Priced, far
  <2>3. QED
    BY <2>1, <2>2, RequestsAssumption DEF Given
<1>2. CASE ~request.far
    BY <1>2, RequestsAssumption DEF Given, Priced
<1>3. QED
    BY <1>1, <1>2

\* An order that was built passes the venue's filters.
LEMMA PreparedFits ==
    ASSUME Given, Prepared, spec.type = "LIMIT"
    PROVE  VenueFilters
<1>1. /\ Limits.tick = instrument.tick /\ Limits.step = instrument.step
      /\ Limits.qtyMin = OrZero(instrument.qtyMin)
      /\ Limits.qtyMax = instrument.qtyMax
      /\ Limits.priceMin = OrZero(instrument.priceMin)
      /\ Limits.priceMax = OrZero(instrument.priceMax)
      /\ Limits.minNotional = OrZero(instrument.minNotional)
    BY DEF Limits, LimitsOf
<1>2. ~IsMarket(Priced)
    BY PricedFields DEF Prepared, Floored, IsMarket
<1>3. /\ spec.price = FloorToTick(Priced.price, Limits.tick)
      /\ spec.qty = FloorToTick(Priced.qty, Limits.step)
    BY <1>2 DEF Prepared, Floored
<1>4. /\ Limits.step > 0 /\ Limits.tick > 0
      /\ QtyAllowed(spec.qty, Limits)
      /\ PriceAllowed(spec.price, Limits)
      /\ spec.price * spec.qty >= Limits.minNotional
  <2>1. spec = Floored(Priced, Limits) /\ Builds(Priced, Limits)
    BY DEF Prepared
  <2>2. /\ Limits.step > 0 /\ Limits.tick > 0
        /\ QtyAllowed(spec.qty, Limits)
        /\ PriceAllowed(spec.price, Limits)
    BY <1>2, <2>1, Zenon DEF Builds
  <2>3. NotionalAllowed(IF IsMarket(Priced) THEN Priced.price ELSE spec.price,
                        spec.qty, IsMarket(Priced), Limits)
    BY <2>1, Zenon DEF Builds
  <2>4. spec.price * spec.qty >= Limits.minNotional
    BY <1>2, <2>3, Zenon DEF NotionalAllowed
  <2>5. QED
    BY <2>2, <2>4
<1>5. /\ instrument.tick \in Nat /\ instrument.step \in Nat
      /\ instrument.qtyMin \in Nat \cup {None}
      /\ instrument.priceMin \in Nat \cup {None}
      /\ instrument.priceMax \in Nat \cup {None}
      /\ instrument.minNotional \in Nat \cup {None}
    BY InstrumentsAssumption DEF Given
<1>6. spec.qty % instrument.step = 0 /\ spec.price % instrument.tick = 0
  <2>1. Priced.price \in Int /\ Priced.qty \in Int
    BY PricedFields
  <2>2. /\ FloorToTick(Priced.price, instrument.tick) % instrument.tick = 0
        /\ FloorToTick(Priced.qty, instrument.step) % instrument.step = 0
    BY <1>1, <1>4, <1>5, <2>1, FloorOnGrid
  <2>3. QED
    BY <1>1, <1>3, <2>2, Zenon
<1>7. /\ instrument.qtyMin # None => spec.qty >= instrument.qtyMin
      /\ spec.qty <= instrument.qtyMax
    BY <1>1, <1>4, <1>5 DEF QtyAllowed, OrZero
<1>8. /\ instrument.priceMin \notin {None, 0} => spec.price >= instrument.priceMin
      /\ instrument.priceMax \notin {None, 0} => spec.price <= instrument.priceMax
    BY <1>1, <1>4, <1>5 DEF PriceAllowed, OrZero
<1>9. instrument.minNotional # None => spec.price * spec.qty >= instrument.minNotional
    BY <1>1, <1>4 DEF OrZero
<1>10. QED
    BY <1>6, <1>7, <1>8, <1>9 DEF VenueFilters

\* A far limit order that was built is in the band of its reference price.
LEMMA PreparedFar ==
    ASSUME Given, Prepared, request.far, MarginWorthATick,
           request.side = "BUY", ~IsMarket(request)
    PROVE  /\ spec.price \in Nat /\ spec.side = "BUY"
           /\ spec.price * Hundred >= request.reference * Band["BUY"].down
<1> DEFINE far == FarLimit(request.reference, Band["BUY"].down, instrument.tick)
<1>1. /\ far \in Nat /\ FloorToTick(far, instrument.tick) = far
      /\ far * Hundred >= request.reference * Band["BUY"].down
    BY FarPrice
<1>2. Priced = [request EXCEPT !.price = far]
    BY DEF Priced
<1> HIDE DEF far
<1>3. Priced.price = far /\ Priced.side = "BUY" /\ Priced.type = request.type
    BY <1>2, RequestsAssumption DEF Given
<1>4. /\ spec.price = FloorToTick(Priced.price, Limits.tick)
      /\ spec.side = Priced.side
    BY <1>3 DEF Prepared, Floored, IsMarket
<1>5. Limits.tick = instrument.tick
    BY DEF Limits, LimitsOf
<1>6. QED
    BY <1>1, <1>3, <1>4, <1>5

-----------------------------------------------------------------------------
(* The order on its way.                                                   *)
BandInv ==
    refusal = "band" =>
        order = "refused" /\ ~InBand(spec.price, Band[spec.side], average)

OrderInv ==
    /\ Given /\ average \in Averages
    /\ phase \in {"args", "node", "limits"} =>
          spec = None /\ order = "none" /\ refusal = "none"
    /\ phase = "live" \/ spec # None \/ order # "none" => Prepared
    /\ refusal # "none" => order # "none" /\ refusal # "filters"
    /\ BandInv

LEMMA OrderInvInit == Init => OrderInv
BY DEF Init, OrderInv, Given, BandInv

LEMMA OrderInvStep == OrderInv /\ [Next]_vars => OrderInv'
<1> SUFFICES ASSUME OrderInv, [Next]_vars PROVE OrderInv'
    OBVIOUS
<1>1. UNCHANGED input => Given' = Given /\ Priced' = Priced /\ Limits' = Limits
    BY DEF input, Given, Priced, Limits, Band, FarLimitDefined
<1>2. CASE DryRun \/ UsageError \/ BuildsNode \/ SkipsInjection \/ Injects
  <2>1. /\ UNCHANGED <<input, average, spec, outcome>>
        /\ phase \in {"args", "node"} /\ phase' # "live"
    BY <1>2 DEF DryRun, UsageError, BuildsNode, SkipsInjection, Injects, Exits
  <2>2. spec = None /\ order = "none" /\ refusal = "none"
    BY <2>1 DEF OrderInv
  <2>3. QED
    BY <1>1, <2>1, <2>2 DEF OrderInv, BandInv, outcome
<1>3. CASE Prepares
  <2>1. /\ UNCHANGED <<input, average, outcome>>
        /\ phase = "limits" /\ phase' \in {"live", "exited"}
    BY <1>3 DEF Prepares, Exits
  <2>2. spec = None /\ order = "none" /\ refusal = "none"
    BY <2>1 DEF OrderInv
  <2>3. Prepared' \/ (phase' = "exited" /\ spec' = None)
    BY <1>1, <1>3, <2>1, <2>2 DEF Prepares, Prepared, Exits, Translates, input
  <2>4. QED
    BY <1>1, <2>1, <2>2, <2>3 DEF OrderInv, BandInv, outcome
<1>4. ASSUME UNCHANGED <<input, spec>> PROVE Prepared' = Prepared
    BY <1>1, <1>4 DEF Prepared, input
<1>5. CASE Submits \/ SubmitRaises
  <2>1. /\ UNCHANGED <<input, average, spec, refusal>>
        /\ phase = "live" /\ order = "none" /\ order' # "none"
        /\ phase' \in {"live", "exited"}
    BY <1>5 DEF Submits, SubmitRaises, Exits, input
  <2>2. Prepared /\ refusal = "none"
    BY <2>1 DEF OrderInv
  <2>3. QED
    BY <1>1, <1>4, <2>1, <2>2 DEF OrderInv, BandInv
<1>6. CASE VenueAccepts
  <2>1. /\ UNCHANGED <<input, average, phase, spec, refusal>>
        /\ order = "sent" /\ order' = "placed"
    BY <1>6 DEF VenueAccepts, input
  <2>2. refusal # "band" /\ phase \notin {"args", "node", "limits"} /\ Prepared
    BY <2>1 DEF OrderInv, BandInv
  <2>3. QED
    BY <1>1, <1>4, <2>1, <2>2 DEF OrderInv, BandInv
<1>7. CASE VenueRefuses
  <2>1. /\ UNCHANGED <<input, average, phase, spec>>
        /\ order = "sent" /\ order' = "refused"
        /\ refusal' \in {"filters", "band", "other"} /\ Refuses(refusal')
    BY <1>7 DEF VenueRefuses, input
  <2>2. Prepared /\ phase \notin {"args", "node", "limits"} /\ Given
    BY <2>1 DEF OrderInv
  <2>3. refusal' # "filters"
    BY <2>1, <2>2, PreparedFits DEF Refuses
  <2>4. BandInv'
    BY <2>1 DEF BandInv, Refuses, Band, input
  <2>5. QED
    BY <1>1, <1>4, <2>1, <2>2, <2>3, <2>4 DEF OrderInv
<1>8. CASE AverageMoves
  <2>1. /\ UNCHANGED <<input, phase, spec, order, refusal>> /\ order = "sent"
        /\ average' \in Averages
    BY <1>8 DEF AverageMoves, outcome, input
  <2>2. refusal # "band"
    BY <2>1 DEF OrderInv, BandInv
  <2>3. QED
    BY <1>1, <1>4, <2>1, <2>2 DEF OrderInv, BandInv
<1>9. CASE Handles \/ Interrupted \/ NodeStops
  <2>1. /\ UNCHANGED <<input, average, spec, order, refusal>>
        /\ phase \in {"live", "stopping"} /\ phase' \in {"stopping", "exited"}
    BY <1>9 DEF Handles, OnOrderAccepted, OnOrderRejected, Interrupted, NodeStops,
                Running, Exits, outcome, input
  <2>2. BandInv'
    BY <2>1 DEF OrderInv, BandInv, Band, input
  <2>3. QED
    BY <1>1, <1>4, <2>1, <2>2 DEF OrderInv
<1>10. CASE UNCHANGED vars
  <2>1. UNCHANGED <<input, average, phase, spec, order, refusal>>
    BY <1>10 DEF vars, outcome
  <2>2. BandInv'
    BY <2>1 DEF OrderInv, BandInv, Band, input
  <2>3. QED
    BY <1>1, <1>4, <2>1, <2>2 DEF OrderInv
<1>11. QED
    BY <1>2, <1>3, <1>5, <1>6, <1>7, <1>8, <1>9, <1>10 DEF Next

LEMMA OrderInvAlways == FairSpec => []OrderInv
<1>1. QED
    BY OrderInvInit, OrderInvStep, PTL DEF FairSpec

(* The venue never refuses an order for a filter that build_order_spec     *)
(* has checked (cli.py:126), whatever the request and the instrument.      *)
THEOREM FiltersAreMet == FairSpec => []OrderMeetsFilters
<1>1. OrderInv => OrderMeetsFilters
    BY DEF OrderInv, OrderMeetsFilters
<1>2. QED
    BY <1>1, OrderInvAlways, PTL


\* The bands of an instrument whose limits could be read.
LEMMA BandValues ==
    ASSUME Given, Translates(instrument)
    PROVE  Band["BUY"].down \in Nat /\ Band["BUY"].up \in Nat
<1>1. /\ instrument.percentPrice # None
      /\ Band["BUY"]["down"] # None /\ Band["BUY"]["up"] # None
    BY DEF Translates, Band
<1>2. /\ Band["BUY"]["down"] \in Nat \cup {None}
      /\ Band["BUY"]["up"] \in Nat \cup {None}
    BY <1>1, InstrumentsAssumption DEF Given, Band
<1>3. QED
    BY <1>1, <1>2

(* far_limit.py:32: where the margin is worth a tick, a far limit order is *)
(* built inside the band of its reference price and refused from below the *)
(* band only if the average has risen.                                     *)
THEOREM FarOrdersStayInBand == FairSpec => []FarOrderInBand
<1>1. OrderInv => FarOrderInBand
  <2> SUFFICES ASSUME OrderInv, request.far, MarginWorthATick,
                      request.side = "BUY", ~IsMarket(request)
               PROVE  /\ spec # None =>
                            spec.price * Hundred >= request.reference * Band["BUY"].down
                      /\ refusal = "band"
                            /\ spec.price * Hundred <= average * Band["BUY"].up =>
                         average > request.reference
    BY DEF FarOrderInBand
  <2>1. Given
    BY DEF OrderInv
  <2>2. ASSUME Prepared
        PROVE  /\ spec.price \in Nat /\ spec.side = "BUY"
               /\ spec.price * Hundred >= request.reference * Band["BUY"].down
    BY <2>1, <2>2, PreparedFar
  <2>3. ASSUME refusal = "band", spec.price * Hundred <= average * Band["BUY"].up
        PROVE  average > request.reference
    <3> DEFINE down == Band["BUY"].down
    <3>1. Prepared /\ ~InBand(spec.price, Band[spec.side], average)
      BY <2>3 DEF OrderInv, BandInv
    <3>2. down \in Nat
      BY <2>1, <3>1, BandValues DEF Prepared
    <3>3. average \in Nat /\ request.reference \in Int
      BY <2>1, AveragesAssumption, RequestsAssumption DEF OrderInv, Given
    <3>4. ~(spec.price * Hundred >= average * down)
      BY <2>2, <2>3, <3>1 DEF InBand
    <3> HIDE DEF down
    <3>5. spec.price * Hundred \in Nat /\ spec.price * Hundred >= request.reference * down
      BY <2>2, <3>1 DEF down, Hundred
    <3>6. request.reference * down < average * down
      BY <3>2, <3>3, <3>4, <3>5
    <3>7. ASSUME average <= request.reference PROVE average * down <= request.reference * down
      BY <3>2, <3>3, <3>7
    <3>8. QED
      BY <3>2, <3>3, <3>6, <3>7
  <2>4. QED
    BY <2>2, <2>3 DEF OrderInv
<1>2. QED
    BY <1>1, OrderInvAlways, PTL

-----------------------------------------------------------------------------
(* The order that is built is the best one.                                *)
Multiple(g, unit) == g \in Int /\ g % unit = 0

LEMMA MultipleNegated ==
    ASSUME NEW unit \in Nat, unit > 0, NEW g, Multiple(g, unit)
    PROVE  Multiple(-g, unit)
<1> DEFINE q == g \div unit
<1>1. q \in Int /\ g = unit * q
    BY DEF Multiple
<1> HIDE DEF q
<1>2. -g = unit * (-q) /\ -q \in Int
    BY <1>1
<1>3. (unit * (-q)) % unit = 0
    BY <1>2
<1>4. QED
    BY <1>1, <1>2, <1>3 DEF Multiple

\* Two multiples of the unit less than a unit apart are ordered.
LEMMA MultiplesApart ==
    ASSUME NEW unit \in Nat, unit > 0, NEW g, NEW h,
           Multiple(g, unit), Multiple(h, unit), h < g + unit
    PROVE  h <= g
<1> DEFINE a == g \div unit
           b == h \div unit
<1>1. a \in Int /\ b \in Int /\ g = unit * a /\ h = unit * b
    BY DEF Multiple
<1> HIDE DEF a, b
<1>2. unit * a + unit = unit * (a + 1)
    BY <1>1
<1>3. ASSUME b >= a + 1 PROVE FALSE
  <2>1. unit * b >= unit * (a + 1)
    BY <1>1, <1>3
  <2>2. QED
    BY <1>1, <1>2, <2>1
<1>4. b <= a
    BY <1>1, <1>3
<1>5. unit * b <= unit * a
    BY <1>1, <1>4
<1>6. QED
    BY <1>1, <1>5

\* floor_to_tick finds the largest multiple the reference asks for, and there
\* is one only, for values of either sign.
LEMMA FloorIsLargest ==
    ASSUME NEW v \in Int, NEW unit \in Nat, unit > 0
    PROVE  FloorToTick(v, unit) = Largest(v, unit)
<1> DEFINE m == Magnitude(v)
           f == FloorToTick(v, unit)
           w == FloorToTick(m, unit)
           Top(g) == /\ g % unit = 0 /\ g * v >= 0
                     /\ \A h \in 0 .. m : h % unit = 0 => h <= Magnitude(g)
<1>1. m \in Nat /\ (v >= 0 => m = v) /\ (v < 0 => m = -v)
    BY DEF Magnitude
<1>2. (v >= 0 => f = w) /\ (v < 0 => f = -w)
  <2>1. CASE v >= 0
    BY <1>1, <2>1
  <2>2. CASE v < 0
    <3>1. -v \in Nat /\ ~(v >= 0) /\ m = -v
      BY <1>1, <2>2
    <3>2. f = -(((-v) \div unit) * unit)
      BY <3>1 DEF FloorToTick
    <3>3. w = ((-v) \div unit) * unit
      BY <3>1 DEF FloorToTick
    <3>4. QED
      BY <2>2, <3>2, <3>3
  <2>3. QED
    BY <2>1, <2>2
<1> HIDE DEF m, f, w
<1>3. w \in Nat /\ w <= m /\ m < w + unit /\ Multiple(w, unit)
    BY <1>1, FloorFacts, FloorOnGrid DEF w, Multiple
<1>4. ASSUME NEW h \in 0 .. m, h % unit = 0 PROVE h <= w
  <2>1. Multiple(h, unit) /\ h < w + unit
    BY <1>1, <1>3, <1>4 DEF Multiple
  <2>2. QED
    BY <1>3, <2>1, MultiplesApart
<1>5. f \in -m .. m /\ Magnitude(f) = w /\ f % unit = 0 /\ f * v >= 0
  <2>1. CASE v >= 0
    <3>1. f = w /\ f \in Nat
      BY <1>2, <1>3, <2>1
    <3>2. f * v >= 0
      BY <3>1, <2>1
    <3>3. QED
      BY <1>1, <1>3, <3>1, <3>2 DEF Magnitude, Multiple
  <2>2. CASE v < 0
    <3>1. f = -w /\ f \in Int
      BY <1>2, <1>3, <2>2
    <3>2. f % unit = 0
      BY <1>3, <3>1, MultipleNegated DEF Multiple
    <3>3. f * v >= 0
      <4>1. f * v = w * m
        BY <1>1, <1>3, <2>2, <3>1
      <4>2. QED
        BY <1>1, <1>3, <4>1
    <3>4. QED
      BY <1>1, <1>3, <3>1, <3>2, <3>3 DEF Magnitude
  <2>3. QED
    BY <2>1, <2>2
<1>6. Top(f)
    BY <1>4, <1>5
<1>7. ASSUME NEW g \in -m .. m, Top(g) PROVE g = f
  <2>1. w <= Magnitude(g)
    BY <1>1, <1>3, <1>7 DEF Multiple
  <2>2. g \in Int /\ g >= -m /\ g <= m
    BY <1>1
  <2>3. CASE v = 0
    BY <1>1, <1>2, <1>3, <2>2, <2>3
  <2>4. CASE v > 0
    <3>1. g >= 0
      <4>1. ASSUME g < 0 PROVE g * v < 0
        BY <2>2, <2>4, <4>1
      <4>2. QED
        BY <1>7, <2>2, <4>1
    <3>2. g <= w
      BY <1>4, <1>7, <2>2, <3>1
    <3>3. QED
      BY <1>2, <1>3, <2>1, <2>2, <2>4, <3>1, <3>2 DEF Magnitude
  <2>5. CASE v < 0
    <3>1. g <= 0
      <4>1. ASSUME g > 0 PROVE g * v < 0
        BY <2>2, <2>5, <4>1
      <4>2. QED
        BY <1>7, <2>2, <4>1
    <3>2. -g \in 0 .. m
      BY <1>1, <2>2, <3>1
    <3>3. (-g) % unit = 0
      <4>1. Multiple(g, unit)
        BY <1>7, <2>2 DEF Multiple
      <4>2. QED
        BY <4>1, MultipleNegated DEF Multiple
    <3>4. -g <= w
      BY <1>4, <3>2, <3>3
    <3>5. Magnitude(g) = -g
      BY <2>2, <3>1 DEF Magnitude
    <3>6. QED
      BY <1>2, <1>3, <2>1, <2>2, <2>5, <3>4, <3>5
  <2>6. QED
    BY <2>3, <2>4, <2>5
<1>8. Largest(v, unit) = CHOOSE g \in -m .. m : Top(g)
    BY DEF Largest, m
<1> HIDE DEF Top
<1>9. QED
    BY <1>5, <1>6, <1>7, <1>8 DEF f

\* What build_order_spec computes is the best order there is.
LEMMA FlooredIsBest ==
    ASSUME Given, HasGrid
    PROVE  Floored(Priced, Limits) = Best
<1>1. /\ Priced.type = request.type /\ Priced.side = request.side
      /\ Priced.qty = request.qty /\ Priced.qty \in Int /\ Priced.price \in Int
    BY PricedFields
<1>2. /\ instrument.tick \in Nat /\ instrument.step \in Nat
      /\ Limits.tick = instrument.tick /\ Limits.step = instrument.step
    BY InstrumentsAssumption DEF Given, Limits, LimitsOf
<1>3. FloorToTick(Priced.qty, Limits.step) = Largest(request.qty, instrument.step)
    BY <1>1, <1>2, FloorIsLargest DEF HasGrid
<1>4. ASSUME ~IsMarket(Priced)
      PROVE  FloorToTick(Priced.price, Limits.tick)
                 = Largest(Priced.price, instrument.tick)
    BY <1>1, <1>2, <1>4, FloorIsLargest DEF HasGrid, IsMarket
<1>5. IsMarket(Priced) <=> request.type = "MARKET"
    BY <1>1 DEF IsMarket
<1>6. QED
    BY <1>1, <1>3, <1>4, <1>5 DEF Floored, Best

\* And it is built exactly when it fits, the reference reading the bounds as
\* the venue lists them.
LEMMA BuildsWhatFits ==
    ASSUME Given, Translates(instrument), HasGrid
    PROVE  Builds(Priced, Limits) <=> BestFits
<1> DEFINE market == request.type = "MARKET"
<1>1. Floored(Priced, Limits) = Best /\ IsMarket(Priced) = market
    BY FlooredIsBest, PricedFields DEF IsMarket
<1>2. /\ Limits.tick = instrument.tick /\ Limits.step = instrument.step
      /\ Limits.qtyMin = OrZero(instrument.qtyMin)
      /\ Limits.qtyMax = instrument.qtyMax
      /\ Limits.priceMin = OrZero(instrument.priceMin)
      /\ Limits.priceMax = OrZero(instrument.priceMax)
      /\ Limits.minNotional = OrZero(instrument.minNotional)
      /\ Limits.applyMinToMarket = AppliesToMarket(instrument)
      /\ Limits.bands = Band
    BY DEF Limits, LimitsOf, Band
<1>3. /\ {instrument.qtyMin, instrument.qtyMax, instrument.priceMin,
          instrument.priceMax, instrument.minNotional} \subseteq Nat \cup {None}
      /\ instrument.qtyMax # None /\ DOMAIN Band = {"BUY", "SELL"}
    BY InstrumentsAssumption DEF Given, Translates, Band
<1>4. QtyAllowed(Best.qty, Limits)
        <=> Within(Best.qty, OrZero(instrument.qtyMin), instrument.qtyMax)
    BY <1>2, <1>3, NoneAssumption DEF QtyAllowed, Within, OrZero
<1>5. PriceAllowed(Best.price, Limits)
        <=> Within(Best.price, Binding(instrument.priceMin),
                   Binding(instrument.priceMax))
    BY <1>2, <1>3, NoneAssumption DEF PriceAllowed, Within, OrZero, Binding
<1>6. PercentPriceAllowed(Best.price, Priced.side, Limits, Priced.average)
        <=> (request.average # None =>
                /\ request.side \in {"BUY", "SELL"}
                /\ InBand(Best.price, Band[request.side], request.average))
  <2>1. Priced.side = request.side
    BY PricedFields
  <2>2. Priced.average = request.average
    BY RequestsAssumption DEF Given, Priced
  <2>3. QED
    BY <1>2, <1>3, <2>1, <2>2 DEF PercentPriceAllowed
<1>7. ASSUME NEW price
      PROVE  NotionalAllowed(price, Best.qty, market, Limits)
               <=> \/ market /\ ~AppliesToMarket(instrument)
                   \/ Within(price * Best.qty, OrZero(instrument.minNotional), None)
    BY <1>2, <1>3, NoneAssumption DEF NotionalAllowed, Within, OrZero
<1>8. Limits.step > 0 /\ (IsMarket(Priced) \/ Limits.tick > 0)
    BY <1>1, <1>2 DEF HasGrid
<1>9. Builds(Priced, Limits) <=>
        /\ QtyAllowed(Best.qty, Limits)
        /\ ~market => /\ PriceAllowed(Best.price, Limits)
                      /\ PercentPriceAllowed(Best.price, Priced.side, Limits,
                                             Priced.average)
        /\ NotionalAllowed(IF market THEN Priced.price ELSE Best.price,
                           Best.qty, market, Limits)
    BY <1>1, <1>8, Zenon DEF Builds
<1>10. QED
    BY <1>4, <1>5, <1>6, <1>7, <1>9, Zenon DEF BestFits

\* A library call comes back without an order only if none could be built.
RefusalInv ==
    request.caller = "library" =>
        /\ phase \in {"limits", "live", "exited"}
        /\ phase = "exited" => ~(Translates(instrument) /\ Builds(Priced, Limits))

LEMMA RefusalInvStep == OrderInv /\ RefusalInv /\ [Next]_vars => RefusalInv'
<1> SUFFICES ASSUME OrderInv, RefusalInv, [Next]_vars PROVE RefusalInv'
    OBVIOUS
<1>1. UNCHANGED input =>
        UNCHANGED <<request.caller, Translates(instrument), Builds(Priced, Limits)>>
    BY DEF input, Priced, Limits, Band, Translates, Builds
<1>2. UNCHANGED input
    BY DEF Next, DryRun, UsageError, BuildsNode, SkipsInjection, Injects, Prepares,
           Submits, SubmitRaises, VenueAccepts, VenueRefuses, AverageMoves, Handles,
           OnOrderAccepted, OnOrderRejected, Interrupted, NodeStops, vars
<1>3. ASSUME phase' = phase PROVE RefusalInv'
    BY <1>1, <1>2, <1>3 DEF RefusalInv
<1>4. CASE DryRun \/ UsageError \/ BuildsNode \/ SkipsInjection \/ Injects
    BY <1>1, <1>2, <1>4 DEF RefusalInv, DryRun, UsageError, BuildsNode,
                            SkipsInjection, Injects
<1>5. CASE Prepares
    BY <1>1, <1>2, <1>5 DEF RefusalInv, Prepares, Exits
<1>6. CASE Submits \/ VenueAccepts \/ VenueRefuses \/ AverageMoves \/ UNCHANGED vars
    BY <1>3, <1>6 DEF Submits, VenueAccepts, VenueRefuses, AverageMoves, vars
<1>7. CASE SubmitRaises \/ Handles \/ Interrupted \/ NodeStops
    BY <1>1, <1>2, <1>7 DEF RefusalInv, SubmitRaises, Handles, OnOrderAccepted, OnOrderRejected,
                            Interrupted, NodeStops, Running
<1>8. QED
    BY <1>4, <1>5, <1>6, <1>7 DEF Next

(* precision.py:191: whatever the request and the instrument, what         *)
(* build_order_spec returns is the largest order on the grid within the    *)
(* request, it fits the filters, and only an order that does not fit, or   *)
(* has no grid, is refused.                                                *)
THEOREM BestOrderIsBuilt == FairSpec => []BuildsTheBestOrder
<1>1. Init => RefusalInv
  <2> SUFFICES ASSUME Init PROVE RefusalInv
    OBVIOUS
  <2>1. request.caller = "library" => phase = "limits"
    BY DEF Init
  <2>2. QED
    BY <2>1 DEF RefusalInv
<1>2. OrderInv /\ RefusalInv => BuildsTheBestOrder
  <2> SUFFICES ASSUME OrderInv, RefusalInv PROVE BuildsTheBestOrder
    OBVIOUS
  <2>1. ASSUME spec # None PROVE spec = Best /\ BestFits
    <3>1. Given /\ Prepared
      BY <2>1 DEF OrderInv
    <3>2. Builds(Priced, Limits) /\ Translates(instrument)
      BY <3>1 DEF Prepared
    <3>3. HasGrid
      <4>1. Limits.step > 0 /\ (IsMarket(Priced) \/ Limits.tick > 0)
        BY <3>2 DEF Builds
      <4>2. Limits.tick = instrument.tick /\ Limits.step = instrument.step
        BY DEF Limits, LimitsOf
      <4>3. QED
        BY <3>1, <4>1, <4>2, PricedFields DEF HasGrid, IsMarket
    <3>4. QED
      BY <3>1, <3>2, <3>3, FlooredIsBest, BuildsWhatFits DEF Prepared
  <2>2. ASSUME phase = "exited", request.caller = "library"
        PROVE  ~Translates(instrument) \/ ~HasGrid \/ ~BestFits
    <3>1. Given
      BY DEF OrderInv
    <3>2. ~(Translates(instrument) /\ Builds(Priced, Limits))
      BY <2>2 DEF RefusalInv
    <3>3. QED
      BY <3>1, <3>2, BuildsWhatFits
  <2>3. QED
    BY <2>1, <2>2 DEF BuildsTheBestOrder
<1>3. QED
    BY <1>1, <1>2, RefusalInvStep, OrderInvAlways, PTL DEF FairSpec

-----------------------------------------------------------------------------
(* The exit code.                                                          *)
ExitInv ==
    /\ exit # None => phase = "exited"
    /\ phase \in {"args", "node", "limits"} => order = "none"
    /\ answer = "accepted" \/ result = "accepted" => order = "placed"
    /\ answer = "rejected" \/ result = "rejected" => order = "refused" \/ misreported
    /\ misreported => order = "placed"
    /\ ExitTells

LEMMA ExitInvInit == Init => ExitInv
BY NoneAssumption DEF Init, ExitInv, ExitTells

LEMMA ExitInvStep == ExitInv /\ [Next]_vars => ExitInv'
<1> SUFFICES ASSUME ExitInv, [Next]_vars PROVE ExitInv'
    OBVIOUS
<1>1. None # 0 /\ None # 1 /\ None # 2
    BY NoneAssumption
<1>2. CASE DryRun \/ SkipsInjection
    BY <1>1, <1>2 DEF ExitInv, ExitTells, DryRun, SkipsInjection, Exits, outcome, input
<1>3. CASE UsageError \/ BuildsNode \/ Injects \/ Prepares
    BY <1>1, <1>3 DEF ExitInv, ExitTells, UsageError, BuildsNode, Injects, Prepares,
                      Exits, outcome, input
<1>4. CASE Submits \/ SubmitRaises \/ VenueRefuses \/ AverageMoves
    BY <1>1, <1>4 DEF ExitInv, ExitTells, Submits, SubmitRaises, Exits, VenueRefuses,
                      AverageMoves, outcome, input
<1>5. CASE VenueAccepts
  <2>1. /\ order = "sent" /\ order' = "placed" /\ UNCHANGED <<request, phase, result, exit>>
        /\ answer' \in {"accepted", "rejected", "none"}
        /\ misreported' = (answer' = "rejected")
    BY <1>5 DEF VenueAccepts, input
  <2>2. exit # 1 /\ result \notin {"accepted", "rejected"}
    BY <2>1 DEF ExitInv, ExitTells
  <2>3. QED
    BY <2>1, <2>2 DEF ExitInv, ExitTells
<1>6. CASE Handles \/ Interrupted
    BY <1>1, <1>6 DEF ExitInv, ExitTells, Handles, OnOrderAccepted, OnOrderRejected,
                      Interrupted, Running, outcome, input
<1>7. CASE NodeStops
    BY <1>1, <1>7 DEF ExitInv, ExitTells, NodeStops, Exits, Report, outcome, input
<1>8. CASE UNCHANGED vars
    BY <1>8 DEF ExitInv, ExitTells, vars, outcome, input
<1>9. QED
    BY <1>2, <1>3, <1>4, <1>5, <1>6, <1>7, <1>8 DEF Next

(* cli.py:162-172: after an exit code of 0 the venue took the order unless *)
(* none was asked for; after a 1 it did not, unless an error page hid that *)
(* it did.                                                                 *)
THEOREM ExitCodeTells == FairSpec => []ExitTells
<1>1. ExitInv => ExitTells
    BY DEF ExitInv
<1>2. QED
    BY <1>1, ExitInvInit, ExitInvStep, PTL DEF FairSpec

=============================================================================
