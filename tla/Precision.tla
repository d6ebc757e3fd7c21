----------------------------- MODULE Precision ------------------------------
(***************************************************************************)
(* Order precision: src/hermes/execution/precision.py, the far limit price *)
(* of far_limit.py and the reading of an instrument's limits in            *)
(* nt_translate.py.  Operators only; TradeLive calls them.                 *)
(*                                                                         *)
(* The code computes with exact decimals.  Here a price or a quantity is   *)
(* an integer in the smallest unit the venue knows, a multiplier counts    *)
(* hundredths and the safety margin thousandths, so nothing is rounded     *)
(* but by the code's own rounding.  (The decimals have 28 digits: the      *)
(* quotient in floor_to_tick is exact for what a venue trades, and may be  *)
(* rounded up for a value of more digits, which is not modelled.)          *)
(* OrderRejected and ValueError are not told apart: either way no order    *)
(* comes back.                                                             *)
(***************************************************************************)
EXTENDS Integers

CONSTANTS
    None,           \* an optional value that is absent
    SafetyMargin    \* safety_margin of compute_far_limit_buy, in thousandths

ASSUME MarginAssumption == SafetyMargin \in Nat
ASSUME NoneAssumption == None \notin Int

Hundred  == 100
Thousand == 1000

\* A request: what a caller passes to build_order_spec.  A spec: OrderSpec.
\* Limits: InstrumentLimits, the four multipliers by side.

\* Mutant of FloorToTick: rounded up to the next multiple.
CeilToTick(v, tick) == IF v % tick = 0 THEN v ELSE (v \div tick + 1) * tick

\* floor_to_tick, for a positive tick: ROUND_DOWN of Decimal is towards zero.
FloorToTick(v, tick) ==
    IF v >= 0 THEN (v \div tick) * tick ELSE -(((-v) \div tick) * tick)

-----------------------------------------------------------------------------
(* The filters.                                                            *)
IsMarket(req) == req.type = "MARKET"

QtyAllowed(qty, limits) == limits.qtyMin <= qty /\ qty <= limits.qtyMax

PriceAllowed(price, limits) ==
    /\ limits.priceMin > 0 => price >= limits.priceMin
    /\ limits.priceMax > 0 => price <= limits.priceMax

\* Inside [average * down, average * up].
InBand(price, band, average) ==
    /\ price * Hundred >= average * band.down
    /\ price * Hundred <= average * band.up

\* check_percent_price: skipped without an average; an unknown side raises.
PercentPriceAllowed(price, side, limits, average) ==
    average # None =>
        /\ side \in DOMAIN limits.bands
        /\ InBand(price, limits.bands[side], average)

NotionalAllowed(price, qty, market, limits) ==
    \/ market /\ ~limits.applyMinToMarket
    \/ price * qty >= limits.minNotional

\* build_order_spec returns a spec, and which: floored quantity and price,
\* then the checks in the code's order.
Floored(req, limits) ==
    [side |-> req.side, type |-> req.type,
     price |-> IF IsMarket(req) THEN 0 ELSE FloorToTick(req.price, limits.tick),
     qty |-> FloorToTick(req.qty, limits.step)]

\* Mutant of Builds: the notional is taken before flooring.
BuildsUnfloored(req, limits) ==
    LET spec == Floored(req, limits)
    IN  /\ QtyAllowed(spec.qty, limits)
        /\ ~IsMarket(req) =>
              /\ PriceAllowed(spec.price, limits)
              /\ PercentPriceAllowed(spec.price, req.side, limits, req.average)
        /\ NotionalAllowed(req.price, req.qty, IsMarket(req), limits)

Builds(req, limits) ==
    /\ limits.step > 0
    /\ IsMarket(req) \/ limits.tick > 0
    /\ LET spec == Floored(req, limits)
       IN  /\ QtyAllowed(spec.qty, limits)
           /\ ~IsMarket(req) =>
                 /\ PriceAllowed(spec.price, limits)
                 /\ PercentPriceAllowed(spec.price, req.side, limits, req.average)
           /\ NotionalAllowed(IF IsMarket(req) THEN req.price ELSE spec.price,
                              spec.qty, IsMarket(req), limits)

-----------------------------------------------------------------------------
\* Mutant of FarLimit: the margin is left out.
FarLimitBare(average, down, tick) ==
    FloorToTick((average * down) \div Hundred, tick)

\* compute_far_limit_buy.  Flooring to units before flooring to the tick
\* changes nothing: the tick is a whole number of units.
FarLimit(average, down, tick) ==
    FloorToTick((average * down * (Thousand + SafetyMargin))
                    \div (Hundred * Thousand), tick)

FarLimitDefined(average, down, tick) == average > 0 /\ down > 0 /\ tick > 0

-----------------------------------------------------------------------------
(* The instrument's limits.  An instrument has the fields of NT's          *)
(* Instrument and the filters of its info: percentPrice, notional and      *)
(* minNotionalFilter are None when the filter is not in the list, and a    *)
(* flag or a multiplier inside one may be None as well.                    *)

OrZero(v) == IF v = None THEN 0 ELSE v

\* nt_instrument_to_limits_from_info and nt_instrument_to_limits raise
\* nothing.
Translates(instrument) ==
    /\ instrument.percentPrice # None
    /\ \A side \in {"BUY", "SELL"}, edge \in {"down", "up"} :
          instrument.percentPrice[side][edge] # None
    /\ instrument.notional # None \/ instrument.minNotionalFilter # None
    /\ instrument.qtyMax # None

\* NOTIONAL is preferred; an absent flag counts as FALSE.
AppliesToMarket(instrument) ==
    LET filter == IF instrument.notional # None THEN instrument.notional
                  ELSE instrument.minNotionalFilter
    IN  filter.market = TRUE

LimitsOf(instrument) ==
    [tick |-> instrument.tick, step |-> instrument.step,
     qtyMin |-> OrZero(instrument.qtyMin), qtyMax |-> instrument.qtyMax,
     priceMin |-> OrZero(instrument.priceMin),
     priceMax |-> OrZero(instrument.priceMax),
     minNotional |-> OrZero(instrument.minNotional),
     applyMinToMarket |-> AppliesToMarket(instrument),
     bands |-> instrument.percentPrice]

=============================================================================
