----------------------------- MODULE TradeLive ------------------------------
(***************************************************************************)
(* One order from its request to the venue's answer, by the two paths of   *)
(* the code:                                                               *)
(*  - "cli": the trade-live command (src/hermes/cli.py) with the strategy  *)
(*    it runs (src/hermes/execution/oneshot_strategy.py), up to the exit   *)
(*    code of the process;                                                 *)
(*  - "library": a caller of build_order_spec and order_spec_to_submit     *)
(*    (src/hermes/execution/nt_submit.py) that routes the command itself.  *)
(*                                                                         *)
(* NautilusTrader's node and the venue are the environment.  The venue's   *)
(* average price moves while the order is on its way.                      *)
(***************************************************************************)
EXTENDS Precision

CONSTANTS
    Requests,       \* requests that may be made
    Instruments,    \* instruments the venue may list
    Averages        \* the venue's average prices

ASSUME AveragesAssumption == Averages \subseteq Nat \ {0}
ASSUME RequestsAssumption ==
    Requests \subseteq
        [caller : {"cli", "library"}, dry : BOOLEAN, skip : BOOLEAN,
         complete : BOOLEAN, far : BOOLEAN, side : STRING, type : STRING,
         price : Int, qty : Int, reference : Int, average : Int \cup {None}]
\* NT's increments and bounds are not negative.
ASSUME InstrumentsAssumption ==
    \A i \in Instruments :
        /\ i.tick \in Nat /\ i.step \in Nat
        /\ {i.qtyMin, i.qtyMax, i.priceMin, i.priceMax, i.minNotional}
               \subseteq Nat \cup {None}
        /\ i.percentPrice # None =>
              /\ DOMAIN i.percentPrice = {"BUY", "SELL"}
              /\ \A side \in {"BUY", "SELL"}, edge \in {"down", "up"} :
                    i.percentPrice[side][edge] \in Nat \cup {None}

\* A request [caller, dry, skip, complete, side, type, far, price, qty,
\* reference, average]: skip is HERMES_SKIP_INJECT, complete says that price
\* and quantity were given, far that the price is the far limit of the
\* caller's reference price, average is avg_price.

VARIABLES
    request,
    instrument,
    average,    \* the venue's average price
    phase,      \* "args", "node", "limits", "live", "stopping", "exited"
    spec,       \* the OrderSpec, None before it is built
    order,      \* "none", "failed", "denied", "sent", "refused", or "placed":
                \* the venue took it, whatever became of it then
    answer,     \* NT's order event, not yet handled
    result,     \* what on_done left: "none", "accepted" or "rejected"
    exit,       \* exit code of the command, None while it runs
    refusal,    \* history: why the venue refused
    misreported \* history: an order it took was reported as rejected

input   == <<request, instrument>>
outcome == <<order, answer, result, refusal, misreported>>
vars == <<input, average, phase, spec, outcome, exit>>

Limits == LimitsOf(instrument)
Band   == instrument.percentPrice

\* The request with its price, which compute_far_limit_buy may have given.
Priced ==
    IF request.far
    THEN [request EXCEPT !.price =
             FarLimit(request.reference, Band["BUY"].down, instrument.tick)]
    ELSE request

Init ==
    /\ request \in Requests
    /\ instrument \in Instruments
    /\ request.far => /\ Translates(instrument)
                      /\ FarLimitDefined(request.reference, Band["BUY"].down,
                                         instrument.tick)
    /\ average \in Averages
    /\ phase = IF request.caller = "cli" THEN "args" ELSE "limits"
    /\ spec = None /\ exit = None
    /\ order = "none" /\ answer = "none" /\ result = "none" /\ refusal = "none"
    /\ misreported = FALSE

-----------------------------------------------------------------------------
(* The command up to the order.                                            *)
Exits(code) ==
    /\ phase' = "exited"
    /\ exit' = IF request.caller = "cli" THEN code ELSE None

DryRun ==
    /\ phase = "args" /\ request.dry
    /\ Exits(0)
    /\ UNCHANGED <<input, average, spec, outcome>>

UsageError ==
    /\ phase = "args" /\ ~request.dry /\ ~request.complete
    /\ Exits(2)
    /\ UNCHANGED <<input, average, spec, outcome>>

\* The node is built, or its configuration (the credentials) raises.
BuildsNode ==
    /\ phase = "args" /\ ~request.dry /\ request.complete
    /\ \/ phase' = "node" /\ UNCHANGED exit
       \/ Exits(1)
    /\ UNCHANGED <<input, average, spec, outcome>>

SkipsInjection ==
    /\ phase = "node" /\ request.skip
    /\ Exits(0)
    /\ UNCHANGED <<input, average, spec, outcome>>

\* The instrument is loaded and put into the cache, or loading it raises.
Injects ==
    /\ phase = "node" /\ ~request.skip
    /\ \/ phase' = "limits" /\ UNCHANGED exit
       \/ Exits(1)
    /\ UNCHANGED <<input, average, spec, outcome>>

\* Limits and order spec; the command passes avg_price=None, so its requests
\* have no average.
Prepares ==
    /\ phase = "limits"
    /\ IF Translates(instrument) /\ Builds(Priced, Limits)
       THEN /\ spec' = Floored(Priced, Limits)
            /\ phase' = "live"
            /\ UNCHANGED exit
       ELSE Exits(1) /\ UNCHANGED spec
    /\ UNCHANGED <<input, average, outcome>>

-----------------------------------------------------------------------------
(* The order on its way.                                                   *)

\* order_spec_to_submit raises on any other side or type.
Converts == spec.side \in {"BUY", "SELL"} /\ spec.type \in {"LIMIT", "MARKET"}

\* NT's order factory takes positive quantities only.
FactoryTakes == spec.qty > 0

\* on_start of the strategy, or the library caller's conversion.  NT's risk
\* engine may deny the order, which no handler of the strategy hears of.
Submits ==
    /\ phase = "live" /\ order = "none"
    /\ Converts /\ FactoryTakes
    /\ order' \in {"sent", "denied"}
    /\ UNCHANGED <<input, average, phase, spec, answer, result, exit, refusal, misreported>>

\* The conversion or the factory raises: out of on_start and through node.run,
\* or to the library caller.
SubmitRaises ==
    /\ phase = "live" /\ order = "none"
    /\ ~(Converts /\ FactoryTakes)
    /\ order' = "failed"
    /\ IF request.caller = "cli" THEN Exits(1) ELSE UNCHANGED <<phase, exit>>
    /\ UNCHANGED <<input, average, spec, answer, result, refusal, misreported>>

\* The venue's own filters, for a limit order; a price bound of 0 is none.
VenueFilters ==
    /\ spec.qty % instrument.step = 0 /\ spec.price % instrument.tick = 0
    /\ instrument.qtyMin # None => spec.qty >= instrument.qtyMin
    /\ spec.qty <= instrument.qtyMax
    /\ instrument.priceMin \notin {None, 0} => spec.price >= instrument.priceMin
    /\ instrument.priceMax \notin {None, 0} => spec.price <= instrument.priceMax
    /\ instrument.minNotional # None => spec.price * spec.qty >= instrument.minNotional

\* A market order can be refused for want of notional at the venue's price.
Refuses(why) ==
    CASE why = "filters" -> spec.type = "LIMIT" /\ ~VenueFilters
      [] why = "band"    -> spec.type = "LIMIT" /\ VenueFilters
                              /\ ~InBand(spec.price, Band[spec.side], average)
      [] why = "other"   -> TRUE

\* The answer may be lost on its way, and NT then publishes no event; or it is
\* an error page from before the venue, which NT's adapter takes for a refusal.
VenueAccepts ==
    /\ order = "sent"
    /\ \A why \in {"filters", "band"} : ~Refuses(why)
    /\ order' = "placed"
    /\ answer' \in {"accepted", "rejected", "none"}
    /\ misreported' = (answer' = "rejected")
    /\ UNCHANGED <<input, average, phase, spec, result, exit, refusal>>

VenueRefuses ==
    /\ order = "sent"
    /\ order' = "refused"
    /\ \E why \in {"filters", "band", "other"} : Refuses(why) /\ refusal' = why
    /\ answer' \in {"rejected", "none"}
    /\ UNCHANGED <<input, average, phase, spec, result, exit, misreported>>

AverageMoves ==
    /\ order = "sent"
    /\ average' \in Averages \ {average}
    /\ UNCHANGED <<input, phase, spec, outcome, exit>>

-----------------------------------------------------------------------------
(* The strategy's handlers and the end of the command.                     *)
Running == request.caller = "cli" /\ phase \in {"live", "stopping"}

OnOrderAccepted ==
    /\ Running /\ answer = "accepted"
    /\ answer' = "none"
    /\ result' = "accepted"
    /\ phase' = "stopping"
    /\ UNCHANGED <<input, average, spec, order, exit, refusal, misreported>>

\* Mutant of OnOrderRejected: the node is not shut down.
OnOrderRejectedStays ==
    /\ Running /\ answer = "rejected"
    /\ answer' = "none"
    /\ result' \in {"rejected", "none"}
    /\ UNCHANGED <<input, average, phase, spec, order, exit, refusal, misreported>>

\* A rejection without a reason leaves nothing the report would read.
OnOrderRejected ==
    /\ Running /\ answer = "rejected"
    /\ answer' = "none"
    /\ result' \in {"rejected", "none"}
    /\ phase' = "stopping"
    /\ UNCHANGED <<input, average, spec, order, exit, refusal, misreported>>

\* The operator interrupts the node.
Interrupted ==
    /\ request.caller = "cli" /\ phase = "live"
    /\ phase' = "stopping"
    /\ UNCHANGED <<input, average, spec, outcome, exit>>

\* Mutant of Report: no answer counts as a failure.
ReportFailed(told) == IF told = "accepted" THEN 0 ELSE 1

Report(told) ==
    IF told = "accepted" THEN 0 ELSE IF told = "rejected" THEN 1 ELSE 2

\* node.run() returns; an event on its way is not handled any more.
NodeStops ==
    /\ phase = "stopping"
    /\ Exits(Report(result))
    /\ UNCHANGED <<input, average, spec, outcome>>

Handles == OnOrderAccepted \/ OnOrderRejected

Next ==
    \/ DryRun \/ UsageError \/ BuildsNode \/ SkipsInjection \/ Injects \/ Prepares
    \/ Submits \/ SubmitRaises \/ VenueAccepts \/ VenueRefuses \/ AverageMoves
    \/ Handles \/ Interrupted \/ NodeStops

\* NT dispatches the events it has, and a node that was told to stop does.
Fairness == WF_vars(Handles) /\ WF_vars(NodeStops)

FairSpec == Init /\ [][Next]_vars /\ Fairness

-----------------------------------------------------------------------------
(* Reference for build_order_spec, over the instrument as the venue lists  *)
(* it: of all prices and quantities on the grid the largest that does not  *)
(* exceed the request's.                                                   *)
Magnitude(v) == IF v < 0 THEN -v ELSE v
Largest(v, unit) ==
    CHOOSE g \in -Magnitude(v) .. Magnitude(v) :
        /\ g % unit = 0 /\ g * v >= 0
        /\ \A h \in 0 .. Magnitude(v) : h % unit = 0 => h <= Magnitude(g)

Best ==
    [side |-> request.side, type |-> request.type,
     price |-> IF request.type = "MARKET" THEN 0
               ELSE Largest(Priced.price, instrument.tick),
     qty |-> Largest(request.qty, instrument.step)]

Within(v, low, high) == (low # None => v >= low) /\ (high # None => v <= high)

\* A price bound of 0 is none.
Binding(bound) == IF bound = 0 THEN None ELSE bound

\* The grid there must be for an order of this type.
HasGrid == instrument.step > 0 /\ (request.type = "MARKET" \/ instrument.tick > 0)

\* What the code promises of Best, "ready for submission", and checks.
BestFits ==
    /\ Within(Best.qty, OrZero(instrument.qtyMin), instrument.qtyMax)
    /\ \/ request.type = "MARKET" /\ ~AppliesToMarket(instrument)
       \/ Within((IF request.type = "MARKET" THEN Priced.price ELSE Best.price)
                     * Best.qty, OrZero(instrument.minNotional), None)
    /\ request.type # "MARKET" =>
          /\ Within(Best.price, Binding(instrument.priceMin),
                             Binding(instrument.priceMax))
          /\ request.average # None =>
                /\ request.side \in {"BUY", "SELL"}
                /\ InBand(Best.price, Band[request.side], request.average)

(* precision.py:191: build_order_spec returns the request floored to the   *)
(* grid if that order passes the filters, the band only when an average is *)
(* known; it never returns another order and refuses only when that one    *)
(* fails.                                                                  *)
BuildsTheBestOrder ==
    /\ spec # None => spec = Best /\ BestFits
    /\ phase = "exited" /\ spec = None /\ request.caller = "library" =>
          ~Translates(instrument) \/ ~HasGrid \/ ~BestFits

(* cli.py:126: "precision round + validate".  A limit order is never       *)
(* refused for a filter it could have been checked against; the percent    *)
(* price band is another matter, the command does not check it and the     *)
(* average moves.                                                          *)
OrderMeetsFilters == refusal # "filters"

(* far_limit.py:32: the margin is a "nudge above the PPBS floor to avoid   *)
(* rejection".  Where the margin is worth a tick, a far limit order is     *)
(* refused from below the band only if the average has risen meanwhile.    *)
MarginWorthATick ==
    Band["BUY"].down * request.reference * SafetyMargin
        >= instrument.tick * Hundred * Thousand

FarOrderInBand ==
    request.far /\ MarginWorthATick /\ request.side = "BUY" /\ ~IsMarket(request) =>
        /\ spec # None => spec.price * Hundred >= request.reference * Band["BUY"].down
        /\ refusal = "band" /\ spec.price * Hundred <= average * Band["BUY"].up =>
              average > request.reference

(* cli.py:162-172.  What a script may conclude from the exit code: after a *)
(* 0 the venue took the order, unless none was asked for; after a 1 it did *)
(* not, and the command may be run again, unless an error page hid that it *)
(* did; a 2 leaves it open.                                                *)
ExitTells ==
    /\ exit = 0 => order = "placed" \/ request.dry \/ request.skip
    /\ exit = 1 => order \in {"none", "failed", "refused"} \/ misreported

(* oneshot_strategy.py:54-67: once the venue's answer has reached the      *)
(* command, the node is shut down and the command ends.  (Without an       *)
(* answer, as after a denial, it runs until it is interrupted.)            *)
AnsweredRunEnds ==
    request.caller = "cli" /\ phase = "live" /\ answer # "none" ~> exit # None

=============================================================================
