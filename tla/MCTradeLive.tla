---------------------------- MODULE MCTradeLive -----------------------------
\* Instances of TradeLive for TLC.
EXTENDS TradeLive

Bands == [BUY |-> [down |-> 50, up |-> 150], SELL |-> [down |-> 60, up |-> 200]]

\* Every filter in force.  A margin of a tenth of 50 or so is worth a tick
\* of 5 but not one of 10.
Plain ==
    [tick |-> 5, step |-> 2, qtyMin |-> 2, qtyMax |-> 6, priceMin |-> 10,
     priceMax |-> 140, minNotional |-> 205, percentPrice |-> Bands,
     notional |-> [market |-> TRUE], minNotionalFilter |-> None]

\* Coarse grid, the older filter, no limits on price; then an instrument
\* without any minimum, and those the translation refuses.
MCInstruments ==
    {Plain,
     [Plain EXCEPT !.tick = 10, !.priceMin = None, !.priceMax = None,
                   !.notional = None, !.minNotionalFilter = [market |-> None]],
     [Plain EXCEPT !.qtyMin = None, !.minNotional = None,
                   !.notional = [market |-> FALSE],
                   !.minNotionalFilter = [market |-> TRUE]],
     [Plain EXCEPT !.percentPrice = None],
     [Plain EXCEPT !.percentPrice.SELL.up = None],
     [Plain EXCEPT !.notional = None],
     [Plain EXCEPT !.qtyMax = None]}

MCAverages == {98, 102, 120}

\* What a library caller knows of the average.
Known == {98, 102}

\* Reference prices of a far limit: with the tick of 5 the margin is worth a
\* tick for all but the first, with the tick of 10 for the last one only.
\* The limit for 102 is 55, below the band once the average is 120.
References == {98, 102, 109, 120, 200}

\* Prices below, inside and above the bounds and the bands, on the grid and
\* off it, a negative one among them; quantities that floor to nothing, to
\* the bounds and beyond.
Prices     == {-7, 9, 51, 59, 64, 140, 158}
Quantities == {-3, 1, 2, 5, 8}

Command ==
    [caller |-> "cli", dry |-> FALSE, skip |-> FALSE, complete |-> TRUE,
     side |-> "BUY", type |-> "LIMIT", far |-> FALSE, price |-> 100,
     qty |-> 6, reference |-> 98, average |-> None]

Commands ==
    {[Command EXCEPT !.dry = TRUE], [Command EXCEPT !.skip = TRUE],
     [Command EXCEPT !.complete = FALSE]}
    \cup {[Command EXCEPT !.side = s, !.price = p, !.qty = q] :
             s \in {"BUY", "SELL"}, p \in Prices, q \in Quantities}
    \cup {[Command EXCEPT !.far = TRUE, !.reference = a] : a \in References}

\* A library caller passes the average it knows or none.
Calls ==
    {[Command EXCEPT !.caller = "library", !.side = s, !.type = t, !.price = p,
                     !.qty = q, !.average = a] :
        s \in {"BUY", "SELL", "HOLD"}, t \in {"LIMIT", "MARKET", "STOP"},
        p \in Prices, q \in Quantities, a \in Known \cup {None}}
    \cup {[Command EXCEPT !.caller = "library", !.far = TRUE, !.reference = a,
                          !.average = a] : a \in References}

MCRequests == Commands \cup Calls

=============================================================================
