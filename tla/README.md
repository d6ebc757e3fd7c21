# hermes_ai: TLA+ models, model checking and proofs

This directory specifies the stateful parts of `hermes` (a trading runtime on
NautilusTrader, "NT" below): the risk guard and its stored kill switch, the
bridge that feeds it, the market data client, the order id store, the REST
client and the order submission above it, the preparation of an order and the
command that sends one, the monitoring bot, and two strategies. Every definition is translated from the Python source; where a comment, a
docstring or a document says something else than the code, the code was modelled.
Line numbers refer to the files under `src/src/hermes/`.

    tlc -config RiskGuard_breakers.cfg MCRiskGuard   # any run of PROJECT.json
    tlapm GuardProofs.tla                            # the proofs, module by module

## 1. The system

| Component | State it keeps | Operations | What is hard |
|---|---|---|---|
| `risk/guard.py` RiskGuard | state, loss counter, daily sum, order times | `halt`, `check_order`, `on_trade_result`, `reset_daily`, construction from a snapshot | memory is changed before the callback and the save; the callback or the save may raise, the process may die; calls with and without `now`; day boundaries; window boundaries |
| `risk/risk_state_store.py` FileStateStore | the snapshot file and its temporary file | `load`, `save` | crash or failure between write, fsync and rename |
| `execution/exec_bridge.py` ExecBridge | set of handled fills | fill and position events from the NT bus | duplicates, replays after a restart, an extractor that raises after the fill was marked, cumulative figures |
| `execution/order_id.py`, `seen_store.py` | ids in memory and in one shared file | `generate`, `register`, `load`, `add` | several processes, a lock, a buffered line, crashes |
| `exchanges/binance_ws.py` BinanceWsClient | connection, counters, bounded queue | `async with`, `stream()`, supervisor, read loop | three tasks interleaving at awaits, cancellation, reconnects, a full queue, a 23 hour cap |
| `exchanges/binance_rest.py` BinanceRestClient | the HTTP client | `connect`, `aclose`, every endpoint through `_request` | lost answers, retries, closing under running calls, overlapping closes |
| `execution/binance_exec_client.py` | nothing of its own | `_submit_order` | exceptions after the order was reported as submitted; what NT believes against what the venue did, and does later, since there is no user data stream |
| `monitoring/` Alerter, RestReader, `__main__` | counters, alarm flags, last reading | polls, sends, `run`, `stop`, signals | failing sends half way through a poll, signals at any time |
| `strategies/v25_trend.py` | position, equity, loss counter, cooldown, indicators | `on_bar` | a long chain of stops, profit steps and adds on one bar; orders rounded one by one; resets spread over four paths |
| `execution/oneshot_strategy.py`, `cli.py` | one order; the process | order events, `trade-live` | outcomes no handler waits for; what an exit code may mean |
| `execution/precision.py`, `far_limit.py`, and the parts of `nt_translate.py` and `nt_submit.py` about instruments and commands | none | `build_order_spec`, `compute_far_limit_buy`, limits of an instrument | rounding at boundaries, absent filters, a price band around an average that moves |
| `strategies/sma_crossover.py` | a crossover latch | `on_bar` | the crossing is consumed before the order is filled |
| the rest of `nt_translate.py`, `adapters/`, `exchanges/binance_contracts.py`, `_signing.py`, `core/` | none | conversions, configuration | formats |

How they interact. NT publishes order and position events on its bus; ExecBridge
turns them into calls of `RiskGuard.on_trade_result`; the guard calls its
`on_halt` callback and saves through its store. `BinanceLiveExecClient` takes an
order from NT, generates events for it and awaits `BinanceRestClient.new_order`,
which goes through `_request`. `OrderIdFactory` is used by whoever creates
orders, in several processes over one `FileStore`. The bot polls a RestReader
and sends through Telegram. RiskGuard, ExecBridge, OrderIdFactory and the exec
client are libraries at this commit: `cli.py` runs NT's own Binance client and
wires none of them together, so their callers are modelled as what their
signatures and docstrings allow.

What makes each correct: a halt is final, and no order passes under it; the
breakers count the trades that happened; the throttle is exact; a trade reaches
the guard once; market data comes in order, once, and in the end; an id that was
handed out is known for ever; one call places at most one order; NT is told the
truth about an order; an order that is built is the best on the venue's grid and
passes its filters; an exit code tells what became of the order; the operator is
told the truth about the connection; the strategy's position is the account's.

## 2. The modules

| Module | Models | Uses |
|---|---|---|
| `KillSwitch` | what the guard and its store promise: a one-way durable latch under which no order passes | |
| `RiskGuard` | RiskGuard and FileStateStore | refines `KillSwitch` |
| `MCRiskGuard` | its instances | `RiskGuard` |
| `ExecBridge`, `MCExecBridge` | the bridge in front of the guard | extends and refines `RiskGuard` |
| `MessageStream` | what `stream()` promises its consumer: a bounded first-in first-out buffer whose oldest message only a cancelled consumer makes disappear | |
| `WsClient` | BinanceWsClient | refines `MessageStream` |
| `OrderIds` | OrderIdFactory over FileStore | |
| `RestClient` | BinanceRestClient's connection and `_request` | |
| `OrderSubmit` | `_submit_order` next to other callers of the connection | extends `RestClient` |
| `Precision` | flooring, filters, `build_order_spec`, far limit, limits of an instrument; operators only | |
| `TradeLive`, `MCTradeLive` | an order from its request to the venue's answer, by `trade-live` and by a library caller | extends `Precision` |
| `Alerter` | Alerter, RestReader, the signal handlers of `__main__` | |
| `V25Trend` | V25TrendStrategy and the account its orders move | |
| `SmaCrossover` | SMACrossoverStrategy and the position its orders move | |
| `GuardProofs` | the theorems about the guard, alone and behind the bridge | `ExecBridge` |
| `OrderSubmitProofs`, `OrderIdsProofs`, `TradeLiveProofs`, `WsClientProofs`, `AlerterProofs`, `V25TrendProofs`, `SmaCrossoverProofs` | the theorems about each | the module they are named after |

An operator whose comment begins "Mutant of X" is a deliberately wrong variant
of X, the kind of slip a change of the code could make. Nothing uses it; it is
there to be put in the place of X, to see that a property notices.

**RiskGuard.** One variable per attribute (`state`, `consecutiveLosses`,
`dailyPnl`, `orderTimes`), one for each of the two files (`tmp`, `disk`), and
`pc`, which says where a call is: `halt`, a tripping `on_trade_result` and a
stamped `reset_daily` change memory in their first step, then come `OnHaltReturns`
or `OnHaltRaises`, `SaveWrites` (temporary file), `SaveReplaces` (`os.replace`) or
`SaveFails`. `Crash` can come between any two. `now` is the caller's `clock` or
`None`; a snapshot without it has neither date nor daily sum, as `_snapshot`
makes it. `check_order` may also come while `on_halt` runs, since the callback
may ask the guard back. History variables (`streak`, `dayPnl`, `passed`,
`fate`: whether a call was cut short, or left the guard HALTED by returning or by
raising) record what happened and are read by properties only.

**ExecBridge** extends the guard: every bridge step contains the guard's step
(`Feed` is `TradeResult` or `TradeIgnored`) or leaves the guard alone, and the
guard's remaining steps run in between. After a restart the fill set is empty and
earlier trades come back marked as reconciliation, together with any the process
missed. The bridge stamps no call, so the guard behind it is one with `Stamped`
FALSE: a hypothesis of the bridge's theorems, and the value in its configurations.

**WsClient.** `main` is the await the supervised task is at, `consumer` and
`getter` those of `stream()` and its helper task. `Close` only requests a
cancellation; `Cancelled` delivers it wherever the task awaits. Each way a
connection ends (refused, timed out, closed by the server, dropped, cap) is an
action of its own with the branch of `_run_with_reconnect` it takes. A frame is
one of the classes the parser tells apart: a message of its kind, one it turns
into UNKNOWN, or one that makes it raise (`Frame`, `FrameRaises`), which ends the
connection like any other exception. **MessageStream** is the promise of `stream()`
alone: what waits is the queue and, ahead of it, the message the helper task holds;
a message arrives, is queued at once or later, is yielded, or is the oldest when a
consumer is cancelled. The supervisor's other steps are stutters there.

**OrderIds.** `add()` is five steps: open, lock, buffer, unlock, close. The line
leaves the buffer when the file is closed, which in the code is after the lock
was released. The file is a set of ids: each line is one short write in append
mode.

**RestClient.** Time is counted in half seconds since a call signed its
parameters (`age`), the unit of the pause between attempts, up to one past the
receive window. The venue handles a request and the answer may be lost, be an
error page ("garbled") or a 2xx body of another shape than promised ("odd"), and
either may hide that an order was executed. Time-outs and network errors are
retried, every other error of the transport ends the call, and a call may be
cancelled at its awaits. `aclose` is two halves around its await: `closing` holds
the HTTP clients whose close is awaited, another `aclose` may run meanwhile
(`CloseAgain`), and the second half (`CloseEnds`) sets `_client` to None whatever it
is by then. **OrderSubmit** makes a call the `new_order` of one order, or a public
or signed call of somebody else, and adds NT's view (`event`) and the venue's:
`shown` is the status the answer carries and `status` the present one. They part
when the venue goes on (`VenueMoves`): a resting order is filled, cancelled or
expires, while its answer is under way or later, and nothing of that reaches the
client. `hidden` remembers the orders that were executed behind an error page.

**Precision** computes where the code has exact decimals: a price or a quantity
is an integer in the smallest unit the venue knows, a multiplier counts
hundredths and the safety margin thousandths, so the only rounding is the code's
own. (Decimals have 28 digits; a value of more, which no venue trades, could make
the quotient in `floor_to_tick` round up and is not modelled.) **TradeLive** takes a request through the phases of the command (`args`,
`node`, `limits`, `live`, `stopping`, `exited`), or, for a library caller, through
`limits` and `live` alone. NT may deny the order, the venue accepts or refuses it
by its own filters and its own average, which moves meanwhile, and its answer may
be lost, or be an error page behind which the order was placed and which NT's
adapter takes for a refusal (`misreported`). What the conversion or the order
factory refuses raises out of `on_start` and ends the command with 1. The strategy's three handlers, an interrupt and the report end the
command with the exit code the code gives.

**Alerter.** A poll is its reads, then the stages ping, drift and price, each of
which may send; a send that raises leaves the loop there. Prices are levels
further apart than the warning threshold.

**V25Trend.** `on_bar` is one action, a chain of operators on the strategy's book
in the order of the code: hard stops, soft stop, three profit steps, trailing
stop, pyramid, dominance add, then pause or entry. The indicators are the
environment's choice, restricted to bars that can follow each other (`Follows`).
The account next to it holds whole lots, each order rounded on its own as `_qty`
does, and pays the taker fee of the instrument (`Fee`, `instruments.py:46`), of which
`_eq` knows nothing. `fees` and `phantom` keep apart what was paid that way and what
a trailing stop credited for a position it kept. Amounts are integers; a division rounds down where the floats of the code
keep more digits. The write-only trade log is left out.

**SmaCrossover.** `on_bar` updates both averages, compares them without dividing,
sets the latch and submits. The code compares floats: two equal means may come out
a rounding apart, so they may read either way (`Readings`). `Fill` and `Refuse` come
whenever NT makes them.

## 3. The runs

CHECK_DEADLOCK is FALSE everywhere: each of these systems may stop, because its
owner closes it, every call has returned, or a bound is reached.

| Run | Expect | What it shows | Bounds, and why they are enough |
|---|---|---|---|
| `RiskGuard_breakers` | pass | with a clock on every call and `reset_daily` before a day's first trade, with a callback and a store that may raise and crashes anywhere: a halt whose call returned survives every restart (`HaltSurvivesRestart`); until a call is cut short, an ACTIVE guard counts exactly the losses (`StreakEnforced`) and the day's sum (`DrawdownEnforced`), over restarts; the throttle admits at most its limit (`ThrottleBound`) and refuses only a full window (`ThrottleFair`) | two days of two instants, trades of -2, -1, 0 and 1 against limits 3 and 4: either breaker can trip first, wins interrupt streaks, restarts meet snapshots of today and yesterday; window 2, limit 2: windows fill, slide and empty; arguments absent, at and past each bound |
| `RiskGuard_onhalt_raises` | violation | a callback that raises keeps the halt from being saved | |
| `ExecBridge_fills` | pass | no trade is fed twice, none is swallowed, and the guard with its store is a one-way latch (`ImplementsKillSwitch`), with callback, store and extractor raising and crashes anywhere | three trades: a losing one, a winning one and one with a foreign commission; both extractors; any number of restarts |
| `ExecBridge_positions` | violation | cumulative figures of position events are summed | as above |
| `WsClient_stream` | pass | order and accounting of messages, the refinement of `MessageStream`, the uptime clock and the counts (`ClockAndCountsAgree`), and liveness: what is queued is yielded, close ends the iteration, the supervisor connects again | queue of 2, 4 frames (one more than queue, put and getter hold), of which some are UNKNOWN and some make the parser raise, 2 failures, 1 cancelled consumer; messages of the other kinds differ in a counter only |
| `OrderIds_durable` | pass | ids handed out are stored and recognised after a restart; nobody waits for the lock for ever | two processes, two ids, unlimited crashes and refused writes |
| `OrderSubmit_belief` | pass | one execution per call (`OnePlacementPerCall`), what an outcome tells (`OutcomeTellsOrder`), NT's view of an order against the venue, where it moves on (`BeliefMatchesVenue`), when NT may be left without an answer (`UnknownOnlyWhenRaised`, `SubmittedSettles`), when an HTTP client may be lost (`LeakNeedsOverlap`); every call ends | one call of any kind: a call reads the connection and writes nothing that another call or the owner reads, so several calls are these behaviours next to each other (the theorems are for any number); the defaults' two retries, time-out 10 s over a window of 5 s; four HTTP clients, where overlapping closes with a connect between them take two, the owner closing at any time, closes overlapping and cancelled |
| `TradeLive_once` | pass | what `build_order_spec` returns is the largest order on the grid within the request, by a reference that searches it (`BuildsTheBestOrder`); the venue's filters hold (`OrderMeetsFilters`), a far limit keeps its band (`FarOrderInBand`), exit codes (`ExitTells`); an answered command ends | seven instruments: two grids, each filter absent, and those the translation refuses; prices on and off the grid, below, inside and above every bound, a negative one; quantities that floor to nothing, to the bounds and beyond; references around and above the one (100) from which the margin is worth a tick of 5, and one (200) where it is worth a tick of 10; averages below and above the reference, so that a far limit is also refused after a rise |
| `Alerter_told` | pass | after every poll the latest messages describe connection and clock; a signal ends the bot | outages up to 5 against a threshold of 3, two price levels |
| `V25Trend_account` | pass | account and position agree up to half a lot for each order, and a position that began with 24 lots is never short; equity is cash with the commissions paid and the credits for positions kept, pauses are kept | five bars at four prices that reach every stop and profit step (-8, -13, -20, +9, +32 %...); pauses of 1 and 2 bars and a streak of 2 instead of 6, 24 and 3, so that two losing exits, the pause and the next entry fit; a fee of 1 % instead of 0.01 %, so that the commission of one order exceeds the rounding allowed for it |
| `V25Trend_pyramid` | violation | a breakout to a new high never adds the second level | four bars |
| `SmaCrossover_follows` | pass | the position follows the two lines while orders are filled before the next bar | averages of 2 and 4 over three closes, every sequence of them, equal averages among them; three orders under way |

Assumptions of runs that the code does not enforce: `RiskGuard_breakers` has a
caller that stamps every call and resets every day; without them a process that
runs past midnight carries yesterday's sum. `StreakEnforced` and
`DrawdownEnforced` say nothing once an exception or a crash has cut a call short (a trade counted in
memory is then missing from the file) unless a halt has returned since.
`BeliefMatchesVenue` exempts orders executed behind an error page, which NT believes
rejected. It allows an accepted order to have been filled, cancelled or expired
since the answer, and one whose answer said expired, cancelled or ended with
executions. `UnknownOnlyWhenRaised` and `SubmittedSettles` exempt the exceptions that
leave `_submit_order`, and `LeakNeedsOverlap` two overlapping closes; section 4
describes what the code does in each of these cases. `ExitTells` exempts
a rejection that an error page made up (`misreported`): the exit code is then 1 with
an order at the venue, which the command has no means to know.
`FarOrderInBand` asks for a margin worth at least a tick; a smaller one is lost to
flooring and the order falls below the band. `AnsweredRunEnds` speaks of orders
whose answer reaches the strategy; after a denial or a lost answer the command runs
until it is interrupted. `FollowsCrossings` speaks of histories in which every
order was filled before the next bar; a later fill may leave the position open
below the slow line or buy it twice. On equal averages either
answer will do. `EquityIsCash` compares the equity with cash, commissions and the credits of trailing stops that kept
their position together: by itself the cash falls behind by each of the two.
`AccountFollows` says "never short" of positions that began with 24 lots or more
(`Large`): stops and profit steps leave at least 15 % of what was bought, and at most
nine orders are each rounded by half a lot. With five lots the rounded profit steps
and the soft stop together do sell more than was bought (with a capital of 25 000 in
the run's units the account ends a bar with -1 lot).

The guard and bridge runs use a VIEW that leaves out history variables their
properties do not read (`streak`, `dayPnl`, and for the bridge `passed`), which grow
without bound when crashes lose trades. `RiskGuard_breakers` leaves out the first
two once its properties have stopped reading them, and of `verdict` keeps whether it
is "throttle"; no guard of an action reads any of these. Other bounds
are constants named in the modules: `MaxClock`, `PnlBound`, `MaxFrames`,
`MaxFailures`, `MaxCancels`, `MaxConnects`, `MaxOutage`, `MaxBars`, `MaxPending`.

**Fairness.** WsClient: asyncio runs a ready task (weak fairness of the steps of
`stream()`, of `put` resuming, of a delivered cancellation, of a sleep ending),
and a server that can be connected to again and again at last is (strong
fairness of `ConnectOk`); the client is entered, and nothing more is assumed of
the owner, of frames or of failures. OrderIds: a process inside the critical section goes on (weak) and one
that waits for a lock that is free again and again gets it (strong; the kernel
queues waiters); crashes may end either. RestClient and OrderSubmit: a pause
ends, a request is answered or times out, which httpx's timeout ensures, and a
ready task is run. TradeLive: NT dispatches the events it has, and a node that was
told to stop does; nothing is assumed of the venue or of the operator.
Alerter: reads and sends return (the clients have timeouts) and an interval
elapses. No other liveness is claimed.

## 4. Where the code and its words differ

Checked as runs:

- `guard.py:193`: on a trip the guard is HALTED in memory, then `on_halt` runs,
  then it is saved. A callback that raises skips the save; the next process
  starts ACTIVE, against "HALTED persists across restarts" (`guard.py:44`).
- `exec_bridge.py:121`: the position extractor hands on the cumulative realized
  pnl of an open position at every event, and the guard adds it up as if each
  were "a completed trade's PnL" (`guard.py:179`).
- `v25_trend.py:314`: the second and third pyramid level require a close above
  `peak_price`, which line 236 has already raised to this close; "3 levels"
  (line 41) are one.

Met while modelling, in the models as steps, without a run of their own:

- `binance_ws.py:565`: the attempt counter is cleared by a clean end or the cap, not
  by a successful connection, so it can be above 0 while connected;
  `docs/architecture/binance_ws.md:136-137` says this means a back-off cycle.
- `binance_ws.py:547`: a handshake that times out raises the same `TimeoutError`
  as the 23 hour cap ("Not a failure."), so it reconnects at once, uncounted, against
  "Any other error (...): log with traceback and back off" (`:556`).
- `binance_rest.py:592`: a 5xx or a non-JSON answer is raised as the "Binance-side
  rejection" (`:329`) it may not be; `_submit_order` then reports an order that was
  executed as rejected.
- `binance_exec_client.py:119`: the fills of an answer are reported for FILLED and
  PARTIALLY_FILLED only; an order that expired after a part was executed is accepted
  without them, against "submitted → accepted/rejected + fills" (`:28`).
- `binance_exec_client.py:87`: a transport error, a failed assertion, a missing
  `orderId` or a cancellation leaves an order submitted for ever, against the same
  line.
- `binance_rest.py:192`: with two overlapping `aclose()` calls around a `connect()`
  the slower one forgets the new client without closing it, though `aclose` is
  "Idempotent" (`:188`).
- `binance_ws.py:460`: the parser's except clause names ValueError, KeyError and
  TypeError. A number that is no decimal raises `decimal.InvalidOperation`, a stream
  name that spells its kind in capitals ("@KLINE_") an `IndexError`: the message is
  counted and the connection left as after a failure, against "never raise" (lines
  291, 323, 586) and the tests of the parser.
- `binance_ws.py:676`: a consumer cancelled after the helper task took a message
  loses that message.
- `binance_rest.py:520`: the timestamp is signed once; after one time-out of 10 s
  a retry is past the receive window of 5 s and can only be refused.
- `binance_rest.py:543`: a call that wakes up to a closed client ends with an
  exception its docstring does not list.
- `binance_rest.py:545`: time-outs and network errors are retried; any other error of
  the transport (a server that disconnects without an answer) is not.
- `binance_rest.py:369`: a 2xx body that is not an object fails an assertion.
- `seen_store.py:120`: the line is written when the file is closed, after the lock
  was released. `order_id.py:57`: a new id is not compared with the seen ones.
- `alerter.py:154`: a signal before `run()` is lost. `alerter.py:87`: a send that
  raises ends the loop. `alerter.py:131`: a failed price read forgets the price.
- `cli.py:162-172`: 1 means a rejection or any exception before the order, 2 an
  unknown result, a usage error, or a rejection without a reason.
- `cli.py:134`: the command passes no average, so the percent price band is not
  checked. `precision.py`: an instrument without a minimum quantity lets a quantity
  floor to 0, which NT's order factory refuses.
- `far_limit.py:47`: flooring may undo a margin smaller than a tick.
- `sma_crossover.py:61`: the crossing is consumed whether or not its order is filled.
- `v25_trend.py:299`: the trailing stop at a loss credits the equity and keeps the
  position, bar after bar; the comment calls this faithful to its origin.
- `v25_trend.py:235-391`: the equity tracker takes no commission into account, which
  the engine charges by the instrument (`instruments.py:45-46`).

## 5. What is proved

For every value of the constants that satisfies the ASSUMEs of the modules (types
of constants, `None` distinct from values) and for unboundedly many steps. Each
proof has one inductive invariant or a few, one lemma per step of `Next` or per
group of steps, and a last step by temporal logic.

Every invariant and every action property of a passing run is the statement of a
theorem here, and so are both refinements.

**GuardProofs**, the guard:
- `TypeCorrect`: `TypeInv` strengthens the types by what the prover needs of a
  running call.
- `RefinesKillSwitch`, under every fault: `LatchInv` says that once the stored state
  is HALTED, a live guard is HALTED, and so is the snapshot waiting in the temporary
  file; without the second part a rename could reopen the latch. Every step then
  maps to a step of `KillSwitch` or to a stutter.
- `HaltIsDurable` (`HaltSurvivesRestart`), with a store (`HasStore`), under every
  fault: `AckInv` says that the halt of a call that returned is on disk, where
  `LatchInv` keeps it.
- `ThrottleHolds` (`ThrottleBound`): `ThrottleInv` relates `orderTimes`, which the
  code prunes, to every order that passed: what was pruned lies outside every
  window that can still be filled, because the clock only moves on. `ThrottleIsFair`
  (`ThrottleFair`, an action property) by `SlotInv`, the other direction: what is in
  `orderTimes` is an order that passed.
- `StreakHolds` (`StreakEnforced`), with a store, under every fault: until a call is
  cut short `StreakInv` ties the counter in memory, and between calls the one on
  disk, to the losses in a row; after a halt has returned, `AckInv` is enough.
- `DrawdownHolds` (`DrawdownEnforced`), for callers that in addition stamp every call
  and reset every day: `DrawdownInv` says whose day the snapshot on disk tells, which
  is what decides whether a restart may take its sum.

**GuardProofs**, the bridge. `BridgeImplementsGuard`: every step of the bridge is one
of the guard or a stutter, so what is proved of the guard holds behind the bridge:
`BridgeRefinesKillSwitch`, `BridgeHaltIsDurable`, `BridgeStreakHolds`. (The sum of the
day does not carry over: the bridge stamps no call.) `BridgeStaysShut` reads off the
latch what an operator relies on: while the stored state is HALTED no order passes,
and it is never anything else again, over every restart. `BridgeTypeCorrect`,
`NoTradeFedTwice`, `NoFillSwallowed` by `BridgeInv`, which says that a trade that was
fed is remembered, or is of an earlier process and comes back as reconciliation only.
The bridge's theorems have the hypothesis `~Stamped`, since the bridge stamps no call;
those about a guard whose callers stamp have `Stamped`, and the two do not meet.

**OrderSubmitProofs.** `RestInv` says, call by call, what an attempt, an answer and an
outcome imply about the orders executed for it; from it come `OneOrderPerCall` and
`OutcomeIsTrue`. `ConnInv` says that as long as no close returned under another one
(`overlapped`) at most the present client is being closed and every earlier one has
been: `ClientsAreClosed` (`LeakNeedsOverlap`). `SubmitInv` ties NT's event to the stage
of the call and to the status the answer carried, and `Reached` says how far the
venue may have gone from there: `SubmitTypeCorrect`, `BeliefIsTrue`,
`IgnoranceIsRaised`.

**OrderIdsProofs.** `IdsInv` says that a buffered line is the one of the running add and
that what an add has returned is in the file: `IdsTypeCorrect`, `IdsAreDurable`,
`RestartsRecogniseIds`, for any number of processes.

**TradeLiveProofs.** Lemmas about `FloorToTick` (on the grid, towards zero, idempotent,
the largest of the grid within) and `FarLimit` (not below the band when the margin is
worth a tick); `OrderInv` says that a spec is the floored request and that the code's
checks passed it, hence `FiltersAreMet` and `FarOrdersStayInBand`. `BestOrderIsBuilt`
(`BuildsTheBestOrder`) adds `RefusalInv`, that only a request that does not build is
refused, and then shows that the code's checks on the floored values are the
reference's on the best ones. `ExitInv` gives `ExitCodeTells`.

**WsClientProofs.** `StreamInv`: the messages yielded, taken, queued and being put form
one ascending sequence, which together with the lost, dropped and unparsed ones is
exactly what was counted; the helper task is there exactly while the consumer
races. `WsTypeCorrect`, `MessagesInOrderOnce`, for any queue.
`RefinesMessageStream`: under `StreamInv` each step maps to one of `MessageStream`,
with `got \o queue` as what waits; the helper task taking the head is a stutter, a
put that resumes is a late arrival, and it comes last because the invariant puts
what is being put after everything queued. `MetricsAgree`
(`ClockAndCountsAgree`) by `Clock` and `Tally`.

**AlerterProofs.** `ToldInv` relates counter and flags to what the operator was told, at
each stage of a poll: `AlerterTypeCorrect`, `OperatorAlwaysTold`, for outages of any
length.

**V25TrendProofs.** A bar is a chain of operators on the strategy's book, and each has
two lemmas: it keeps the position open and its size positive (`...Holds`, `...Open`),
and it keeps the book `Sound`. `ManagedCases` sums up `_manage_position`, `BarCases` the
whole of `on_bar`.
- `PauseInv` says that the losses in a row are a multiple of the limit plus the
  counter, and that after a pause began the bars gone by and the cooldown left add
  up to its length: `V25TypeCorrect`, `PausesKept`.
- `Sound` is the inductive form of the two account properties. Neither bound is
  inductive alone: rounding an order moves lots, size, equity and cash at once. With
  `Off` the size less the lots held and `Gap` the equity less the cash, the commissions
and the credits for positions kept (`Gross`), it says that
  `Off` is at most half a lot per order (`Near`), that `Gap` plus `Off` valued at any
  price in range is at most a slack per order (`Agrees`: the equity counted at that
  price against the account liquidated at it), and that the size is at least the
  share of the purchase that the steps taken leave (`Left`). Each order adds one
  half lot to the first bound and one slack to the second (`SaleIsOneOrder`,
  `PurchaseIsOneOrder`); from the third comes the threshold of 24 lots.
  `AccountTracksPosition` (`AccountFollows`) holds for any set of prices,
  `EquityTracksCash` (`EquityIsCash`) under `PricesBounded`, without which its bound,
  a number of orders at the highest price, means nothing.
- `PyramidStopsAtOne`: by `OneLevel`, no position has a second pyramid level, at
  whatever prices. This is what the violated run `V25Trend_pyramid` shows one
  instance of.

**SmaCrossoverProofs.** `SmaInv` says that the latch is a reading of the two averages
(`Latch`), that what was below before is remembered (`History`), and that position
and the one order under way add up to what the crossings ask for (`Follows`).
`CrossingsAreFollowed` (`FollowsCrossings`), whatever the averages compute.

**Model-checked only.** Liveness, which, like ENABLED, the proof system does not treat:
`EveryQueuedMessageYielded`, `CloseEndsStream`, `NeverGivesUp`, `AddReturns`,
`SubmittedSettles`, `CallsEnd`, `AnsweredRunEnds`, `SignalEndsRun`. The averages of
`SmaCrossover` are sums over a sequence, about which an induction over data would be
needed; the theorem does without it, because it uses their readings only. The
violated runs are single counterexamples.

## 6. Not modelled, and what could come next

The conversion of klines and trades to NT's data classes, the value classes of
`binance_contracts`, `_signing`, credentials and `core`: pure functions of their
input, field by field, without state. `ExecReconciler`: one awaited call and a
callback. The database migrations and the offline scripts: outside the running
program. The numerical values of V25's indicators: the environment's choice.

Next: the start-up of the bot's `main()` before `run()`, where a signal is lost; an
abstract at-most-once order that `OrderSubmit` implements.
