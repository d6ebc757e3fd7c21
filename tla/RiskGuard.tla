----------------------------- MODULE RiskGuard ------------------------------
(***************************************************************************)
(* RiskGuard (src/hermes/risk/guard.py) with its FileStateStore            *)
(* (src/hermes/risk/risk_state_store.py): the kill switch, the             *)
(* consecutive-loss and daily-drawdown breakers, the four gates of         *)
(* check_order, and the snapshot that carries them over a restart.         *)
(*                                                                         *)
(* The guard is called by one thread.  A call that trips or changes the    *)
(* guard is several steps, because it updates memory first, then runs the  *)
(* on_halt callback, then saves (temporary file, then os.replace), and can *)
(* be cut short between any two of them: the callback or the store may     *)
(* raise, the process may die.                                             *)
(***************************************************************************)
EXTENDS Integers, FiniteSets

CONSTANTS
    None,               \* Python's None: an absent argument, limit or file
    LossLimit,          \* consecutive_loss_limit
    DrawdownLimit,      \* daily_drawdown_limit, or None
    MaxOrderNotional,   \* max_order_notional, or None
    MinBalance,         \* min_balance, or None
    MaxOrders,          \* max_orders_per_window, or None
    WindowSeconds,      \* window_seconds, or None
    HasStore,           \* a state_store was injected
    DayLength,          \* clock units per UTC day
    Pnls,               \* trade results the caller feeds
    Notionals, Balances,\* arguments of check_order (None may be among them)
    Stamped,            \* the caller passes now on every call
    DailyReset,         \* the caller calls reset_daily before a day's first trade
    OnHaltMayRaise,     \* the injected callback may raise
    SaveMayFail,        \* the file system may refuse a save
    CrashMidCall,       \* the process may die inside a call, not only between
    MaxClock,           \* bound: last clock value
    PnlBound            \* bound: largest |daily_pnl| explored

ASSUME LimitAssumption ==
    /\ LossLimit \in Nat
    /\ DrawdownLimit \in Int \cup {None}
    /\ MaxOrderNotional \in Int \cup {None}
    /\ MinBalance \in Int \cup {None}
    /\ MaxOrders \in Nat \cup {None}
    /\ WindowSeconds \in Nat \cup {None}
ASSUME InputAssumption ==
    /\ Pnls \subseteq Int
    /\ Notionals \subseteq Int \cup {None}
    /\ Balances \subseteq Int \cup {None}
    /\ DayLength \in Nat \ {0}
    /\ MaxClock \in Nat
    /\ PnlBound \in Nat
ASSUME ModeAssumption ==
    {HasStore, Stamped, DailyReset, OnHaltMayRaise, SaveMayFail, CrashMidCall}
        \subseteq BOOLEAN

VARIABLES
    live,               \* the process runs and has built its guard
    state,              \* _state
    consecutiveLosses,  \* _consecutive_losses
    dailyPnl,           \* _daily_pnl
    orderTimes,         \* _order_times; n tells orders of one instant apart
    pc,                 \* where the running call is: its next effect
    callNow,            \* the now argument of the running call
    tmp,                \* snapshot in the temporary file, None when there is none
    disk,               \* snapshot under the store's path, None when missing
    verdict,            \* outcome of the latest check_order, "none" otherwise
    clock,              \* the caller's clock, the source of every now
    accDay,             \* day the caller opened the accumulator for
    \* History, read by no action of the program.
    streak,             \* losing trades since the last winning one
    dayPnl,             \* sum of the trades since midnight or reset_daily
    passed,             \* orders that passed the throttle in this process
    fate                \* how the calls that saved or tripped have ended

memory  == <<state, consecutiveLosses, dailyPnl, orderTimes>>
call    == <<pc, callNow>>
files   == <<tmp, disk>>
history == <<streak, dayPnl, passed, fate>>
vars    == <<live, memory, call, files, verdict, clock, accDay, history>>

GuardState == {"ACTIVE", "HALTED"}
Denials    == {"halted", "notional", "balance", "throttle"}
Day(t)     == t \div DayLength
Snapshots  == [state: GuardState, losses: Nat,
               pnl: Int \cup {None}, date: Int \cup {None}]
Orders     == [at: Int, n: Nat]

ASSUME NoneAssumption == None \notin Int \cup Snapshots

\* The now argument of a call: the caller's clock, or left out.
NowArgs == IF Stamped THEN {clock} ELSE {clock, None}

-----------------------------------------------------------------------------
Snapshot(t) ==
    [state  |-> state,
     losses |-> consecutiveLosses,
     pnl    |-> IF t = None THEN None ELSE dailyPnl,
     date   |-> IF t = None THEN None ELSE Day(t)]

Init ==
    /\ live = FALSE
    /\ state = "ACTIVE" /\ consecutiveLosses = 0
    /\ dailyPnl = 0 /\ orderTimes = {}
    /\ pc = "idle" /\ callNow = None
    /\ tmp = None /\ disk = None
    /\ verdict = "none"
    /\ clock = 0 /\ accDay = 0
    /\ streak = 0 /\ dayPnl = 0 /\ passed = {} /\ fate = "no"

\* Mutant of RestoredPnl: the date of the snapshot is not compared.
RestoredPnlOfAnyDay(t) == IF disk # None THEN disk.pnl ELSE 0

\* The daily sum is taken over only from a snapshot stamped with today's date.
RestoredPnl(t) ==
    IF t # None /\ disk # None
    THEN IF disk.date = Day(t) THEN disk.pnl ELSE 0
    ELSE 0

\* Mutant of Stored: a snapshot is taken over only by a caller with a clock.
StoredIfStamped(t) == HasStore /\ disk # None /\ t # None

\* load() found a snapshot.
Stored(t) == HasStore /\ disk # None

\* __init__: a new process builds its guard from the stored snapshot.
Start(t) ==
    /\ ~live
    /\ live' = TRUE
    /\ state' = IF Stored(t) THEN disk.state ELSE "ACTIVE"
    /\ consecutiveLosses' = IF Stored(t) THEN disk.losses ELSE 0
    /\ dailyPnl' = IF Stored(t) THEN RestoredPnl(t) ELSE 0
    /\ orderTimes' = {}
    /\ verdict' = "none"
    /\ accDay' = Day(clock)
    /\ passed' = {}
    /\ UNCHANGED <<call, files, clock, streak, dayPnl, fate>>

\* Where a call goes once memory is updated: to the store, or back at once.
Save(t) ==
    /\ pc' = IF HasStore THEN "save" ELSE "idle"
    /\ callNow' = t

Ready == live /\ pc = "idle"

\* halt(): the operator's switch.  No callback, and no now to stamp with.
Halt ==
    /\ Ready
    /\ state' = "HALTED"
    /\ Save(None)
    /\ verdict' = "none"
    /\ fate' = IF HasStore THEN fate ELSE "returned"
    /\ UNCHANGED <<live, consecutiveLosses, dailyPnl, orderTimes, files, clock,
                   accDay, streak, dayPnl, passed>>

-----------------------------------------------------------------------------
OverCap(notional) ==
    /\ notional # None
    /\ MaxOrderNotional # None
    /\ notional > MaxOrderNotional

BelowFloor(balance) ==
    /\ balance # None
    /\ MinBalance # None
    /\ balance < MinBalance

Throttles(t) == t # None /\ MaxOrders # None /\ WindowSeconds # None

\* Mutant of InWindow: the order that just left the window still counts.
InWindowClosed(orders, t) == {o \in orders : o.at >= t - WindowSeconds}

InWindow(orders, t) == {o \in orders : o.at > t - WindowSeconds}

\* Mutant of Full: one order too many.
OverFull(t) == Cardinality(InWindow(orderTimes, t)) > MaxOrders

Full(t) == Cardinality(InWindow(orderTimes, t)) >= MaxOrders

\* The first gate that refuses, in the code's order.
Refusal(notional, balance, t) ==
    IF state = "HALTED" THEN "halted"
    ELSE IF OverCap(notional) THEN "notional"
    ELSE IF BelowFloor(balance) THEN "balance"
    ELSE IF Throttles(t) /\ Full(t) THEN "throttle"
    ELSE "pass"

\* check_order: the window is pruned when the throttle is reached, and the
\* order takes a slot only when every gate let it pass.
CheckOrder(notional, balance, t) ==
    LET result == Refusal(notional, balance, t)
        order  == [at |-> t, n |-> Cardinality(passed)]
    IN  /\ live
        /\ pc \in {"idle", "on_halt"}   \* on_halt may ask the guard back
        /\ verdict' = result
        /\ IF Throttles(t) /\ result = "pass"
           THEN /\ orderTimes' = InWindow(orderTimes, t) \cup {order}
                /\ passed' = passed \cup {order}
           ELSE /\ orderTimes' = IF result = "throttle"
                                 THEN InWindow(orderTimes, t) ELSE orderTimes
                /\ UNCHANGED passed
        /\ UNCHANGED <<live, state, consecutiveLosses, dailyPnl, call, files,
                       clock, accDay, streak, dayPnl, fate>>

-----------------------------------------------------------------------------
\* Mutant of BreaksDrawdown: trips only beyond the limit.
BreaksDrawdownBeyond(sum) == DrawdownLimit # None /\ sum < -DrawdownLimit

BreaksDrawdown(sum) == DrawdownLimit # None /\ sum <= -DrawdownLimit

\* Mutant of BreaksStreak: trips one losing trade too late.
BreaksStreakLate(pnl) == pnl < 0 /\ consecutiveLosses >= LossLimit

BreaksStreak(pnl) == pnl < 0 /\ consecutiveLosses + 1 >= LossLimit

\* on_trade_result on an ACTIVE guard: memory first, then on_halt if a breaker
\* tripped, then the save.  A drawdown trip leaves the loss counter alone.
TradeResult(pnl, t) ==
    LET sum == dailyPnl + pnl
        trips == BreaksDrawdown(sum) \/ BreaksStreak(pnl)
    IN  /\ Ready
        /\ state = "ACTIVE"
        /\ sum \in -PnlBound .. PnlBound
        /\ DailyReset => accDay = Day(clock)
        /\ dailyPnl' = sum
        /\ consecutiveLosses' = IF BreaksDrawdown(sum) THEN consecutiveLosses
                                ELSE IF pnl < 0 THEN consecutiveLosses + 1 ELSE 0
        /\ IF trips
           THEN state' = "HALTED" /\ pc' = "on_halt" /\ callNow' = t
           ELSE UNCHANGED state /\ Save(t)
        /\ streak' = IF pnl < 0 THEN streak + 1 ELSE 0
        /\ dayPnl' = dayPnl + pnl
        /\ verdict' = "none"
        /\ UNCHANGED <<live, orderTimes, files, clock, accDay, passed, fate>>

\* on_trade_result on a HALTED guard returns at once.
TradeIgnored ==
    /\ Ready
    /\ state = "HALTED"
    /\ verdict' = "none"
    /\ UNCHANGED <<live, memory, call, files, clock, accDay, history>>

\* reset_daily: saved only when the caller stamps it.
ResetDaily(t) ==
    /\ Ready
    /\ dailyPnl' = 0
    /\ IF t # None THEN Save(t) ELSE UNCHANGED call
    /\ accDay' = Day(clock)
    /\ dayPnl' = 0
    /\ verdict' = "none"
    /\ UNCHANGED <<live, state, consecutiveLosses, orderTimes, files, clock,
                   streak, passed, fate>>

-----------------------------------------------------------------------------
\* fate: a call that left the guard HALTED "returned"; else, one that did
\* "raised"; else, some call was "cut" short; else "no".
FateOf(how) == IF fate \in {"no", "cut"} THEN how ELSE fate

\* The call comes back to its caller, by return or by exception.
CallReturns ==
    /\ pc' = "idle"
    /\ fate' = IF state = "HALTED" THEN "returned" ELSE fate

CallRaises ==
    /\ pc' = "idle"
    /\ fate' = FateOf(IF state = "HALTED" THEN "raised" ELSE "cut")

\* Mutant of OnHaltReturns: the halted guard is not saved.
OnHaltReturnsUnsaved ==
    /\ pc = "on_halt"
    /\ CallReturns
    /\ UNCHANGED <<live, memory, callNow, files, verdict, clock, accDay,
                   streak, dayPnl, passed>>

OnHaltReturns ==
    /\ pc = "on_halt"
    /\ IF HasStore THEN pc' = "save" /\ UNCHANGED fate ELSE CallReturns
    /\ UNCHANGED <<live, memory, callNow, files, verdict, clock, accDay,
                   streak, dayPnl, passed>>

\* The callback's exception leaves on_trade_result before the save.
OnHaltRaises ==
    /\ OnHaltMayRaise
    /\ pc = "on_halt"
    /\ CallRaises
    /\ UNCHANGED <<live, memory, callNow, files, verdict, clock, accDay,
                   streak, dayPnl, passed>>

\* save: the snapshot is written and fsynced under a temporary name ...
SaveWrites ==
    /\ pc = "save"
    /\ tmp' = Snapshot(callNow)
    /\ pc' = "replace"
    /\ UNCHANGED <<live, memory, callNow, disk, verdict, clock, accDay, history>>

\* ... and renamed over the stored one, which is when it counts.
SaveReplaces ==
    /\ pc = "replace"
    /\ disk' = tmp
    /\ tmp' = None
    /\ CallReturns
    /\ verdict' = "none"
    /\ UNCHANGED <<live, memory, callNow, clock, accDay, streak, dayPnl, passed>>

\* A write, fsync or rename that raises: the temporary file is unlinked and
\* the exception goes to the caller; memory keeps what the call changed.
SaveFails ==
    /\ SaveMayFail
    /\ pc \in {"save", "replace"}
    /\ tmp' = None
    /\ CallRaises
    /\ UNCHANGED <<live, memory, callNow, disk, verdict, clock, accDay,
                   streak, dayPnl, passed>>

\* The process ends.  A temporary file it leaves behind is never read.
Crash ==
    /\ live
    /\ pc # "idle" => CrashMidCall
    /\ live' = FALSE
    /\ state' = "ACTIVE" /\ consecutiveLosses' = 0
    /\ dailyPnl' = 0 /\ orderTimes' = {}
    /\ pc' = "idle" /\ callNow' = None
    /\ tmp' = None
    /\ verdict' = "none"
    /\ fate' = IF pc = "idle" THEN fate ELSE FateOf("cut")
    /\ UNCHANGED <<disk, clock, accDay, streak, dayPnl, passed>>

\* Time passes between calls; at midnight the day's true sum starts over.
Tick ==
    /\ pc = "idle"
    /\ clock < MaxClock
    /\ clock' = clock + 1
    /\ dayPnl' = IF Day(clock + 1) = Day(clock) THEN dayPnl ELSE 0
    /\ UNCHANGED <<live, memory, call, files, verdict, accDay, streak, passed,
                   fate>>

Next ==
    \/ \E t \in NowArgs : Start(t)
    \/ Halt
    \/ \E notional \in Notionals, balance \in Balances, t \in NowArgs :
            CheckOrder(notional, balance, t)
    \/ \E pnl \in Pnls, t \in NowArgs : TradeResult(pnl, t)
    \/ TradeIgnored
    \/ \E t \in NowArgs : ResetDaily(t)
    \/ OnHaltReturns
    \/ OnHaltRaises
    \/ SaveWrites
    \/ SaveReplaces
    \/ SaveFails
    \/ Crash
    \/ Tick

Spec == Init /\ [][Next]_vars

-----------------------------------------------------------------------------
(* Types.  The state of guard.py's attributes and of the store's file.     *)
TypeOK ==
    /\ live \in BOOLEAN
    /\ state \in GuardState
    /\ consecutiveLosses \in Nat
    /\ dailyPnl \in Int
    /\ orderTimes \subseteq Orders
    /\ pc \in {"idle", "on_halt", "save", "replace"}
    /\ callNow \in Int \cup {None}
    /\ tmp \in Snapshots \cup {None}
    /\ disk \in Snapshots \cup {None}
    /\ verdict \in Denials \cup {"none", "pass"}
    /\ clock \in Nat /\ accDay \in Int
    /\ streak \in Nat /\ dayPnl \in Int
    /\ passed \subseteq Orders
    /\ fate \in {"no", "cut", "raised", "returned"}

(* The stored kill switch is a one-way latch over every crash and restart: *)
(* a durable HALTED is never overwritten and no order passes under it.     *)
Tripped == disk # None /\ disk.state = "HALTED"
Latch == INSTANCE KillSwitch WITH tripped <- Tripped
ImplementsKillSwitch == Latch!Spec

(* guard.py:42-45 (D5): once a call that left the guard HALTED has returned *)
(* to its caller, no restart makes the guard ACTIVE again, whatever other  *)
(* calls raise or are cut short by a crash.                                *)
HaltSurvivesRestart == fate = "returned" /\ live => state = "HALTED"

(* guard.py:44, "HALTED persists across restarts", also when the call that *)
(* tripped the guard ended with the callback's exception.                  *)
HaltPersists == fate \in {"returned", "raised"} /\ live => state = "HALTED"

\* Every call so far that saves was carried out, or a halt has returned.
Uncut == fate \in {"no", "returned"}

(* The loss breaker, over restarts: an ACTIVE guard between two calls has  *)
(* counted exactly the losing trades since the last winning one, and there *)
(* are fewer of them than the limit (or none at all), until some call is   *)
(* cut short.                                                              *)
StreakEnforced ==
    Uncut /\ Ready /\ state = "ACTIVE" =>
        /\ consecutiveLosses = streak
        /\ streak = 0 \/ streak < LossLimit

(* The drawdown breaker, over restarts on the same day: an ACTIVE guard    *)
(* whose day was opened has accumulated exactly the trades since midnight  *)
(* or the last reset_daily, and they have not lost the limit, until some   *)
(* call is cut short.                                                      *)
DrawdownEnforced ==
    Uncut /\ Ready /\ state = "ACTIVE" /\ accDay = Day(clock) =>
        /\ dailyPnl = dayPnl
        /\ dayPnl = 0 \/ DrawdownLimit = None \/ dayPnl > -DrawdownLimit

(* The throttle: of the orders that passed in this process, no window      *)
(* (t - window_seconds, t] holds more than max_orders_per_window.          *)
ThrottleBound ==
    MaxOrders # None /\ WindowSeconds # None =>
        \A t \in 0 .. MaxClock :
            Cardinality({o \in passed : t - WindowSeconds < o.at /\ o.at <= t})
                <= MaxOrders

(* The converse (D5, "calls rejected by an earlier gate do not consume     *)
(* throttle quota"): a stamped order is refused by the throttle only when  *)
(* the window up to now really is full of orders that passed.              *)
ThrottleNotOverstrict ==
    verdict' = "throttle" /\ verdict # "throttle" =>
        Cardinality({o \in passed : o.at > clock - WindowSeconds}) >= MaxOrders
ThrottleFair == [][ThrottleNotOverstrict]_vars

=============================================================================
