------------------------------ MODULE Alerter -------------------------------
(***************************************************************************)
(* The monitoring bot: Alerter (src/hermes/monitoring/alerter.py) with the *)
(* RestReader it polls, started by main() of                               *)
(* src/hermes/monitoring/__main__.py, which turns SIGINT and SIGTERM into  *)
(* stop().                                                                 *)
(*                                                                         *)
(* One poll reads three endpoints and then settles ping, drift and price   *)
(* in turn.  Each may await a Telegram send, which may raise.  The three   *)
(* reads are one step here: nothing but the event loop runs between them   *)
(* and stop() only sets an event.                                          *)
(***************************************************************************)
EXTENDS Integers

CONSTANTS
    Threshold,      \* _PING_FAIL_THRESHOLD
    Prices,         \* price levels further apart than price_move_warn_pct
    None,           \* a failed read: no server time, no klines
    SendMayRaise,   \* Telegram may refuse a message
    MaxOutage       \* bound: consecutive failed pings

ASSUME AlerterAssumption ==
    /\ Threshold \in Nat \ {0} /\ MaxOutage \in Nat
    /\ None \notin Prices /\ None \notin {"near", "far"}
    /\ SendMayRaise \in BOOLEAN

VARIABLES
    phase,          \* where main() is; the stages of a poll by name
    stopEvent,      \* _stop_event: "none" before run(), then "clear" or "set"
    failCount,      \* _ping_fail_count
    alertedPing,    \* _alerted_ping
    alertedDrift,   \* _alerted_drift
    alertedPrice,   \* _alerted_price
    lastPrice,      \* latest_price of _last; None as well before the first poll
    read,           \* what the running poll has read
    \* History, read by no action of the program.
    signalled,      \* a signal came after run() had made its event
    outage,         \* failed pings since the last good one
    drift,          \* the latest drift that could be read
    toldPing,       \* the latest ping message was the alarm
    toldDrift       \* the latest drift message was the alarm

flags   == <<alertedPing, alertedDrift, alertedPrice>>
told    == <<toldPing, toldDrift>>
history == <<signalled, outage, drift, told>>
vars    == <<phase, stopEvent, failCount, flags, lastPrice, read, history>>

\* drift_ms against clock_drift_warn_ms; a price against None.
Drifts == {"near", "far"}
Reads  == [ping : BOOLEAN, drift : Drifts \cup {None}, price : Prices \cup {None}]
Stages == {"ping", "drift", "price"}

Init ==
    /\ phase = "starting" /\ stopEvent = "none"
    /\ failCount = 0
    /\ alertedPing = FALSE /\ alertedDrift = FALSE /\ alertedPrice = FALSE
    /\ lastPrice = None
    /\ read = [ping |-> TRUE, drift |-> None, price |-> None]
    /\ signalled = FALSE /\ outage = 0 /\ drift = "near"
    /\ toldPing = FALSE /\ toldDrift = FALSE

Ended == phase \in {"stopped", "crashed"}

-----------------------------------------------------------------------------
\* SIGINT or SIGTERM: alerter.stop() sets the event if there is one.
Signal ==
    /\ ~Ended
    /\ stopEvent' = IF stopEvent = "none" THEN "none" ELSE "set"
    /\ signalled' = (signalled \/ stopEvent # "none")
    /\ UNCHANGED <<phase, failCount, flags, lastPrice, read, outage, drift, told>>

\* run() makes a new event, enters the loop and starts its first poll.
Run ==
    /\ phase = "starting"
    /\ stopEvent' = "clear"
    /\ phase' = "polling"
    /\ UNCHANGED <<failCount, flags, lastPrice, read, history>>

FailCount(ping) == IF ping THEN 0 ELSE failCount + 1

\* The reads of poll_once: a ping that fails gives FALSE, another read that
\* fails None.  The ping counter is kept at once.
Polls(r) ==
    /\ phase = "polling"
    /\ r.ping \/ outage < MaxOutage
    /\ read' = r
    /\ failCount' = FailCount(r.ping)
    /\ outage' = IF r.ping THEN 0 ELSE outage + 1
    /\ drift' = IF r.drift = None THEN drift ELSE r.drift
    /\ phase' = "ping"
    /\ UNCHANGED <<stopEvent, flags, lastPrice, signalled, told>>

-----------------------------------------------------------------------------
\* Mutant of PingAlarm: the alarm comes one failure late.
PingAlarmLate == ~read.ping /\ failCount > Threshold /\ ~alertedPing

\* When a stage sends.
PingAlarm  == ~read.ping /\ failCount >= Threshold /\ ~alertedPing
PingClear  == read.ping /\ alertedPing
DriftAlarm == read.drift = "far" /\ ~alertedDrift
DriftClear == read.drift = "near" /\ alertedDrift
Compares   == read.price # None /\ lastPrice # None
Moved      == Compares /\ read.price # lastPrice
PriceAlarm == Moved /\ ~alertedPrice

PingStage ==
    /\ phase = "ping"
    /\ alertedPing' = (PingAlarm \/ (alertedPing /\ ~PingClear))
    /\ toldPing' = IF PingAlarm \/ PingClear THEN PingAlarm ELSE toldPing
    /\ phase' = "drift"
    /\ UNCHANGED <<stopEvent, failCount, alertedDrift, alertedPrice, lastPrice,
                   read, signalled, outage, drift, toldDrift>>

DriftStage ==
    /\ phase = "drift"
    /\ alertedDrift' = (DriftAlarm \/ (alertedDrift /\ ~DriftClear))
    /\ toldDrift' = IF DriftAlarm \/ DriftClear THEN DriftAlarm ELSE toldDrift
    /\ phase' = "price"
    /\ UNCHANGED <<stopEvent, failCount, alertedPing, alertedPrice, lastPrice,
                   read, signalled, outage, drift, toldPing>>

\* The price stage and the snapshot of the poll.  A move right after another
\* one is not sent again; a quiet poll re-arms without a message.
PriceStage ==
    /\ phase = "price"
    /\ alertedPrice' = IF Compares THEN Moved ELSE alertedPrice
    /\ lastPrice' = read.price
    /\ phase' = "sleeping"
    /\ UNCHANGED <<stopEvent, failCount, alertedPing, alertedDrift, read,
                   signalled, outage, drift, told>>

\* A send that raises leaves poll_once and run().
SendRaises ==
    /\ SendMayRaise
    /\ \/ phase = "ping"  /\ (PingAlarm \/ PingClear)
       \/ phase = "drift" /\ (DriftAlarm \/ DriftClear)
       \/ phase = "price" /\ PriceAlarm
    /\ phase' = "crashed"
    /\ UNCHANGED <<stopEvent, failCount, flags, lastPrice, read, history>>

\* Mutant of IntervalElapses: the loop does not look at the event again.
IntervalElapsesAlways ==
    /\ phase = "sleeping"
    /\ phase' = "polling"
    /\ UNCHANGED <<stopEvent, failCount, flags, lastPrice, read, history>>

\* wait_for on the event: the interval elapses and the loop goes on, or
\* stop() was called, which ends it even when both happen at once.
IntervalElapses ==
    /\ phase = "sleeping" /\ stopEvent # "set"
    /\ phase' = "polling"
    /\ UNCHANGED <<stopEvent, failCount, flags, lastPrice, read, history>>

StopWakes ==
    /\ phase = "sleeping" /\ stopEvent = "set"
    /\ phase' = "stopped"
    /\ UNCHANGED <<stopEvent, failCount, flags, lastPrice, read, history>>

-----------------------------------------------------------------------------
Poll == \E r \in Reads : Polls(r)

Next ==
    \/ Signal \/ Run
    \/ Poll \/ PingStage \/ DriftStage \/ PriceStage \/ SendRaises
    \/ IntervalElapses \/ StopWakes

Spec == Init /\ [][Next]_vars

\* The event loop runs what is ready, reads and sends come back, an interval
\* elapses.
Fairness ==
    /\ WF_vars(Run) /\ WF_vars(Poll)
    /\ WF_vars(PingStage) /\ WF_vars(DriftStage) /\ WF_vars(PriceStage)
    /\ WF_vars(IntervalElapses) /\ WF_vars(StopWakes)

FairSpec == Spec /\ Fairness

-----------------------------------------------------------------------------
(* Types.                                                                  *)
TypeOK ==
    /\ phase \in Stages \cup {"starting", "polling", "sleeping", "stopped", "crashed"}
    /\ stopEvent \in {"none", "clear", "set"}
    /\ failCount \in Nat /\ outage \in Nat
    /\ {alertedPing, alertedDrift, alertedPrice} \subseteq BOOLEAN
    /\ lastPrice \in Prices \cup {None}
    /\ read \in Reads
    /\ {signalled, toldPing, toldDrift} \subseteq BOOLEAN
    /\ drift \in Drifts

(* After every poll the messages the operator got say what is so: the last *)
(* one about the connection is the alarm exactly while at least Threshold  *)
(* pings in a row have failed, and the last one about the clock is the     *)
(* alarm exactly while the latest drift that could be read is too large.   *)
OperatorIsTold ==
    phase = "sleeping" =>
        /\ toldPing <=> outage >= Threshold
        /\ toldDrift <=> drift = "far"

(* Every signal that main() takes after run() has begun ends the bot, in   *)
(* the middle of a poll, between polls, or while it sleeps.                *)
SignalEndsRun == signalled ~> Ended

=============================================================================
