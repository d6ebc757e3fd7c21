------------------------------ MODULE WsClient ------------------------------
(***************************************************************************)
(* BinanceWsClient (src/hermes/exchanges/binance_ws.py): the supervised    *)
(* read loop, the bounded queue behind it and the consumer that iterates   *)
(* stream().                                                               *)
(*                                                                         *)
(* Three asyncio tasks interleave at their awaits: the main task           *)
(* (_run_with_reconnect around _run_one), the task that iterates stream()  *)
(* with its helper task get_task, and the owner that leaves the            *)
(* `async with` block.  What the websockets library and the server do      *)
(* (accept, refuse, time out, close, drop) is the environment's choice.    *)
(* A message is the number of its frame's arrival; binary frames that do   *)
(* not decode are skipped before they are counted and change nothing.      *)
(***************************************************************************)
EXTENDS Integers, SequencesExt

CONSTANTS
    QueueMaxSize,       \* maxsize of the asyncio.Queue
    ConnectMayTimeOut,  \* the opening handshake may raise TimeoutError
    Frames,             \* what may be wrong or right with a frame, see Parsed
    MaxFrames,          \* bound: frames the server sends in all
    MaxFailures,        \* bound: failed connections in all
    MaxCancels          \* bound: times the task iterating stream() is cancelled

Proper  == {"kline", "bookTicker", "trade"}
Broken  == {"noJson", "noObject", "noStream", "noData", "otherStream",
            "incomplete"}
Strange == {"undecimal", "misspelt"}

ASSUME WsAssumption ==
    /\ Frames \subseteq Proper \cup Broken \cup Strange
    /\ QueueMaxSize \in Nat \ {0}
    /\ {MaxFrames, MaxFailures, MaxCancels} \subseteq Nat
    /\ ConnectMayTimeOut \in BOOLEAN

VARIABLES
    closed,          \* _closed: the owner is leaving or has left
    main,            \* where the main task awaits
    cancelling,      \* main_task.cancel() was called and not yet delivered
    attempt,         \* attempt, local to _run_with_reconnect
    currentAttempt,  \* _current_attempt
    reconnectCount,  \* _reconnect_count
    received,        \* _messages_received_total
    byKind,          \* _messages_by_kind
    connectedSince,  \* _connected_since is set
    queue,           \* _queue
    putting,         \* the message the read loop is blocked on, as a sequence
    consumer,        \* where the task iterating stream() is
    getter,          \* get_task: "none", "waiting" or "done"
    got,             \* the message get_task took off the queue, as a sequence
    \* History, read by no action of the program.
    delivered,       \* messages yielded to the consumer
    unparsed,        \* messages whose parsing raised
    dropped,         \* messages counted but never queued
    lost,            \* messages queued but never yielded
    failures,        \* failed connections so far
    cancels          \* cancelled iterations of stream() so far

counts       == <<received, byKind>>
gone         == <<unparsed, dropped, lost>>
mainVars     == <<main, cancelling, attempt, currentAttempt, reconnectCount,
                  counts, connectedSince, putting>>
consumerVars == <<consumer, getter, got>>
history      == <<delivered, gone, failures, cancels>>
vars         == <<closed, mainVars, queue, consumerVars, history>>

Kinds == Proper \cup {"unknown"}

Connected == main \in {"reading", "putting"}

Init ==
    /\ closed = FALSE
    /\ main = "none" /\ cancelling = FALSE
    /\ attempt = 0 /\ currentAttempt = 0 /\ reconnectCount = 0
    /\ received = 0 /\ byKind = [k \in Kinds |-> 0]
    /\ connectedSince = FALSE
    /\ queue = <<>> /\ putting = <<>>
    /\ consumer = "none" /\ getter = "none" /\ got = <<>>
    /\ delivered = <<>> /\ unparsed = {} /\ dropped = {} /\ lost = {}
    /\ failures = 0 /\ cancels = 0

-----------------------------------------------------------------------------
\* __aenter__: creates the queue and the main task; refuses a second entry.
Enter ==
    /\ ~closed
    /\ main = "none"
    /\ main' = "connecting"
    /\ queue' = <<>>
    /\ UNCHANGED <<closed, cancelling, attempt, currentAttempt, reconnectCount,
                   counts, connectedSince, putting, consumerVars, history>>

\* __aexit__: marks the client closed and cancels the main task, then awaits
\* it.  The cancellation is delivered at the task's next step (Cancelled).
Close ==
    /\ ~closed
    /\ main # "none"
    /\ closed' = TRUE
    /\ cancelling' = (main # "done")
    /\ UNCHANGED <<main, attempt, currentAttempt, reconnectCount, counts,
                   connectedSince, queue, putting, consumerVars, history>>

-----------------------------------------------------------------------------
\* The main task.  Once it has been cancelled its next step is Cancelled.
Running(where) == main = where /\ ~cancelling

\* Mutant of LeaveRunOne: the finally clause forgets the clock.
LeaveRunOneClockRuns ==
    /\ UNCHANGED connectedSince
    /\ putting' = <<>>
    /\ dropped' = dropped \cup ToSet(putting)

\* Leaving _run_one: the finally clause stops the clock, and a message the
\* loop was still putting is gone.
LeaveRunOne ==
    /\ connectedSince' = FALSE
    /\ putting' = <<>>
    /\ dropped' = dropped \cup ToSet(putting)

ConnectOk ==
    /\ Running("connecting")
    /\ main' = "reading"
    /\ connectedSince' = TRUE
    /\ UNCHANGED <<closed, cancelling, attempt, currentAttempt, reconnectCount,
                   counts, queue, putting, consumerVars, history>>

\* Mutant of BackOff: gives up after the second failure in a row.
BackOffOnce ==
    /\ attempt' = attempt + 1
    /\ reconnectCount' = reconnectCount + 1
    /\ currentAttempt' = attempt + 1
    /\ main' = IF attempt >= 1 THEN "done" ELSE "backoff"

\* `except Exception`: count the failure and back off.
BackOff ==
    /\ attempt' = attempt + 1
    /\ reconnectCount' = reconnectCount + 1
    /\ currentAttempt' = attempt + 1
    /\ main' = "backoff"

\* _run_one returned, or wait_for raised TimeoutError: no failure, no pause.
ReconnectAtOnce ==
    /\ attempt' = 0
    /\ currentAttempt' = 0
    /\ main' = "connecting"
    /\ UNCHANGED reconnectCount

ConnectFails ==
    /\ Running("connecting")
    /\ failures < MaxFailures
    /\ BackOff
    /\ failures' = failures + 1
    /\ UNCHANGED <<closed, cancelling, counts, connectedSince, queue, putting,
                   consumerVars, delivered, gone, cancels>>

\* websockets.connect gives up after open_timeout with TimeoutError, which
\* the supervisor cannot tell from wait_for's own.
ConnectTimesOut ==
    /\ ConnectMayTimeOut
    /\ Running("connecting")
    /\ failures < MaxFailures
    /\ ReconnectAtOnce
    /\ failures' = failures + 1
    /\ UNCHANGED <<closed, cancelling, counts, connectedSince, queue, putting,
                   consumerVars, delivered, gone, cancels>>

\* Mutant of HasRoom: one message more than maxsize.
HasRoomForOneMore == Len(queue) <= QueueMaxSize

HasRoom == Len(queue) < QueueMaxSize

\* _parse_message: a frame that is not understood gives an UNKNOWN message.
\* A number that is no decimal (decimal.InvalidOperation is an
\* ArithmeticError) and a stream name that spells its kind in capitals
\* (IndexError) raise what the except clause does not name.
Parsed(frame) ==
    IF frame \in Strange THEN "raises"
    ELSE IF frame \in Broken THEN "unknown" ELSE frame

Counted(kind) ==
    /\ received < MaxFrames
    /\ received' = received + 1
    /\ byKind' = IF kind \in Kinds THEN [byKind EXCEPT ![kind] = @ + 1]
                 ELSE byKind

\* A frame arrives: counted, parsed and put; put blocks on a full queue.
Frame(frame) ==
    /\ Running("reading")
    /\ Parsed(frame) # "raises"
    /\ Counted(Parsed(frame))
    /\ IF HasRoom
       THEN /\ queue' = Append(queue, received + 1)
            /\ UNCHANGED <<main, putting>>
       ELSE /\ main' = "putting"
            /\ putting' = <<received + 1>>
            /\ UNCHANGED queue
    /\ UNCHANGED <<closed, cancelling, attempt, currentAttempt, reconnectCount,
                   connectedSince, consumerVars, history>>

\* Parsing raises: the message is counted but has no kind, the connection is
\* left as after any other exception.
FrameRaises(frame) ==
    /\ Running("reading")
    /\ failures < MaxFailures
    /\ Parsed(frame) = "raises"
    /\ Counted(Parsed(frame))
    /\ unparsed' = unparsed \cup {received + 1}
    /\ BackOff
    /\ LeaveRunOne
    /\ failures' = failures + 1
    /\ UNCHANGED <<closed, cancelling, queue, consumerVars, delivered, lost,
                   cancels>>

PutResumes ==
    /\ Running("putting")
    /\ HasRoom
    /\ queue' = queue \o putting
    /\ putting' = <<>>
    /\ main' = "reading"
    /\ UNCHANGED <<closed, cancelling, attempt, currentAttempt, reconnectCount,
                   counts, connectedSince, consumerVars, history>>

ServerCloses ==
    /\ Running("reading")
    /\ ReconnectAtOnce
    /\ LeaveRunOne
    /\ UNCHANGED <<closed, cancelling, counts, queue, consumerVars, delivered,
                   unparsed, lost, failures, cancels>>

ConnectionDrops ==
    /\ Running("reading")
    /\ failures < MaxFailures
    /\ BackOff
    /\ LeaveRunOne
    /\ failures' = failures + 1
    /\ UNCHANGED <<closed, cancelling, counts, queue, consumerVars, delivered,
                   unparsed, lost, cancels>>

\* The 23 hour cap of wait_for cancels _run_one wherever it awaits.
CapReached ==
    /\ Connected /\ ~cancelling
    /\ ReconnectAtOnce
    /\ LeaveRunOne
    /\ UNCHANGED <<closed, cancelling, counts, queue, consumerVars, delivered,
                   unparsed, lost, failures, cancels>>

BackoffElapses ==
    /\ Running("backoff")
    /\ main' = "connecting"
    /\ UNCHANGED <<closed, cancelling, attempt, currentAttempt, reconnectCount,
                   counts, connectedSince, queue, putting, consumerVars,
                   history>>

\* Mutant of Cancelled: the cancellation is handled like a failure.
CancelledBacksOff ==
    /\ cancelling
    /\ cancelling' = FALSE
    /\ BackOff
    /\ LeaveRunOne
    /\ UNCHANGED <<closed, counts, queue, consumerVars, delivered, unparsed,
                   lost, failures, cancels>>

\* CancelledError reaches the await the main task is at, and is re-raised.
Cancelled ==
    /\ cancelling
    /\ cancelling' = FALSE
    /\ main' = "done"
    /\ LeaveRunOne
    /\ UNCHANGED <<closed, attempt, currentAttempt, reconnectCount, counts,
                   queue, consumerVars, delivered, unparsed, lost, failures,
                   cancels>>

-----------------------------------------------------------------------------
\* The consumer asks stream() for the next message: while the main task runs
\* it races a get_task against that task, afterwards it drains the queue.
NextMessage ==
    /\ consumer \in {"none", "busy"}
    /\ main # "none"
    /\ IF main = "done"
       THEN consumer' = "draining" /\ UNCHANGED getter
       ELSE consumer' = "racing" /\ getter' = "waiting"
    /\ UNCHANGED <<closed, mainVars, queue, got, history>>

\* get_task runs: queue.get() removes the head.
GetterTakes ==
    /\ getter = "waiting"
    /\ queue # <<>>
    /\ got' = <<Head(queue)>>
    /\ queue' = Tail(queue)
    /\ getter' = "done"
    /\ UNCHANGED <<closed, mainVars, consumer, history>>

\* asyncio.wait returns with get_task in done: yield its result.
YieldsMessage ==
    /\ consumer = "racing"
    /\ getter = "done"
    /\ delivered' = delivered \o got
    /\ got' = <<>>
    /\ getter' = "none"
    /\ consumer' = "busy"
    /\ UNCHANGED <<closed, mainVars, queue, gone, failures, cancels>>

\* Mutant of MainTaskEnded: a get_task that is done as well is dropped.
MainTaskEndedFirst ==
    /\ consumer = "racing"
    /\ main = "done"
    /\ getter' = "none"
    /\ got' = <<>>
    /\ lost' = lost \cup ToSet(got)
    /\ consumer' = "draining"
    /\ UNCHANGED <<closed, mainVars, queue, delivered, unparsed, dropped,
                   failures, cancels>>

\* asyncio.wait returns with only the main task in done: cancel get_task and
\* fall through to the drain.
MainTaskEnded ==
    /\ consumer = "racing"
    /\ main = "done"
    /\ getter = "waiting"
    /\ getter' = "none"
    /\ consumer' = "draining"
    /\ UNCHANGED <<closed, mainVars, queue, got, history>>

\* Mutant of Drains: the iteration ends without the drain.
DrainsNothing ==
    /\ consumer = "draining"
    /\ consumer' = "returned"
    /\ UNCHANGED <<closed, mainVars, queue, getter, got, history>>

\* Once the main task is gone: what the queue still holds, then the end.
Drains ==
    /\ consumer = "draining"
    /\ IF queue = <<>>
       THEN /\ consumer' = "returned"
            /\ UNCHANGED <<queue, delivered>>
       ELSE /\ delivered' = Append(delivered, Head(queue))
            /\ queue' = Tail(queue)
            /\ UNCHANGED consumer
    /\ UNCHANGED <<closed, mainVars, getter, got, gone, failures, cancels>>

\* Mutant of ConsumerCancelled: the message is put back, at the far end.
ConsumerCancelledPutsBack ==
    /\ cancels < MaxCancels
    /\ cancels' = cancels + 1
    /\ consumer = "racing"
    /\ consumer' = "none"
    /\ getter' = "none"
    /\ got' = <<>>
    /\ queue' = queue \o got
    /\ UNCHANGED <<closed, mainVars, delivered, gone, failures>>

\* The consumer's task is cancelled in asyncio.wait: get_task is cancelled,
\* which is too late for a message it has already taken off the queue.  The
\* caller may iterate stream() again.
ConsumerCancelled ==
    /\ cancels < MaxCancels
    /\ cancels' = cancels + 1
    /\ consumer = "racing"
    /\ consumer' = "none"
    /\ getter' = "none"
    /\ got' = <<>>
    /\ lost' = lost \cup ToSet(got)
    /\ UNCHANGED <<closed, mainVars, queue, delivered, unparsed, dropped,
                   failures>>

-----------------------------------------------------------------------------
MainStep ==
    \/ ConnectOk \/ ConnectFails \/ ConnectTimesOut
    \/ \E frame \in Frames : Frame(frame) \/ FrameRaises(frame)
    \/ PutResumes
    \/ ServerCloses \/ ConnectionDrops \/ CapReached
    \/ BackoffElapses \/ Cancelled

ConsumerStep ==
    \/ NextMessage \/ GetterTakes \/ YieldsMessage
    \/ MainTaskEnded \/ Drains

Next == Enter \/ Close \/ MainStep \/ ConsumerStep \/ ConsumerCancelled

Spec == Init /\ [][Next]_vars

\* A ready task is run by the event loop, a sleep ends, and a server that
\* accepts again and again is at last connected to.  A client is entered, and
\* nothing more is assumed of the owner, of frames or of failures.
Fairness ==
    /\ WF_vars(Enter)
    /\ WF_vars(ConsumerStep)
    /\ WF_vars(PutResumes)
    /\ WF_vars(BackoffElapses)
    /\ WF_vars(Cancelled)
    /\ SF_vars(ConnectOk)

FairSpec == Spec /\ Fairness

-----------------------------------------------------------------------------
(* Types.                                                                  *)
TypeOK ==
    /\ {closed, cancelling, connectedSince} \subseteq BOOLEAN
    /\ main \in {"none", "connecting", "reading", "putting", "backoff", "done"}
    /\ {attempt, currentAttempt, reconnectCount, received, failures, cancels}
         \subseteq Nat
    /\ queue \in Seq(1 .. MaxFrames) /\ Len(queue) <= QueueMaxSize
    /\ putting \in Seq(1 .. MaxFrames) /\ Len(putting) <= 1
    /\ consumer \in {"none", "racing", "busy", "draining", "returned"}
    /\ getter \in {"none", "waiting", "done"}
    /\ got \in Seq(1 .. MaxFrames) /\ Len(got) <= 1
    /\ delivered \in Seq(1 .. MaxFrames)
    /\ byKind \in [Kinds -> 0 .. MaxFrames]
    /\ unparsed \cup dropped \cup lost \subseteq 1 .. MaxFrames

\* Every message on its way, oldest first.
Pipeline == delivered \o got \o queue \o putting

(* Order and conservation, over reconnects, the cap, close and cancelled   *)
(* consumers: messages come out once and in the order of arrival, and each *)
(* counted message is delivered, on its way, or accounted as dropped or    *)
(* lost.                                                                   *)
InOrderOnce ==
    /\ \A i, j \in 1 .. Len(Pipeline) : i < j => Pipeline[i] < Pipeline[j]
    /\ ToSet(Pipeline) \cup unparsed \cup dropped \cup lost = 1 .. received
    /\ ToSet(Pipeline) \cap (unparsed \cup dropped \cup lost) = {}

(* stream(), binance_ws.py:651-653: "messages successfully parsed and      *)
(* queued before disconnection are always delivered".  A queued message is *)
(* yielded in the end, whatever happens to the connection and whenever the *)
(* client is closed, or it is the one a cancelled consumer had taken.      *)
EveryQueuedMessageYielded ==
    \A m \in 1 .. MaxFrames :
        m \in ToSet(queue) ~> m \in ToSet(delivered) \cup lost

(* _run_with_reconnect: "Never gives up on errors; the only way out is     *)
(* .close()".  A client that is not closed always gets connected again.    *)
NeverGivesUp == []<>(Connected \/ closed)

(* __aexit__ takes effect: the main task ends and the consumer's iteration *)
(* returns, even when the loop was blocked on a full queue.                *)
CloseEndsStream == closed ~> (main = "done" /\ consumer = "returned")

(* The uptime clock and the counts of WsMetrics agree with what happened:  *)
(* the clock runs exactly while connected, through reconnects, the cap and *)
(* cancellations, and the messages by kind add up to those received but    *)
(* for the frames whose parsing raised.                                    *)
ClockAndCountsAgree ==
    /\ connectedSince = Connected
    /\ byKind["kline"] + byKind["bookTicker"] + byKind["trade"] + byKind["unknown"]
         + Cardinality(unparsed) = received

-----------------------------------------------------------------------------
(* stream() is the bounded first-in first-out buffer of MessageStream      *)
(* whatever the supervisor does: reconnects, the cap, a full queue, a      *)
(* close and the helper task that takes a message ahead of its consumer    *)
(* change neither the order nor the set of what was queued.                *)
Promised == INSTANCE MessageStream
              WITH Capacity <- QueueMaxSize, counted <- received,
                   waiting <- got \o queue, yielded <- delivered

ImplementsMessageStream == Promised!Spec

=============================================================================
