---------------------------- MODULE MessageStream ----------------------------
(***************************************************************************)
(* What BinanceWsClient.stream() promises its consumer                     *)
(* (src/hermes/exchanges/binance_ws.py, its docstring), whatever happens   *)
(* to the connections behind it: a bounded first-in first-out buffer.  A   *)
(* message that was queued waits until it is yielded, and only a consumer  *)
(* that is cancelled can make it disappear: the oldest, one at a time.  A  *)
(* message that was counted may never be queued.                           *)
(***************************************************************************)
EXTENDS Naturals, SequencesExt

CONSTANT Capacity  \* maxsize of the queue

VARIABLES
    counted,  \* messages received so far; a message is its number
    waiting,  \* queued and not yet yielded, oldest first: the queue and, at
              \* its head, the message a consumer's helper task holds
    yielded,  \* messages the consumer was given, in order
    cancels   \* consumers cancelled so far

vars == <<counted, waiting, yielded, cancels>>

Init == counted = 0 /\ waiting = <<>> /\ yielded = <<>> /\ cancels = 0

\* m is queued: it came after every message that was queued before, and the
\* queue has room for it (beside the queue, one message may be in a hand).
Queued(m) ==
    /\ Len(waiting) <= Capacity
    /\ \A x \in ToSet(yielded) \cup ToSet(waiting) : x < m
    /\ waiting' = Append(waiting, m)

\* A message is counted, and queued at once or not yet.
Arrive ==
    /\ counted' = counted + 1
    /\ Queued(counted + 1) \/ UNCHANGED waiting
    /\ UNCHANGED <<yielded, cancels>>

\* A message that had been counted is queued after all.
QueuedLater ==
    /\ \E m \in 1 .. counted : Queued(m)
    /\ UNCHANGED <<counted, yielded, cancels>>

Yield ==
    /\ waiting # <<>>
    /\ yielded' = Append(yielded, Head(waiting))
    /\ waiting' = Tail(waiting)
    /\ UNCHANGED <<counted, cancels>>

Cancel ==
    /\ cancels' = cancels + 1
    /\ \/ UNCHANGED waiting
       \/ waiting # <<>> /\ waiting' = Tail(waiting)
    /\ UNCHANGED <<counted, yielded>>

Next == Arrive \/ QueuedLater \/ Yield \/ Cancel

Spec == Init /\ [][Next]_vars

=============================================================================
