---------------------------- MODULE OrderSubmit -----------------------------
(***************************************************************************)
(* BinanceLiveExecClient._submit_order                                     *)
(* (src/hermes/execution/binance_exec_client.py) over RestClient: the      *)
(* events NautilusTrader (NT) is given for an order, next to what became   *)
(* of it at the venue.  A call of RestClient is the new_order() of one     *)
(* order, or a public or signed call somebody else makes meanwhile over    *)
(* the same connection.                                                    *)
(***************************************************************************)
EXTENDS RestClient

\* FILLED stands for PARTIALLY_FILLED as well.  An order that is out of the
\* book, expired or cancelled, is EXPIRED without and ENDED with executions.
Statuses == {"NEW", "REJECTED", "FILLED", "EXPIRED", "ENDED"}

Dealt(s) == s \in {"FILLED", "ENDED"}

\* The venue goes on after its answer: a resting order is executed or leaves
\* the book, a partly executed one leaves it.  Nothing of it comes here, since
\* the client has no user data stream.
Becomes(s) ==
    CASE s = "NEW" -> {"FILLED", "EXPIRED"}
      [] s = "FILLED" -> {"ENDED"}
      [] OTHER -> {}

VARIABLES
    event,      \* event[o]: the latest order event generated for o
    task,       \* task[o]: "none", "awaiting", "returned" or "raised"
    status,     \* status[o] of the order at the venue; "none" when not there
    shown,      \* shown[o]: the status with which the venue answered
    hidden      \* history: orders executed behind an error page

orderVars  == <<event, task, status, shown, hidden>>
submitVars == <<restVars, orderVars>>

IsOrder(c) == kind[c] = "order"

SubmitInit ==
    /\ RestInit
    /\ event = [o \in Calls |-> "initialized"]
    /\ task = [o \in Calls |-> "none"]
    /\ status = [o \in Calls |-> "none"]
    /\ shown = [o \in Calls |-> "none"]
    /\ hidden = {}

Generates(o, e) == event' = [event EXCEPT ![o] = e]

-----------------------------------------------------------------------------
\* Segment 1 and the translation of segment 2: the order is reported as
\* submitted, and one that does not translate is rejected without a call.
SubmitRefused(o) ==
    /\ IsOrder(o) /\ task[o] = "none"
    /\ Generates(o, "rejected")
    /\ task' = [task EXCEPT ![o] = "returned"]
    /\ UNCHANGED <<restVars, status, shown, hidden>>

SubmitOrder(o) ==
    /\ IsOrder(o) /\ task[o] = "none"
    /\ Request(o)
    /\ Generates(o, "submitted")
    /\ task' = [task EXCEPT ![o] = "awaiting"]
    /\ UNCHANGED <<status, shown, hidden>>

\* Any other endpoint method of the client.
OtherRequest(c) ==
    /\ ~IsOrder(c)
    /\ Request(c)
    /\ UNCHANGED orderVars

\* Mutants of Reported: every exception rejects the order; an order that was
\* not filled at once is not reported.
ReportedRejected(o) ==
    IF outcome[o] # "ok" \/ shown[o] = "REJECTED" THEN "rejected"
    ELSE IF shown[o] = "FILLED" THEN "filled" ELSE "accepted"
ReportedFills(o) ==
    CASE outcome[o] \in {"api", "rate"} -> "rejected"
      [] outcome[o] = "ok" /\ shown[o] = "REJECTED" -> "rejected"
      [] outcome[o] = "ok" /\ shown[o] = "FILLED" -> "filled"
      [] OTHER -> event[o]

\* The last event of a submission, by what new_order() returned or raised.
Reported(o) ==
    CASE outcome[o] \in {"api", "rate"} -> "rejected"
      [] outcome[o] = "ok" -> IF shown[o] = "REJECTED" THEN "rejected"
                              ELSE IF shown[o] = "FILLED" THEN "filled"
                              ELSE "accepted"
      [] OTHER -> event[o]

\* new_order() came back, from segment 2 to the end.  What is neither a
\* ValueError nor a BinanceAPIError leaves _submit_order, and so does the
\* KeyError of a body without orderId.
SubmitReturns(o) ==
    /\ task[o] = "awaiting"
    /\ pc[o] = "done"
    /\ task' = [task EXCEPT ![o] =
                  IF outcome[o] \in {"ok", "api", "rate"} THEN "returned" ELSE "raised"]
    /\ event' = [event EXCEPT ![o] = Reported(o)]
    /\ UNCHANGED <<restVars, status, shown, hidden>>

\* The venue answers; an order it executes gets a status.
VenueHandles(o) ==
    /\ Venue(o)
    /\ IF placed'[o] > placed[o]
       THEN /\ \E s \in Statuses : /\ status' = [status EXCEPT ![o] = s]
                                    /\ shown' = [shown EXCEPT ![o] = s]
            /\ hidden' = IF answer'[o] = "garbled" THEN hidden \cup {o} ELSE hidden
       ELSE UNCHANGED <<status, shown, hidden>>
    /\ UNCHANGED <<event, task>>

\* An order moves at the venue, while its answer is under way or later.
VenueMoves(o) ==
    /\ \E s \in Becomes(status[o]) : status' = [status EXCEPT ![o] = s]
    /\ UNCHANGED <<restVars, event, task, shown, hidden>>

SubmitNext ==
    \/ Owner /\ UNCHANGED orderVars
    \/ \E o \in Calls :
          \/ SubmitRefused(o) \/ SubmitOrder(o) \/ SubmitReturns(o)
          \/ OtherRequest(o)
          \/ (Progress(o) \/ CallCancelled(o)) /\ UNCHANGED orderVars
          \/ VenueHandles(o) \/ VenueMoves(o)

SubmitSpec == SubmitInit /\ [][SubmitNext]_submitVars

\* A request is answered or times out, and a ready task is run.
SubmitFairness ==
    \A o \in Calls :
        /\ WF_submitVars(Progress(o) /\ UNCHANGED orderVars)
        /\ WF_submitVars(SubmitReturns(o))

FairSubmitSpec == SubmitSpec /\ SubmitFairness

-----------------------------------------------------------------------------
(* Types.                                                                  *)
SubmitTypeOK ==
    /\ RestTypeOK
    /\ event \in [Calls -> {"initialized", "submitted", "accepted", "filled",
                            "rejected"}]
    /\ task \in [Calls -> {"none", "awaiting", "returned", "raised"}]
    /\ {status, shown} \subseteq [Calls -> Statuses \cup {"none"}]
    /\ hidden \subseteq Calls

(* What NT believes is so at the venue, though the order moves on there:   *)
(* an order it holds accepted or filled was placed, once, and not turned   *)
(* down; a filled one was executed; an accepted one was not executed yet   *)
(* when the venue answered, or was out of the book by then; a rejected one *)
(* never was in the book, unless it was placed behind an error page.       *)
BeliefMatchesVenue ==
    \A o \in Calls :
        /\ event[o] \in {"accepted", "filled"} =>
              placed[o] = 1 /\ status[o] # "REJECTED"
        /\ event[o] = "filled" => Dealt(status[o])
        /\ event[o] = "accepted" /\ Dealt(status[o]) => shown[o] \in {"NEW", "ENDED"}
        /\ event[o] = "rejected" =>
              status[o] \in {"none", "REJECTED"} \/ o \in hidden

(* NT may be left not knowing of an order at the venue only while the call *)
(* runs, or when something was raised through _submit_order: a transport   *)
(* error, the failed assertion or the missing orderId of a body that is    *)
(* not an order, or a cancellation.                                        *)
UnknownOnlyWhenRaised ==
    \A o \in Calls :
        event[o] = "submitted" /\ status[o] # "none" =>
            \/ task[o] = "awaiting"
            \/ /\ task[o] = "raised"
               /\ outcome[o] \in {"transport", "assertion", "bare", "cancelled"}

(* binance_exec_client.py:28: _submit_order is "submitted ->               *)
(* accepted/rejected + fills".  A submitted order is answered in the end,  *)
(* unless _submit_order raises.                                            *)
SubmittedSettles ==
    \A o \in Calls :
        event[o] = "submitted" ~> event[o] # "submitted" \/ task[o] = "raised"

=============================================================================
