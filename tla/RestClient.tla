----------------------------- MODULE RestClient -----------------------------
(***************************************************************************)
(* BinanceRestClient (src/hermes/exchanges/binance_rest.py): its           *)
(* connection and _request, the one function that talks to the venue.      *)
(*                                                                         *)
(* A call signs its parameters once, sends them, and on a transport error  *)
(* sends the same bytes again after a pause, unless it is an order.  The   *)
(* venue and the network are the environment: a request may reach the      *)
(* venue and its answer be lost.  Time is counted in half seconds since    *)
(* the call signed its parameters, the unit of the pause between attempts. *)
(***************************************************************************)
EXTENDS Integers

CONSTANTS
    Calls,              \* calls of endpoint methods, each made once
    Kinds,              \* kinds of call made: "public", "signed", "order"
    DefaultRetries,     \* max_retries when the endpoint does not override it
    Timeout,            \* timeout_s, in half seconds
    RecvWindow,         \* recv_window_ms, in half seconds
    OwnerMayClose,      \* aclose() may come while calls are under way
    GarbledMayExecute,  \* an answer that is not the venue's own may follow an
                        \* execution
    MaxConnects         \* bound: httpx clients created in all

ASSUME RestAssumption ==
    /\ Kinds \subseteq {"public", "signed", "order"}
    /\ {DefaultRetries, Timeout, RecvWindow, MaxConnects} \subseteq Nat
    /\ {OwnerMayClose, GarbledMayExecute} \subseteq BOOLEAN

VARIABLES
    client,     \* _client: number of the httpx client, 0 for None
    opened,     \* httpx clients created so far
    shut,       \* httpx clients whose aclose() was called
    closing,    \* those whose connections an aclose() of ours awaits to go down
    pc,         \* pc[c]: "idle", "sending", "backoff" or "done"
    kind,       \* kind[c] of the call
    attempt,    \* attempt[c]: failed attempts so far
    age,        \* age[c]: half seconds since the parameters were signed, up to
                \* one more than the window
    answer,     \* answer[c] of the venue to the present attempt, not yet read
    outcome,    \* outcome[c]: the result or the exception of the call
    \* History.
    overlapped, \* an aclose() returned while another one was still awaiting
    placed      \* placed[c]: orders the venue executed for the call

connVars == <<client, opened, shut, closing, overlapped>>
callVars == <<pc, kind, attempt, age, answer, outcome, placed>>
restVars == <<connVars, callVars>>

\* "garbled" is a 5xx or non-JSON page, "odd" a 2xx of another shape than the
\* endpoint promises; "bare" is such a body handed to the caller.
Answers  == {"ok", "refused", "limited", "stale", "garbled", "odd"}
Outcomes == {"ok", "bare", "api", "rate", "assertion", "transport", "config",
             "attribute", "runtime", "cancelled"}

RestInit ==
    /\ client = 0 /\ opened = 0 /\ shut = {} /\ closing = {}
    /\ overlapped = FALSE
    /\ pc = [c \in Calls |-> "idle"]
    /\ kind \in [Calls -> Kinds]
    /\ attempt = [c \in Calls |-> 0]
    /\ age = [c \in Calls |-> 0]
    /\ answer = [c \in Calls |-> "none"]
    /\ outcome = [c \in Calls |-> "none"]
    /\ placed = [c \in Calls |-> 0]

-----------------------------------------------------------------------------
\* Mutant of Connect: the client that is there is replaced.
ConnectAgain ==
    /\ opened < MaxConnects
    /\ opened' = opened + 1
    /\ client' = opened + 1
    /\ UNCHANGED <<shut, closing, overlapped, callVars>>

\* connect(): a second call while a client is there, closed or not, does
\* nothing.
Connect ==
    /\ client = 0
    /\ opened < MaxConnects
    /\ opened' = opened + 1
    /\ client' = opened + 1
    /\ UNCHANGED <<shut, closing, overlapped, callVars>>

OwnerCloses ==
    /\ client # 0
    /\ OwnerMayClose \/ \A c \in Calls : pc[c] \in {"idle", "done"}

\* aclose(): the httpx client is closed at once, but _client keeps it until
\* its connections are down.
CloseBegins ==
    /\ OwnerCloses
    /\ client \notin shut
    /\ shut' = shut \cup {client}
    /\ closing' = closing \cup {client}
    /\ UNCHANGED <<client, opened, overlapped, callVars>>

\* aclose() of an httpx client that is closed already returns at once, though
\* the aclose() that closed it may still be waiting.
CloseAgain ==
    /\ OwnerCloses
    /\ client \in shut
    /\ client' = 0
    /\ overlapped' = (overlapped \/ closing # {})
    /\ UNCHANGED <<opened, shut, closing, callVars>>

\* The connections of httpx client n are down: _client becomes None, whatever
\* it is by now.
CloseEnds(n) ==
    /\ n \in closing
    /\ closing' = closing \ {n}
    /\ client' = 0
    /\ UNCHANGED <<opened, shut, overlapped, callVars>>

\* The aclose() is cancelled, or raises, at its await.
CloseCancelled(n) ==
    /\ n \in closing
    /\ closing' = closing \ {n}
    /\ UNCHANGED <<client, opened, shut, overlapped, callVars>>

-----------------------------------------------------------------------------
\* Mutant of Retries: orders are sent again like everything else.
RetriesAlike(k) == DefaultRetries

Retries(k) == IF k = "order" THEN 0 ELSE DefaultRetries
Signed(c)  == kind[c] \in {"signed", "order"}

Ages(c, units) ==
    age' = [age EXCEPT ![c] = IF @ + units > RecvWindow THEN RecvWindow + 1
                              ELSE @ + units]

Ends(c, result) ==
    /\ pc' = [pc EXCEPT ![c] = "done"]
    /\ outcome' = [outcome EXCEPT ![c] = result]

\* self._client.request(): _client is read anew for every attempt.
Sends(c, missing) ==
    IF client = 0 THEN Ends(c, missing)
    ELSE IF client \in shut THEN Ends(c, "runtime")
    ELSE pc' = [pc EXCEPT ![c] = "sending"] /\ UNCHANGED outcome

\* _request(): without a client a ConfigurationError; otherwise the
\* parameters are stamped and signed, once, and sent.
Request(c) ==
    /\ pc[c] = "idle"
    /\ Sends(c, "config")
    /\ UNCHANGED <<connVars, kind, attempt, age, answer, placed>>

\* The pause is over: the same bytes are sent again.
Resend(c) ==
    /\ pc[c] = "backoff"
    /\ Ages(c, attempt[c])
    /\ Sends(c, "attribute")
    /\ UNCHANGED <<connVars, kind, attempt, answer, placed>>

\* Mutant of Counted: the failed attempt is not counted.
Uncounted(c) == attempt

Counted(c) == [attempt EXCEPT ![c] = @ + 1]

\* The transport fails at once or after the timeout, whether or not the
\* request had reached the venue.  Timeouts and network errors are caught and
\* retried; any other error of httpx (RemoteProtocolError) ends the call.
TransportFails(c, waited, caught) ==
    /\ pc[c] = "sending"
    /\ Ages(c, waited)
    /\ answer' = [answer EXCEPT ![c] = "none"]
    /\ IF ~caught \/ attempt[c] >= Retries(kind[c])
       THEN Ends(c, "transport") /\ UNCHANGED attempt
       ELSE /\ attempt' = Counted(c)
            /\ pc' = [pc EXCEPT ![c] = "backoff"]
            /\ UNCHANGED outcome
    /\ UNCHANGED <<connVars, kind, placed>>

\* The caller's task is cancelled at the await of a request or of a pause.
CallCancelled(c) ==
    /\ pc[c] \in {"sending", "backoff"}
    /\ Ends(c, "cancelled")
    /\ answer' = [answer EXCEPT ![c] = "none"]
    /\ UNCHANGED <<connVars, kind, attempt, age, placed>>

-----------------------------------------------------------------------------
\* The venue handles the present attempt of a call.  It refuses a stale one;
\* only an order that is answered "ok", or lost behind an answer that is not
\* the venue's own, executes.
Stale(c) == Signed(c) /\ age[c] > RecvWindow

VenueAnswers(c, reply, executes) ==
    /\ pc[c] = "sending"
    /\ answer[c] = "none"
    /\ reply = "stale" <=> Stale(c)
    /\ executes => kind[c] = "order"
    /\ executes => reply = "ok" \/ (GarbledMayExecute /\ reply \in {"garbled", "odd"})
    /\ reply = "ok" /\ kind[c] = "order" => executes
    /\ answer' = [answer EXCEPT ![c] = reply]
    /\ placed' = [placed EXCEPT ![c] = @ + (IF executes THEN 1 ELSE 0)]
    /\ UNCHANGED <<connVars, pc, kind, attempt, age, outcome>>

\* _parse_response: a 2xx with JSON is the result, and what of it is not as
\* promised meets an assertion or goes to the caller; every other answer but
\* the rate limit's is a BinanceAPIError.  No answer is retried.
Parsed(c) ==
    CASE answer[c] = "ok" -> {"ok"}
      [] answer[c] = "odd" -> {IF kind[c] = "public" THEN "api" ELSE "assertion",
                               "bare"}
      [] answer[c] = "limited" -> {"rate"}
      [] OTHER -> {"api"}

Responds(c) ==
    /\ pc[c] = "sending"
    /\ answer[c] # "none"
    /\ \E result \in Parsed(c) : Ends(c, result)
    /\ answer' = [answer EXCEPT ![c] = "none"]
    /\ UNCHANGED <<connVars, kind, attempt, age, placed>>

-----------------------------------------------------------------------------
Progress(c) ==
    \/ Resend(c)
    \/ Responds(c)
    \/ \E waited \in {0, Timeout}, caught \in BOOLEAN :
          TransportFails(c, waited, caught)

Venue(c) ==
    \E reply \in Answers, executes \in BOOLEAN : VenueAnswers(c, reply, executes)

Owner ==
    \/ Connect \/ CloseBegins \/ CloseAgain
    \/ \E n \in closing : CloseEnds(n) \/ CloseCancelled(n)

RestNext ==
    \/ Owner
    \/ \E c \in Calls : Request(c) \/ Progress(c) \/ CallCancelled(c) \/ Venue(c)

RestSpec == RestInit /\ [][RestNext]_restVars

-----------------------------------------------------------------------------
(* Types.                                                                  *)
RestTypeOK ==
    /\ client \in 0 .. opened /\ opened \in Nat
    /\ shut \subseteq 1 .. opened /\ closing \subseteq shut
    /\ overlapped \in BOOLEAN
    /\ pc \in [Calls -> {"idle", "sending", "backoff", "done"}]
    /\ kind \in [Calls -> Kinds]
    /\ attempt \in [Calls -> Nat]
    /\ age \in [Calls -> 0 .. RecvWindow + 1]
    /\ answer \in [Calls -> Answers \cup {"none"}]
    /\ outcome \in [Calls -> Outcomes \cup {"none"}]
    /\ placed \in [Calls -> Nat]

(* binance_rest.py:364, "order submission must never auto-retry (duplicate *)
(* order risk)": whatever is lost or times out, one call executes at most  *)
(* one order.                                                              *)
OnePlacementPerCall ==
    \A c \in Calls : placed[c] <= 1

(* What the caller of new_order may conclude: a call that returned has     *)
(* executed exactly one order, and one that was refused by the rate limit  *)
(* or found no open client has executed none.  A transport error, an       *)
(* AssertionError, a body without its parts, a cancellation and a          *)
(* BinanceAPIError leave it open.                                          *)
OutcomeTellsOrder ==
    \A c \in Calls : kind[c] = "order" =>
        /\ outcome[c] = "ok" => placed[c] = 1
        /\ outcome[c] \in {"rate", "config", "attribute", "runtime"} => placed[c] = 0

\* An httpx client is the present one or has been closed.
NoClientLeaked == \A n \in 1 .. opened : n = client \/ n \in shut

(* aclose() is "Idempotent" (:188).  connect() and aclose() come in any    *)
(* order, under running calls, cancelled or not, and an httpx client is    *)
(* forgotten open only if an aclose() returned while another was still at  *)
(* its await, whose second half then forgets a client that was connected   *)
(* in between.                                                             *)
LeakNeedsOverlap == overlapped \/ NoClientLeaked

(* Every call comes back to its caller: the retry loop ends.               *)
CallsEnd == \A c \in Calls : pc[c] # "idle" ~> pc[c] = "done"

=============================================================================
