------------------------- MODULE OrderSubmitProofs --------------------------
(***************************************************************************)
(* Proofs about RestClient and OrderSubmit, for any number of calls, any   *)
(* retries and timeouts, and every behaviour of the venue the models have. *)
(***************************************************************************)
EXTENDS OrderSubmit, TLAPS

-----------------------------------------------------------------------------
(* The request engine alone.  Where each call is tells how many orders the *)
(* venue has executed for it: an order is never in back-off, since it has  *)
(* no retries, so it is sent once and answered once.                       *)
Executed(c) ==
    /\ answer[c] \in {"none", "refused", "limited", "stale"} => placed[c] = 0
    /\ answer[c] = "ok" => placed[c] = 1

CallInv(c) ==
    /\ placed[c] \in {0, 1}
    /\ pc[c] = "done" <=> outcome[c] # "none"
    /\ pc[c] # "sending" => answer[c] = "none"
    /\ kind[c] # "order" => placed[c] = 0
    /\ kind[c] = "order" =>
          /\ pc[c] # "backoff"
          /\ pc[c] = "idle" => placed[c] = 0
          /\ pc[c] = "sending" => Executed(c)
          /\ outcome[c] = "ok" => placed[c] = 1
          /\ outcome[c] \in {"rate", "config", "attribute", "runtime"} => placed[c] = 0

RestInv == RestTypeOK /\ \A c \in Calls : CallInv(c)

\* What RestTypeOK says of the connection.
ConnType ==
    /\ client \in 0 .. opened /\ opened \in Nat
    /\ shut \subseteq 1 .. opened /\ closing \subseteq shut
    /\ overlapped \in BOOLEAN

LEMMA RestInvInit == RestInit => RestInv
<1> SUFFICES ASSUME RestInit PROVE RestInv
    OBVIOUS
<1>1. ConnType
  <2>1. overlapped \in BOOLEAN
    BY DEF RestInit
  <2>2. client = 0 /\ opened = 0 /\ shut = {} /\ closing = {}
    BY DEF RestInit
  <2>3. QED
    BY <2>1, <2>2 DEF ConnType
<1>2. 0 \in 0 .. RecvWindow + 1
    BY RestAssumption
<1>3. RestTypeOK
    BY <1>1, <1>2 DEF RestInit, RestTypeOK, ConnType
<1>4. \A c \in Calls : CallInv(c)
    BY DEF RestInit, CallInv
<1>5. QED
    BY <1>3, <1>4 DEF RestInv

\* A step of one call that keeps the types and its own part of the
\* invariant keeps the invariant.
LEMMA OneCallMoves ==
    ASSUME RestInv, RestTypeOK', NEW c \in Calls, CallInv(c)',
           \A d \in Calls \ {c} : /\ pc'[d] = pc[d] /\ kind'[d] = kind[d]
                                  /\ answer'[d] = answer[d]
                                  /\ outcome'[d] = outcome[d]
                                  /\ placed'[d] = placed[d]
    PROVE  RestInv'
<1>1. ASSUME NEW d \in Calls \ {c} PROVE CallInv(d)'
    BY <1>1 DEF RestInv, CallInv, Executed
<1>2. QED
    BY <1>1 DEF RestInv

LEMMA AgesType ==
    ASSUME RestTypeOK, NEW c \in Calls, NEW units \in Nat, Ages(c, units)
    PROVE  age' \in [Calls -> 0 .. RecvWindow + 1]
BY RestAssumption DEF RestTypeOK, Ages

LEMMA SendsType ==
    ASSUME RestTypeOK, NEW c \in Calls, NEW missing \in Outcomes, Sends(c, missing)
    PROVE  /\ pc' \in [Calls -> {"idle", "sending", "backoff", "done"}]
           /\ outcome' \in [Calls -> Outcomes \cup {"none"}]
           /\ \/ pc'[c] = "sending" /\ outcome'[c] = outcome[c]
              \/ pc'[c] = "done" /\ outcome'[c] \in {missing, "runtime"}
           /\ \A d \in Calls \ {c} : pc'[d] = pc[d] /\ outcome'[d] = outcome[d]
<1>1. CASE pc' = [pc EXCEPT ![c] = "sending"] /\ UNCHANGED outcome
    BY <1>1 DEF RestTypeOK
<1>2. ASSUME NEW result \in {missing, "runtime"}, Ends(c, result)
      PROVE  /\ pc' = [pc EXCEPT ![c] = "done"]
             /\ outcome' = [outcome EXCEPT ![c] = result]
             /\ result \in Outcomes
    BY <1>2 DEF Ends, Outcomes
<1>3. ASSUME NEW result \in {missing, "runtime"}, Ends(c, result)
      PROVE  /\ pc' \in [Calls -> {"idle", "sending", "backoff", "done"}]
             /\ outcome' \in [Calls -> Outcomes \cup {"none"}]
             /\ pc'[c] = "done" /\ outcome'[c] = result
             /\ \A d \in Calls \ {c} : pc'[d] = pc[d] /\ outcome'[d] = outcome[d]
    BY <1>3, <1>2 DEF RestTypeOK
<1>4. QED
    BY <1>1, <1>3 DEF Sends

LEMMA RestInvStep == RestInv /\ [RestNext]_restVars => RestInv'
<1> SUFFICES ASSUME RestInv, [RestNext]_restVars PROVE RestInv'
    OBVIOUS
<1> USE DEF connVars
<1>0. RestTypeOK /\ \A c \in Calls : CallInv(c)
    BY DEF RestInv
<1>1. CASE Owner
  <2>1. UNCHANGED callVars
    BY <1>1 DEF Owner, Connect, CloseBegins, CloseAgain, CloseEnds, CloseCancelled
  <2>2. ConnType'
    <3>1. ConnType
        BY <1>0 DEF RestTypeOK, ConnType
    <3>2. CASE Connect
        BY <3>1, <3>2 DEF Connect, ConnType
    <3>3. CASE CloseBegins
        BY <3>1, <3>3 DEF CloseBegins, OwnerCloses, ConnType
    <3>4. CASE CloseAgain
      <4>1. overlapped' \in BOOLEAN
        BY <3>4, Zenon DEF CloseAgain
      <4>2. client' = 0 /\ UNCHANGED <<opened, shut, closing>>
        BY <3>4 DEF CloseAgain
      <4>3. QED
        BY <3>1, <4>1, <4>2 DEF ConnType
    <3>5. ASSUME NEW n \in closing, CloseEnds(n) \/ CloseCancelled(n)
          PROVE  ConnType'
      <4>1. /\ client' \in {0, client} /\ closing' = closing \ {n}
            /\ opened' = opened /\ shut' = shut /\ overlapped' = overlapped
        BY <3>5 DEF CloseEnds, CloseCancelled
      <4>2. closing' \subseteq shut' /\ shut' \subseteq 1 .. opened'
        BY <3>1, <4>1 DEF ConnType
      <4>3. client' \in 0 .. opened' /\ opened' \in Nat
        BY <3>1, <4>1 DEF ConnType
      <4>4. QED
        BY <3>1, <4>1, <4>2, <4>3 DEF ConnType
    <3>6. QED
        BY <1>1, <3>2, <3>3, <3>4, <3>5 DEF Owner
  <2>3. RestTypeOK'
    BY <1>0, <2>1, <2>2 DEF RestTypeOK, ConnType, callVars
  <2>4. QED
    BY <1>0, <2>1, <2>3 DEF RestInv, CallInv, Executed, callVars
<1>2. ASSUME NEW c \in Calls, Request(c) PROVE RestInv'
  <2>1. /\ Sends(c, "config") /\ pc[c] = "idle"
        /\ UNCHANGED <<client, opened, shut, closing, overlapped, kind, attempt, age,
                       answer, placed>>
    BY <1>2 DEF Request
  <2>2. RestTypeOK'
    BY <1>0, <2>1, SendsType DEF RestTypeOK, Outcomes
  <2>3. CallInv(c)'
    BY <1>0, <2>1, SendsType DEF CallInv, Executed, Outcomes
  <2>4. \A d \in Calls \ {c} : pc'[d] = pc[d] /\ outcome'[d] = outcome[d]
    BY <1>0, <2>1, SendsType DEF Outcomes
  <2>5. QED
    BY <2>1, <2>2, <2>3, <2>4, OneCallMoves
<1>3. ASSUME NEW c \in Calls, Resend(c) PROVE RestInv'
  <2>1. /\ Sends(c, "attribute") /\ pc[c] = "backoff" /\ Ages(c, attempt[c])
        /\ UNCHANGED <<client, opened, shut, closing, overlapped, kind, attempt, answer,
                       placed>>
    BY <1>3 DEF Resend
  <2>2. age' \in [Calls -> 0 .. RecvWindow + 1]
    BY <1>0, <2>1, AgesType DEF RestTypeOK
  <2>3. RestTypeOK'
    BY <1>0, <2>1, <2>2, SendsType DEF RestTypeOK, Outcomes
  <2>4. kind[c] # "order"
    BY <1>0, <2>1 DEF CallInv
  <2>5. CallInv(c)'
    BY <1>0, <2>1, <2>4, SendsType DEF CallInv, Outcomes
  <2>6. \A d \in Calls \ {c} : pc'[d] = pc[d] /\ outcome'[d] = outcome[d]
    BY <1>0, <2>1, SendsType DEF Outcomes
  <2>7. QED
    BY <2>1, <2>3, <2>5, <2>6, OneCallMoves
<1>4. ASSUME NEW c \in Calls, Responds(c) PROVE RestInv'
  <2>1. PICK result \in Parsed(c) : Ends(c, result)
    BY <1>4 DEF Responds
  <2>2. /\ pc[c] = "sending" /\ answer[c] # "none"
        /\ pc' = [pc EXCEPT ![c] = "done"]
        /\ outcome' = [outcome EXCEPT ![c] = result]
        /\ answer' = [answer EXCEPT ![c] = "none"]
        /\ UNCHANGED <<client, opened, shut, closing, overlapped, kind, attempt,
                       age, placed>>
    BY <1>4, <2>1 DEF Responds, Ends
  <2>3. /\ result \in Outcomes
        /\ result = "ok" => answer[c] = "ok"
        /\ result = "rate" => answer[c] = "limited"
        /\ result \notin {"config", "attribute", "runtime"}
    BY <2>1 DEF Parsed, Outcomes
  <2>4. RestTypeOK'
    BY <1>0, <2>2, <2>3 DEF RestTypeOK
  <2>5. /\ pc'[c] = "done" /\ outcome'[c] = result /\ answer'[c] = "none"
        /\ placed'[c] = placed[c] /\ kind'[c] = kind[c]
    BY <1>0, <2>2 DEF RestTypeOK
  <2>6. CallInv(c)'
    BY <1>0, <2>2, <2>3, <2>5 DEF CallInv, Executed, Outcomes
  <2>7. QED
    BY <1>0, <2>2, <2>4, <2>6, OneCallMoves DEF RestTypeOK
<1>5. ASSUME NEW c \in Calls, NEW waited \in {0, Timeout}, NEW caught \in BOOLEAN,
             TransportFails(c, waited, caught)
      PROVE  RestInv'
  <2>1. /\ pc[c] = "sending" /\ Ages(c, waited)
        /\ answer' = [answer EXCEPT ![c] = "none"]
        /\ UNCHANGED <<client, opened, shut, closing, overlapped, kind, placed>>
    BY <1>5 DEF TransportFails
  <2>2. age' \in [Calls -> 0 .. RecvWindow + 1]
    BY <1>0, <2>1, AgesType, RestAssumption
  <2>3. CASE ~caught \/ attempt[c] >= Retries(kind[c])
    <3>1. /\ pc' = [pc EXCEPT ![c] = "done"]
          /\ outcome' = [outcome EXCEPT ![c] = "transport"]
          /\ attempt' = attempt
        BY <1>5, <2>3 DEF TransportFails, Ends
    <3>2. RestTypeOK'
        BY <1>0, <2>1, <2>2, <3>1 DEF RestTypeOK, Outcomes
    <3>3. CallInv(c)'
        BY <1>0, <2>1, <3>1 DEF RestTypeOK, CallInv
    <3>4. QED
        BY <1>0, <2>1, <3>1, <3>2, <3>3, OneCallMoves DEF RestTypeOK
  <2>4. CASE ~(~caught \/ attempt[c] >= Retries(kind[c]))
    <3>1. /\ pc' = [pc EXCEPT ![c] = "backoff"]
          /\ attempt' = [attempt EXCEPT ![c] = @ + 1]
          /\ outcome' = outcome
        BY <1>5, <2>4 DEF TransportFails, Counted
    <3>2. kind[c] # "order"
        BY <1>0, <2>4 DEF Retries, RestTypeOK
    <3>3. RestTypeOK'
        BY <1>0, <2>1, <2>2, <3>1 DEF RestTypeOK
    <3>4. CallInv(c)'
        BY <1>0, <2>1, <3>1, <3>2 DEF RestTypeOK, CallInv
    <3>5. QED
        BY <1>0, <2>1, <3>1, <3>3, <3>4, OneCallMoves DEF RestTypeOK
  <2>5. QED
    BY <2>3, <2>4
<1>6. ASSUME NEW c \in Calls, NEW reply \in Answers, NEW executes \in BOOLEAN,
             VenueAnswers(c, reply, executes)
      PROVE  RestInv'
  <2>1. /\ pc[c] = "sending" /\ answer[c] = "none"
        /\ executes => kind[c] = "order" /\ reply \in {"ok", "garbled", "odd"}
        /\ reply = "ok" /\ kind[c] = "order" => executes
        /\ answer' = [answer EXCEPT ![c] = reply]
        /\ placed' = [placed EXCEPT ![c] = @ + (IF executes THEN 1 ELSE 0)]
        /\ UNCHANGED <<client, opened, shut, closing, overlapped, pc, kind, attempt, age,
                       outcome>>
    BY <1>6 DEF VenueAnswers
  <2>2. placed[c] = 0
    BY <1>0, <2>1 DEF CallInv, Executed
  <2>3. placed' = [placed EXCEPT ![c] = IF executes THEN 1 ELSE 0]
    BY <2>1, <2>2
  <2>4. RestTypeOK'
    BY <1>0, <2>1, <2>3 DEF RestTypeOK
  <2>5. CallInv(c)'
    BY <1>0, <2>1, <2>3 DEF RestTypeOK, CallInv, Executed
  <2>6. QED
    BY <1>0, <2>1, <2>3, <2>4, <2>5, OneCallMoves DEF RestTypeOK
<1>7. ASSUME NEW c \in Calls, CallCancelled(c) PROVE RestInv'
  <2>1. /\ pc[c] \in {"sending", "backoff"}
        /\ pc' = [pc EXCEPT ![c] = "done"]
        /\ outcome' = [outcome EXCEPT ![c] = "cancelled"]
        /\ answer' = [answer EXCEPT ![c] = "none"]
        /\ UNCHANGED <<client, opened, shut, closing, overlapped, kind, attempt,
                       age, placed>>
    BY <1>7 DEF CallCancelled, Ends
  <2>2. RestTypeOK'
    BY <1>0, <2>1 DEF RestTypeOK, Outcomes
  <2>3. CallInv(c)'
    BY <1>0, <2>1 DEF RestTypeOK, CallInv
  <2>4. QED
    BY <1>0, <2>1, <2>2, <2>3, OneCallMoves DEF RestTypeOK
<1>8. CASE UNCHANGED restVars
    BY <1>0, <1>8 DEF restVars, callVars, RestInv, RestTypeOK, CallInv, Executed
<1>9. QED
    BY <1>1, <1>2, <1>3, <1>4, <1>5, <1>6, <1>7, <1>8 DEF RestNext, Progress, Venue

\* The httpx clients: until an aclose() has overtaken another, the one at its
\* await is closing the present client, so that it forgets what it closed.
ConnInv ==
    /\ closing \subseteq shut
    /\ ~overlapped => closing \subseteq {client} /\ NoClientLeaked

LEMMA ConnStep ==
    RestTypeOK /\ ConnInv /\ [RestNext]_restVars => ConnInv'
<1> SUFFICES ASSUME RestTypeOK, ConnInv, [RestNext]_restVars PROVE ConnInv'
    OBVIOUS
<1>1. CASE Connect
  <2>1. /\ opened \in Nat /\ 0 \notin shut
    BY DEF RestTypeOK
  <2>2. ~overlapped => closing = {}
    BY <1>1, <2>1 DEF Connect, ConnInv
  <2>3. QED
    BY <1>1, <2>1, <2>2 DEF Connect, ConnInv, NoClientLeaked
<1>2. CASE CloseBegins
    BY <1>2 DEF CloseBegins, ConnInv, NoClientLeaked, RestTypeOK
<1>3. CASE CloseAgain
    BY <1>3 DEF CloseAgain, ConnInv, NoClientLeaked, RestTypeOK
<1>4. ASSUME NEW n \in closing, CloseEnds(n) PROVE ConnInv'
    BY <1>4 DEF CloseEnds, ConnInv, NoClientLeaked, RestTypeOK
<1>5. ASSUME NEW n \in closing, CloseCancelled(n) PROVE ConnInv'
    BY <1>5 DEF CloseCancelled, ConnInv, NoClientLeaked, RestTypeOK
<1>6. CASE UNCHANGED connVars
    BY <1>6 DEF connVars, ConnInv, NoClientLeaked
<1>7. ASSUME NEW c \in Calls, Request(c) \/ Progress(c) \/ CallCancelled(c) \/ Venue(c)
      PROVE  UNCHANGED connVars
    BY <1>7 DEF Request, Progress, Resend, Responds, TransportFails, CallCancelled,
                Venue, VenueAnswers
<1>8. QED
    BY <1>1, <1>2, <1>3, <1>4, <1>5, <1>6, <1>7 DEF RestNext, Owner, restVars

-----------------------------------------------------------------------------
(* Order submission on top.                                                *)
LEMMA SubmitStepsRest == [SubmitNext]_submitVars => [RestNext]_restVars
<1> SUFFICES ASSUME [SubmitNext]_submitVars PROVE [RestNext]_restVars
    OBVIOUS
<1>1. CASE Owner
    BY <1>1 DEF RestNext
<1>2. ASSUME NEW o \in Calls, SubmitRefused(o) \/ SubmitReturns(o) \/ VenueMoves(o)
      PROVE  UNCHANGED restVars
    BY <1>2 DEF SubmitRefused, SubmitReturns, VenueMoves
<1>3. ASSUME NEW o \in Calls,
             \/ SubmitOrder(o) \/ OtherRequest(o) \/ VenueHandles(o)
             \/ Progress(o) \/ CallCancelled(o)
      PROVE  RestNext
    BY <1>3 DEF SubmitOrder, OtherRequest, VenueHandles, RestNext
<1>4. CASE UNCHANGED submitVars
    BY <1>4 DEF submitVars
<1>5. QED
    BY <1>1, <1>2, <1>3, <1>4 DEF SubmitNext

LEMMA RestInvAlways == SubmitSpec => [](RestInv /\ ConnInv)
<1>1. SubmitInit => RestInit
    BY DEF SubmitInit
<1>2. RestInit => ConnInv
    BY DEF RestInit, ConnInv, NoClientLeaked
<1>3. RestInv => RestTypeOK
    BY DEF RestInv
<1>4. QED
    BY <1>1, <1>2, <1>3, RestInvInit, RestInvStep, ConnStep, SubmitStepsRest, PTL
       DEF SubmitSpec

(* new_order is never sent twice by itself: over every loss, timeout and   *)
(* gateway error a call executes at most one order.                        *)
THEOREM OneOrderPerCall == SubmitSpec => []OnePlacementPerCall
<1>1. RestInv => OnePlacementPerCall
  <2> SUFFICES ASSUME RestInv, NEW c \in Calls PROVE placed[c] <= 1
    BY DEF OnePlacementPerCall
  <2>1. placed[c] \in {0, 1}
    BY DEF RestInv, CallInv
  <2>2. QED
    BY <2>1
<1>2. QED
    BY <1>1, RestInvAlways, PTL

(* What new_order returned or raised tells its caller which orders exist.  *)
THEOREM OutcomeIsTrue == SubmitSpec => []OutcomeTellsOrder
<1>1. RestInv => OutcomeTellsOrder
    BY DEF RestInv, CallInv, OutcomeTellsOrder
<1>2. QED
    BY <1>1, RestInvAlways, PTL

(* However connect() and aclose() interleave with each other and with      *)
(* running calls, and whichever of them are cancelled: every httpx client  *)
(* but the present one was closed, until an aclose() has returned while    *)
(* another was at its await.                                               *)
THEOREM ClientsAreClosed == SubmitSpec => []LeakNeedsOverlap
<1>1. ConnInv => LeakNeedsOverlap
    BY DEF ConnInv, LeakNeedsOverlap
<1>2. QED
    BY <1>1, RestInvAlways, PTL

-----------------------------------------------------------------------------
(* Where an order may be at the venue, by the status it was answered with. *)
Reached(o) ==
    /\ shown[o] = "none" <=> status[o] = "none"
    /\ shown[o] = "NEW" => status[o] \in {"NEW", "FILLED", "EXPIRED", "ENDED"}
    /\ shown[o] = "FILLED" => status[o] \in {"FILLED", "ENDED"}
    /\ shown[o] \in {"REJECTED", "EXPIRED", "ENDED"} => status[o] = shown[o]

(* NT's view of an order.  The last conjuncts say what each event rests    *)
(* on; they are stable because nothing moves a call that came back, and    *)
(* an order that was refused before its call makes none.                   *)
OrderInv(o) ==
    /\ status[o] # "none" <=> placed[o] = 1
    /\ Reached(o)
    /\ o \notin hidden /\ (answer[o] = "garbled" \/ outcome[o] = "api") =>
          placed[o] = 0
    /\ kind[o] = "order" /\ task[o] = "none" => pc[o] = "idle"
    /\ task[o] # "none" => kind[o] = "order"
    /\ task[o] = "none" => event[o] = "initialized"
    /\ task[o] = "returned" => event[o] \in {"accepted", "filled", "rejected"}
    /\ task[o] = "awaiting" => pc[o] # "idle" /\ event[o] = "submitted"
    /\ task[o] = "raised" =>
          pc[o] = "done" /\ outcome[o] \notin {"ok", "api", "rate"}
    /\ event[o] = "accepted" =>
          /\ pc[o] = "done" /\ outcome[o] = "ok"
          /\ shown[o] \notin {"REJECTED", "FILLED"}
    /\ event[o] = "filled" =>
          pc[o] = "done" /\ outcome[o] = "ok" /\ shown[o] = "FILLED"
    /\ event[o] = "rejected" =>
          \/ pc[o] = "idle" /\ task[o] = "returned"
          \/ pc[o] = "done"
                /\ (outcome[o] \in {"api", "rate"} \/ shown[o] = "REJECTED")

SubmitInv == SubmitTypeOK /\ \A o \in Calls : OrderInv(o)

LEMMA SubmitInvInit == SubmitInit => SubmitInv
<1> SUFFICES ASSUME SubmitInit PROVE SubmitInv
    OBVIOUS
<1>1. RestTypeOK
    BY RestInvInit DEF SubmitInit, RestInv
<1>2. SubmitTypeOK
    BY <1>1 DEF SubmitInit, SubmitTypeOK
<1>3. ASSUME NEW o \in Calls PROVE OrderInv(o)
  <2>1. /\ pc[o] = "idle" /\ answer[o] = "none" /\ outcome[o] = "none"
        /\ placed[o] = 0
    BY <1>3 DEF SubmitInit, RestInit
  <2>2. /\ event[o] = "initialized" /\ task[o] = "none" /\ status[o] = "none"
        /\ shown[o] = "none"
    BY <1>3 DEF SubmitInit
  <2>3. QED
    BY <2>1, <2>2 DEF OrderInv, Reached
<1>4. QED
    BY <1>2, <1>3 DEF SubmitInv

\* The same frame as OneCallMoves.
LEMMA OneOrderMoves ==
    ASSUME SubmitInv, SubmitTypeOK', NEW c \in Calls, OrderInv(c)',
           \A d \in Calls \ {c} :
              /\ pc'[d] = pc[d] /\ kind'[d] = kind[d] /\ answer'[d] = answer[d]
              /\ outcome'[d] = outcome[d] /\ placed'[d] = placed[d]
              /\ event'[d] = event[d] /\ task'[d] = task[d]
              /\ status'[d] = status[d] /\ shown'[d] = shown[d]
              /\ (d \in hidden => d \in hidden')
    PROVE  SubmitInv'
<1>1. ASSUME NEW d \in Calls \ {c} PROVE OrderInv(d)'
    BY <1>1 DEF SubmitInv, OrderInv, Reached
<1>2. QED
    BY <1>1 DEF SubmitInv

\* What Request and Progress may do to a call.
LEMMA RequestMoves ==
    ASSUME RestTypeOK, NEW c \in Calls, Request(c)
    PROVE  /\ pc[c] = "idle" /\ pc'[c] \in {"sending", "done"}
           /\ outcome'[c] \in {outcome[c], "config", "runtime"}
           /\ UNCHANGED <<kind, answer, placed>>
           /\ \A d \in Calls \ {c} : pc'[d] = pc[d] /\ outcome'[d] = outcome[d]
BY SendsType DEF Request, Outcomes

LEMMA ProgressMoves ==
    ASSUME RestTypeOK, NEW c \in Calls, Progress(c) \/ CallCancelled(c)
    PROVE  /\ pc[c] \in {"sending", "backoff"} /\ pc'[c] # "idle"
           /\ answer'[c] \in {"none", answer[c]}
           /\ kind[c] = "order" /\ outcome'[c] = "api" =>
                 outcome[c] = "api"
                 \/ answer[c] \in {"refused", "stale", "garbled"}
           /\ UNCHANGED <<kind, placed>>
           /\ \A d \in Calls \ {c} : /\ pc'[d] = pc[d] /\ outcome'[d] = outcome[d]
                                     /\ answer'[d] = answer[d]
<1>1. CASE Resend(c)
    BY <1>1, SendsType DEF Resend, Outcomes
<1>2. CASE Responds(c)
    BY <1>2 DEF Responds, Ends, Parsed, RestTypeOK, Answers
<1>3. CASE CallCancelled(c)
    BY <1>3 DEF CallCancelled, Ends, RestTypeOK
<1>4. ASSUME NEW waited \in {0, Timeout}, NEW caught \in BOOLEAN,
             TransportFails(c, waited, caught)
      PROVE  /\ pc[c] = "sending" /\ pc'[c] \in {"done", "backoff"}
             /\ answer' = [answer EXCEPT ![c] = "none"]
             /\ outcome'[c] \in {outcome[c], "transport"}
             /\ UNCHANGED <<kind, placed>>
             /\ \A d \in Calls \ {c} : pc'[d] = pc[d] /\ outcome'[d] = outcome[d]
  <2>1. CASE ~caught \/ attempt[c] >= Retries(kind[c])
    BY <1>4, <2>1 DEF TransportFails, Ends, RestTypeOK
  <2>2. CASE ~(~caught \/ attempt[c] >= Retries(kind[c]))
    BY <1>4, <2>2 DEF TransportFails, RestTypeOK
  <2>3. QED
    BY <2>1, <2>2
<1>5. ASSUME NEW waited \in {0, Timeout}, NEW caught \in BOOLEAN,
             TransportFails(c, waited, caught)
      PROVE  answer'[c] = "none" /\ \A d \in Calls \ {c} : answer'[d] = answer[d]
    BY <1>4, <1>5 DEF RestTypeOK
<1>6. QED
    BY <1>1, <1>2, <1>3, <1>4, <1>5 DEF Progress

LEMMA SubmitInvStep ==
    RestInv /\ RestInv' /\ SubmitInv /\ [SubmitNext]_submitVars => SubmitInv'
<1> SUFFICES ASSUME RestInv, RestInv', SubmitInv, [SubmitNext]_submitVars
             PROVE  SubmitInv'
    OBVIOUS
<1>0. /\ RestTypeOK /\ RestTypeOK' /\ SubmitTypeOK
      /\ \A o \in Calls : CallInv(o) /\ CallInv(o)' /\ OrderInv(o)
    BY DEF RestInv, SubmitInv
<1>1. ASSUME UNCHANGED <<event, task, status, shown, hidden>>,
             UNCHANGED <<pc, kind, answer, outcome, placed>>
      PROVE  SubmitInv'
    BY <1>0, <1>1 DEF SubmitInv, SubmitTypeOK, OrderInv, Reached
<1>2. CASE Owner /\ UNCHANGED orderVars
    BY <1>1, <1>2 DEF Owner, Connect, CloseBegins, CloseAgain, CloseEnds, CloseCancelled,
                      callVars, orderVars
<1>3. CASE UNCHANGED submitVars
    BY <1>1, <1>3 DEF submitVars, restVars, callVars, orderVars
<1>4. ASSUME NEW o \in Calls, SubmitRefused(o) PROVE SubmitInv'
  <2>1. /\ kind[o] = "order" /\ task[o] = "none"
        /\ event' = [event EXCEPT ![o] = "rejected"]
        /\ task' = [task EXCEPT ![o] = "returned"]
        /\ UNCHANGED <<pc, kind, answer, outcome, placed, status, shown, hidden>>
    BY <1>4 DEF SubmitRefused, IsOrder, Generates, restVars, callVars
  <2>2. SubmitTypeOK'
    BY <1>0, <2>1 DEF SubmitTypeOK
  <2>3. OrderInv(o)'
    BY <1>0, <2>1 DEF SubmitTypeOK, OrderInv, Reached
  <2>4. QED
    BY <1>0, <2>1, <2>2, <2>3, OneOrderMoves DEF SubmitTypeOK
<1>5. ASSUME NEW o \in Calls, SubmitOrder(o) PROVE SubmitInv'
  <2>1. /\ kind[o] = "order" /\ task[o] = "none" /\ Request(o)
        /\ event' = [event EXCEPT ![o] = "submitted"]
        /\ task' = [task EXCEPT ![o] = "awaiting"]
        /\ UNCHANGED <<status, shown, hidden>>
    BY <1>5 DEF SubmitOrder, IsOrder, Generates
  <2>2. SubmitTypeOK'
    BY <1>0, <2>1 DEF SubmitTypeOK
  <2>3. OrderInv(o)'
    BY <1>0, <2>1, RequestMoves DEF SubmitTypeOK, OrderInv, Reached
  <2>4. QED
    BY <1>0, <2>1, <2>2, <2>3, RequestMoves, OneOrderMoves DEF SubmitTypeOK
<1>6. ASSUME NEW o \in Calls, OtherRequest(o) PROVE SubmitInv'
  <2>1. /\ kind[o] # "order" /\ Request(o)
        /\ UNCHANGED <<event, task, status, shown, hidden>>
    BY <1>6 DEF OtherRequest, IsOrder, orderVars
  <2>2. SubmitTypeOK'
    BY <1>0, <2>1 DEF SubmitTypeOK
  <2>3. OrderInv(o)'
    BY <1>0, <2>1, RequestMoves DEF SubmitTypeOK, OrderInv, Reached
  <2>4. QED
    BY <1>0, <2>1, <2>2, <2>3, RequestMoves, OneOrderMoves
<1>7. ASSUME NEW o \in Calls, Progress(o) \/ CallCancelled(o), UNCHANGED orderVars
      PROVE  SubmitInv'
  <2>1. UNCHANGED <<event, task, status, shown, hidden>>
    BY <1>7 DEF orderVars
  <2>2. SubmitTypeOK'
    BY <1>0, <2>1 DEF SubmitTypeOK
  <2>3. CASE kind[o] = "order"
    <3>1. pc[o] = "sending"
        BY <1>0, <1>7, <2>3, ProgressMoves DEF CallInv
    <3>2. outcome[o] = "none"
        BY <1>0, <3>1 DEF CallInv
    <3>3. OrderInv(o)'
        BY <1>0, <1>7, <2>1, <2>3, <3>1, <3>2, ProgressMoves
           DEF OrderInv, Reached, CallInv, Executed
    <3>4. QED
        BY <1>0, <1>7, <2>1, <2>2, <3>3, ProgressMoves, OneOrderMoves
  <2>4. CASE kind[o] # "order"
    <3>1. placed[o] = 0 /\ task[o] = "none" /\ event[o] = "initialized"
        BY <1>0, <2>4 DEF CallInv, OrderInv, SubmitTypeOK
    <3>2. OrderInv(o)'
        BY <1>0, <1>7, <2>1, <2>4, <3>1, ProgressMoves DEF OrderInv, Reached
    <3>3. QED
        BY <1>0, <1>7, <2>1, <2>2, <3>2, ProgressMoves, OneOrderMoves
  <2>5. QED
    BY <2>3, <2>4
<1>8. ASSUME NEW o \in Calls, SubmitReturns(o) PROVE SubmitInv'
  <2>1. /\ task[o] = "awaiting" /\ pc[o] = "done"
        /\ task' = [task EXCEPT ![o] =
                      IF outcome[o] \in {"ok", "api", "rate"} THEN "returned"
                      ELSE "raised"]
        /\ event' = [event EXCEPT ![o] = Reported(o)]
        /\ UNCHANGED <<pc, kind, answer, outcome, placed, status, shown, hidden>>
    BY <1>8 DEF SubmitReturns, Generates, restVars, callVars
  <2>2. event[o] = "submitted"
    BY <1>0, <2>1 DEF OrderInv
  <2>3. Reported(o) \in {"rejected", "filled", "accepted", "submitted"}
    BY <2>2 DEF Reported
  <2>4. SubmitTypeOK'
    BY <1>0, <2>1, <2>3 DEF SubmitTypeOK
  <2>5. OrderInv(o)'
    BY <1>0, <2>1, <2>2 DEF SubmitTypeOK, OrderInv, Reached, Reported
  <2>6. QED
    BY <1>0, <2>1, <2>4, <2>5, OneOrderMoves DEF SubmitTypeOK
<1>9. ASSUME NEW o \in Calls, VenueHandles(o) PROVE SubmitInv'
  <2>1. PICK reply \in Answers, executes \in BOOLEAN :
            VenueAnswers(o, reply, executes)
    BY <1>9 DEF VenueHandles, Venue
  <2>2. /\ pc[o] = "sending" /\ answer[o] = "none"
        /\ executes => kind[o] = "order"
        /\ answer' = [answer EXCEPT ![o] = reply]
        /\ placed' = [placed EXCEPT ![o] = @ + (IF executes THEN 1 ELSE 0)]
        /\ UNCHANGED <<pc, kind, outcome, event, task>>
    BY <1>9, <2>1 DEF VenueHandles, VenueAnswers
  <2>3. /\ placed[o] = 0 /\ outcome[o] = "none"
        /\ kind[o] = "order" => task[o] # "none"
    BY <1>0, <2>2 DEF CallInv, Executed, OrderInv
  <2>4. placed'[o] = (IF executes THEN 1 ELSE 0) /\ answer'[o] = reply
    BY <1>0, <2>2, <2>3 DEF RestTypeOK
  <2>5. CASE executes
    <3>1. PICK s \in Statuses : /\ status' = [status EXCEPT ![o] = s]
                               /\ shown' = [shown EXCEPT ![o] = s]
        BY <1>9, <2>3, <2>4, <2>5 DEF VenueHandles
    <3>2. hidden' = IF reply = "garbled" THEN hidden \cup {o} ELSE hidden
        BY <1>9, <2>3, <2>4, <2>5 DEF VenueHandles
    <3>3. SubmitTypeOK'
        BY <1>0, <2>2, <3>1, <3>2 DEF SubmitTypeOK
    <3>4. status'[o] = s /\ shown'[o] = s /\ s # "none"
        BY <1>0, <3>1 DEF SubmitTypeOK, Statuses
    <3>5. event[o] \notin {"accepted", "filled", "rejected"}
        BY <1>0, <2>2 DEF OrderInv
    <3>6. OrderInv(o)'
        BY <1>0, <2>2, <2>3, <2>4, <2>5, <3>2, <3>4, <3>5
           DEF OrderInv, Reached, Statuses
    <3>7. QED
        BY <1>0, <2>2, <3>1, <3>2, <3>3, <3>6, OneOrderMoves
           DEF SubmitTypeOK, RestTypeOK
  <2>6. CASE ~executes
    <3>1. UNCHANGED <<status, shown, hidden>>
        BY <1>9, <2>3, <2>4, <2>6 DEF VenueHandles
    <3>2. SubmitTypeOK'
        BY <1>0, <2>2, <3>1 DEF SubmitTypeOK
    <3>3. OrderInv(o)'
        BY <1>0, <2>2, <2>3, <2>4, <2>6, <3>1 DEF OrderInv, Reached
    <3>4. QED
        BY <1>0, <2>2, <3>1, <3>2, <3>3, OneOrderMoves DEF RestTypeOK
  <2>7. QED
    BY <2>5, <2>6
<1>10. ASSUME NEW o \in Calls, VenueMoves(o) PROVE SubmitInv'
  <2>1. PICK s \in Becomes(status[o]) : status' = [status EXCEPT ![o] = s]
    BY <1>10 DEF VenueMoves
  <2>2. UNCHANGED <<pc, kind, answer, outcome, placed, event, task, shown, hidden>>
    BY <1>10 DEF VenueMoves, restVars, callVars
  <2>3. \/ status[o] = "NEW" /\ s \in {"FILLED", "EXPIRED"}
        \/ status[o] = "FILLED" /\ s = "ENDED"
    BY <2>1 DEF Becomes
  <2>4. SubmitTypeOK'
    BY <1>0, <2>1, <2>2, <2>3 DEF SubmitTypeOK, Statuses
  <2>5. status'[o] = s /\ shown[o] \in {"NEW", "FILLED"}
    BY <1>0, <2>1, <2>3 DEF SubmitTypeOK, OrderInv, Reached, Statuses
  <2>6. OrderInv(o)'
    BY <1>0, <2>2, <2>3, <2>5 DEF OrderInv, Reached
  <2>7. QED
    BY <1>0, <2>1, <2>2, <2>4, <2>6, OneOrderMoves DEF SubmitTypeOK
<1>11. QED
    BY <1>2, <1>3, <1>4, <1>5, <1>6, <1>7, <1>8, <1>9, <1>10 DEF SubmitNext

LEMMA SubmitInvAlways == SubmitSpec => [](RestInv /\ SubmitInv)
BY RestInvAlways, SubmitInvInit, SubmitInvStep, PTL DEF SubmitSpec

(* Every state of the client, its calls and the orders is well typed.      *)
THEOREM SubmitTypeCorrect == SubmitSpec => []SubmitTypeOK
<1>1. SubmitInv => SubmitTypeOK
    BY DEF SubmitInv
<1>2. QED
    BY <1>1, SubmitInvAlways, PTL

(* What NT was told of an order is so at the venue however the order moves *)
(* on there, but for a rejection that a gateway made of an execution.      *)
THEOREM BeliefIsTrue == SubmitSpec => []BeliefMatchesVenue
<1>1. RestInv /\ SubmitInv => BeliefMatchesVenue
  <2> SUFFICES ASSUME RestInv, SubmitInv, NEW o \in Calls
               PROVE  /\ event[o] \in {"accepted", "filled"} =>
                            placed[o] = 1 /\ status[o] # "REJECTED"
                      /\ event[o] = "filled" => Dealt(status[o])
                      /\ event[o] = "accepted" /\ Dealt(status[o]) =>
                            shown[o] \in {"NEW", "ENDED"}
                      /\ event[o] = "rejected" =>
                            status[o] \in {"none", "REJECTED"} \/ o \in hidden
    BY DEF BeliefMatchesVenue
  <2>1. /\ CallInv(o) /\ OrderInv(o) /\ Reached(o)
        /\ {status[o], shown[o]} \subseteq Statuses \cup {"none"}
    BY DEF RestInv, SubmitInv, SubmitTypeOK, OrderInv
  <2>2. event[o] # "initialized" => kind[o] = "order"
    BY <2>1 DEF OrderInv
  <2>3. CASE event[o] \in {"accepted", "filled"}
    BY <2>1, <2>2, <2>3 DEF OrderInv, CallInv, Reached, Statuses, Dealt
  <2>4. CASE event[o] = "rejected"
    BY <2>1, <2>2, <2>4 DEF OrderInv, CallInv, Reached
  <2>5. QED
    BY <2>3, <2>4
<1>2. QED
    BY <1>1, SubmitInvAlways, PTL

(* Only what is raised through _submit_order by a transport error, a body  *)
(* that is not an order, or a cancellation leaves NT without an answer     *)
(* about an order that is at the venue.                                    *)
THEOREM IgnoranceIsRaised == SubmitSpec => []UnknownOnlyWhenRaised
<1>1. RestInv /\ SubmitInv => UnknownOnlyWhenRaised
  <2> SUFFICES ASSUME RestInv, SubmitInv, NEW o \in Calls,
                      event[o] = "submitted", status[o] # "none"
               PROVE  \/ task[o] = "awaiting"
                      \/ /\ task[o] = "raised"
                         /\ outcome[o] \in {"transport", "assertion", "bare",
                                           "cancelled"}
    BY DEF UnknownOnlyWhenRaised
  <2>1. /\ CallInv(o) /\ OrderInv(o) /\ outcome[o] \in Outcomes \cup {"none"}
        /\ task[o] \in {"none", "awaiting", "returned", "raised"}
    BY DEF RestInv, RestTypeOK, SubmitInv, SubmitTypeOK
  <2>2. task[o] \in {"awaiting", "raised"} /\ kind[o] = "order" /\ placed[o] = 1
    BY <2>1 DEF OrderInv
  <2>3. QED
    BY <2>1, <2>2 DEF OrderInv, CallInv, Outcomes
<1>2. QED
    BY <1>1, SubmitInvAlways, PTL

=============================================================================
