----------------------------- MODULE KillSwitch -----------------------------
(***************************************************************************)
(* What RiskGuard together with its RiskStateStore promises its operator   *)
(* (src/hermes/risk/guard.py, class docstring): the switch is a one-way,   *)
(* durable latch.  Once it has tripped no order is ever let through again, *)
(* in this process or in any later one.                                    *)
(***************************************************************************)

VARIABLES
    tripped,    \* the stored state is HALTED
    verdict     \* outcome of the latest check_order; "none" for another call

vars == <<tripped, verdict>>

Denials == {"halted", "notional", "balance", "throttle"}

TypeOK ==
    /\ tripped \in BOOLEAN
    /\ verdict \in Denials \cup {"none", "pass"}

Init == tripped = FALSE /\ verdict = "none"

\* The latch closes; the verdict of an earlier check does not outlive it.
Trip ==
    /\ tripped' = TRUE
    /\ verdict' = "none"

\* check_order returns: only an untripped switch lets an order through.
Pass ==
    /\ ~tripped
    /\ verdict' = "pass"
    /\ UNCHANGED tripped

Deny ==
    /\ verdict' \in Denials
    /\ UNCHANGED tripped

\* Any other call on the guard, or a crash or restart of its process.
Other ==
    /\ verdict' = "none"
    /\ UNCHANGED tripped

Next == Trip \/ Pass \/ Deny \/ Other

Spec == Init /\ [][Next]_vars

=============================================================================
