----------------------------- MODULE ExecBridge -----------------------------
(***************************************************************************)
(* ExecBridge (src/hermes/execution/exec_bridge.py) in front of RiskGuard: *)
(* the order and position events NautilusTrader (NT) publishes on its bus  *)
(* become calls of on_trade_result.                                        *)
(*                                                                         *)
(* The module extends RiskGuard: a bridge step is a step of the guard that *)
(* also reads an event and updates the fill set, and the guard's own steps *)
(* (callback, save, crash, restart) run between them.  The events are the  *)
(* environment's: NT may publish a fill again, and after a restart it      *)
(* replays the fills of earlier processes marked as reconciliation.        *)
(***************************************************************************)
EXTENDS RiskGuard

CONSTANTS
    Trades,             \* trades of the venue, the key (order id, trade id)
    PnlOf,              \* PnlOf[tr]: what the fill extractor returns for tr
    ForeignFee,         \* trades whose commission is in another currency
    Extractors,         \* which extractor may be injected: "pnl" (per fill),
                        \* "position", "none"; both at once are refused
    ExtractorMayRaise,  \* the injected extractor may raise
    PositionMoves       \* bound: realized pnl steps of a position event

ASSUME BridgeAssumption ==
    /\ PnlOf \in [Trades -> Pnls]
    /\ ForeignFee \subseteq Trades
    /\ Extractors \subseteq {"pnl", "position", "none"}
    /\ ExtractorMayRaise \in BOOLEAN
    /\ PositionMoves \subseteq Int

VARIABLES
    extractor,  \* the extractor of this process's bridge
    seenFills,  \* _seen_fills
    position,   \* NT's realized pnl of the open position, None when flat
    \* History and environment.
    emitted,    \* trades NT published live in this process
    past,       \* trades of earlier processes, replayed as reconciliation
    fed,        \* fed[tr]: calls of on_trade_result made for tr
    raised,     \* fills the extractor of this process raised on
    realised    \* pnl realised on what this process was shown since reset_daily,
                \* on top of the sum it took over when it started

bridge     == <<extractor, seenFills, position, emitted, past, fed, raised,
                realised>>
bridgeVars == <<vars, bridge>>

BridgeInit ==
    /\ Init
    /\ extractor = "none"
    /\ seenFills = {} /\ position = None
    /\ emitted = {} /\ past = {}
    /\ fed = [tr \in Trades |-> 0]
    /\ raised = {} /\ realised = 0

-----------------------------------------------------------------------------
\* on_trade_result(pnl), called without now: the guard's two answers, an
\* accounted or an ignored trade.  The guard behind a bridge is therefore one
\* whose calls are not all stamped: Stamped is FALSE in every configuration of
\* this module and a hypothesis of the theorems that need it.
Feed(pnl) == TradeResult(pnl, None) \/ TradeIgnored

\* The handler returns without reaching the guard.
NoFeed == Ready /\ UNCHANGED vars

\* Mutant of ReconciliationFill: the two guards are swapped, so that a
\* replayed fill is remembered as handled.
ReconciliationFillRemembered(tr) ==
    /\ tr \in past
    /\ seenFills' = seenFills \cup {tr}
    /\ NoFeed
    /\ UNCHANGED <<extractor, position, emitted, past, fed, raised, realised>>

\* Step 1 of on_order_filled: a fill replayed by reconciliation is skipped.
ReconciliationFill(tr) ==
    /\ tr \in past
    /\ NoFeed
    /\ UNCHANGED bridge

\* Step 2: a fill that was handled before is skipped.
DuplicateFill(tr) ==
    /\ tr \notin past
    /\ tr \in seenFills
    /\ NoFeed
    /\ UNCHANGED bridge

\* Mutant of NewFill: the fill is not remembered.
NewFillForgotten(tr) ==
    /\ tr \notin past
    /\ tr \notin seenFills
    /\ emitted' = emitted \cup {tr}
    /\ UNCHANGED <<seenFills, extractor, position, past>>

\* A live fill seen for the first time is remembered before anything else.
NewFill(tr) ==
    /\ tr \notin past
    /\ tr \notin seenFills
    /\ seenFills' = seenFills \cup {tr}
    /\ emitted' = emitted \cup {tr}
    /\ UNCHANGED <<extractor, position, past>>

\* Step 3: a commission in another currency keeps the fill from the guard;
\* without a pnl_extractor null_extractor does the same.
SkippedFill(tr) ==
    /\ NewFill(tr)
    /\ tr \in ForeignFee \/ extractor # "pnl"
    /\ NoFeed
    /\ UNCHANGED <<fed, raised, realised>>

\* Steps 4 and 5: extract the pnl and feed the guard.
FedFill(tr) ==
    /\ NewFill(tr)
    /\ tr \notin ForeignFee /\ extractor = "pnl"
    /\ Feed(PnlOf[tr])
    /\ fed' = [fed EXCEPT ![tr] = @ + 1]
    /\ realised' = realised + PnlOf[tr]
    /\ UNCHANGED raised

\* Step 4 raises: the fill stays remembered and never reaches the guard.
ExtractorRaises(tr) ==
    /\ ExtractorMayRaise
    /\ NewFill(tr)
    /\ tr \notin ForeignFee /\ extractor = "pnl"
    /\ NoFeed
    /\ raised' = raised \cup {tr}
    /\ realised' = realised + PnlOf[tr]
    /\ UNCHANGED fed

OnOrderFilled(tr) ==
    \/ ReconciliationFill(tr)
    \/ DuplicateFill(tr)
    \/ SkippedFill(tr)
    \/ FedFill(tr)
    \/ ExtractorRaises(tr)

\* PositionOpened, PositionChanged and PositionClosed: NT moves the realized
\* pnl of the position and the extractor hands on what it has come to.
OnPositionEvent(move, closes) ==
    LET base == IF position = None THEN 0 ELSE position
        cumulative == base + move
    IN  /\ extractor = "position"
        /\ cumulative \in Pnls
        /\ realised + move \in -PnlBound .. PnlBound
        /\ Feed(cumulative)
        /\ position' = IF closes THEN None ELSE cumulative
        /\ realised' = realised + move
        /\ UNCHANGED <<extractor, seenFills, emitted, past, fed, raised>>

-----------------------------------------------------------------------------
\* A new process builds a bridge with at most one extractor.  Its fill set is
\* empty, and what the venue did before is replayed as reconciliation.
BridgeStart(t) ==
    /\ Start(t)
    /\ \E missed \in SUBSET Trades : past' = past \cup emitted \cup missed
    /\ extractor' \in Extractors
    /\ seenFills' = {} /\ position' = None
    /\ emitted' = {}
    /\ raised' = {} /\ realised' = dailyPnl'
    /\ UNCHANGED fed

\* reset_daily of the guard, called beside the bridge.
BridgeReset(t) ==
    /\ ResetDaily(t)
    /\ realised' = 0
    /\ UNCHANGED <<extractor, seenFills, position, emitted, past, fed, raised>>

\* The guard's remaining steps leave the bridge alone.
GuardStep ==
    /\ \/ Halt
       \/ \E notional \in Notionals, balance \in Balances, t \in NowArgs :
            CheckOrder(notional, balance, t)
       \/ OnHaltReturns \/ OnHaltRaises
       \/ SaveWrites \/ SaveReplaces \/ SaveFails
       \/ Crash \/ Tick
    /\ UNCHANGED bridge

BridgeNext ==
    \/ \E t \in NowArgs : BridgeStart(t)
    \/ \E tr \in Trades : OnOrderFilled(tr)
    \/ \E move \in PositionMoves, closes \in BOOLEAN : OnPositionEvent(move, closes)
    \/ \E t \in NowArgs : BridgeReset(t)
    \/ GuardStep

BridgeSpec == BridgeInit /\ [][BridgeNext]_bridgeVars

-----------------------------------------------------------------------------
(* Types.                                                                  *)
BridgeTypeOK ==
    /\ TypeOK
    /\ seenFills \subseteq Trades
    /\ position \in Int \cup {None}
    /\ emitted \subseteq Trades /\ past \subseteq Trades /\ raised \subseteq Trades
    /\ fed \in [Trades -> Nat]
    /\ realised \in Int

(* LC-EXEC-4 and the idempotency guard: no trade reaches the guard twice,  *)
(* however often NT publishes it and through however many restarts.        *)
FedAtMostOnce == \A tr \in Trades : fed[tr] <= 1

(* No fill is remembered as handled without having reached the guard,      *)
(* except those whose commission the bridge cannot convert and those on    *)
(* which the extractor raised (the fill is marked before step 4).          *)
RememberedIsFed ==
    extractor = "pnl" =>
        \A tr \in seenFills \ (ForeignFee \cup raised) : fed[tr] = 1

(* guard.py:179: on_trade_result is fed "a completed trade's PnL" and      *)
(* accumulates it.  Between calls an ACTIVE guard's daily sum is what this *)
(* process has realised since it started or reset the sum.                 *)
GuardSumIsRealised ==
    Ready /\ state = "ACTIVE" => dailyPnl = realised

=============================================================================
