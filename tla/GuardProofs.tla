----------------------------- MODULE GuardProofs -----------------------------
(***************************************************************************)
(* Proofs about RiskGuard, then about ExecBridge in front of it, for every *)
(* value of their constants.  The bridge uses the guard as RiskGuard       *)
(* specifies it, so that what is proved of the guard holds behind it.      *)
(***************************************************************************)
EXTENDS ExecBridge, FiniteSetTheorems, TLAPS

-----------------------------------------------------------------------------
\* The now argument of every call is the clock or absent.
LEMMA NowArgsType ==
    ASSUME TypeOK, NEW t \in NowArgs
    PROVE  t \in Nat \cup {None}
BY DEF TypeOK, NowArgs

LEMMA DayType == \A t \in Nat : Day(t) \in Int
BY InputAssumption DEF Day

\* _snapshot returns a snapshot of the documented shape.
LEMMA SnapshotType ==
    ASSUME TypeOK, callNow \in Nat \cup {None}
    PROVE  Snapshot(callNow) \in Snapshots
BY DayType DEF TypeOK, Snapshot, Snapshots

(* Type correctness: every attribute of the guard and the file keep their  *)
(* types through every call, exception, crash and restart.                 *)
\* callNow is narrowed to what the calls pass: a clock value, never negative;
\* and the orders that passed are finitely many, so that they can be counted.
TypeInv ==
    /\ TypeOK
    /\ callNow \in Nat \cup {None}
    /\ IsFiniteSet(passed)

LEMMA TypeInit == Init => TypeInv
<1> SUFFICES ASSUME Init PROVE TypeInv
    OBVIOUS
<1>1. IsFiniteSet(passed)
    BY FS_EmptySet DEF Init
<1>2. /\ pc \in {"idle", "on_halt", "save", "replace"}
      /\ verdict \in Denials \cup {"none", "pass"}
    BY DEF Init
<1>3. /\ callNow \in Nat \cup {None}
      /\ tmp \in Snapshots \cup {None}
      /\ disk \in Snapshots \cup {None}
    BY DEF Init
<1>4. live \in BOOLEAN /\ fate \in {"no", "cut", "raised", "returned"}
    BY DEF Init
<1>5. /\ state \in GuardState
      /\ consecutiveLosses \in Nat /\ dailyPnl \in Int
    BY DEF Init, GuardState
<1>6. /\ clock \in Nat /\ accDay \in Int /\ streak \in Nat
      /\ dayPnl \in Int
    BY DEF Init
<1>7. orderTimes \subseteq Orders /\ passed \subseteq Orders
    BY DEF Init
<1>8. QED
    BY <1>1, <1>2, <1>3, <1>4, <1>5, <1>6, <1>7 DEF TypeInv, TypeOK

LEMMA TypeStep == TypeInv /\ [Next]_vars => TypeInv'
<1> SUFFICES ASSUME TypeInv, [Next]_vars PROVE TypeInv'
    OBVIOUS
<1> USE DEF TypeInv, TypeOK, GuardState, Denials, memory, call, files, history
<1>1. ASSUME NEW t \in NowArgs, Start(t) PROVE TypeInv'
    BY <1>1, NowArgsType, DayType, FS_EmptySet DEF Start, Stored, RestoredPnl, Snapshots
<1>2. CASE Halt
    BY <1>2 DEF Halt, Save
<1>3. ASSUME NEW notional \in Notionals, NEW balance \in Balances,
             NEW t \in NowArgs, CheckOrder(notional, balance, t)
      PROVE TypeInv'
  <2>1. verdict' \in Denials \cup {"none", "pass"}
    BY <1>3 DEF CheckOrder, Refusal, Full
  <2>2. Cardinality(passed) \in Nat
    BY FS_CardinalityType
  <2>3. CASE Throttles(t) /\ verdict' = "pass"
    <3> DEFINE order == [at |-> t, n |-> Cardinality(passed)]
    <3>1. order \in Orders
        BY <2>2, <2>3, NowArgsType DEF Throttles, Orders
    <3>2. /\ orderTimes' = InWindow(orderTimes, t) \cup {order}
          /\ passed' = passed \cup {order}
        BY <1>3, <2>3 DEF CheckOrder
    <3>3. IsFiniteSet(passed')
        BY <3>2, FS_AddElement
    <3>4. orderTimes' \subseteq Orders /\ passed' \subseteq Orders
        BY <3>1, <3>2 DEF InWindow
    <3>5. QED
        BY <1>3, <2>1, <3>3, <3>4 DEF CheckOrder
  <2>4. CASE ~(Throttles(t) /\ verdict' = "pass")
    <3>1. orderTimes' \subseteq Orders /\ passed' = passed
        BY <1>3, <2>4 DEF CheckOrder, InWindow
    <3>2. QED
        BY <1>3, <2>1, <3>1 DEF CheckOrder
  <2>5. QED
    BY <2>3, <2>4
<1>4. ASSUME NEW pnl \in Pnls, NEW t \in NowArgs, TradeResult(pnl, t)
      PROVE TypeInv'
    BY <1>4, NowArgsType, InputAssumption DEF TradeResult, Save
<1>5. CASE TradeIgnored
    BY <1>5 DEF TradeIgnored
<1>6. ASSUME NEW t \in NowArgs, ResetDaily(t) PROVE TypeInv'
    BY <1>6, NowArgsType, DayType DEF ResetDaily, Save
<1>7. CASE OnHaltReturns
    BY <1>7 DEF OnHaltReturns, CallReturns
<1>8. CASE OnHaltRaises
    BY <1>8 DEF OnHaltRaises, CallRaises, FateOf
<1>9. CASE SaveWrites
    BY <1>9, SnapshotType DEF SaveWrites
<1>10. CASE SaveReplaces
    BY <1>10 DEF SaveReplaces, CallReturns
<1>11. CASE SaveFails
    BY <1>11 DEF SaveFails, CallRaises, FateOf
<1>12. CASE Crash
  <2>1. /\ pc' \in {"idle", "on_halt", "save", "replace"}
        /\ verdict' \in Denials \cup {"none", "pass"}
    BY <1>12 DEF Crash
  <2>2. /\ callNow' \in Nat \cup {None}
        /\ tmp' \in Snapshots \cup {None}
        /\ disk' \in Snapshots \cup {None}
    BY <1>12 DEF Crash
  <2>3. live' \in BOOLEAN /\ fate' \in {"no", "cut", "raised", "returned"}
    BY <1>12 DEF Crash, FateOf
  <2>4. /\ state' \in GuardState
        /\ consecutiveLosses' \in Nat /\ dailyPnl' \in Int
    BY <1>12 DEF Crash
  <2>5. /\ clock' \in Nat /\ accDay' \in Int /\ streak' \in Nat
        /\ dayPnl' \in Int
        /\ passed' \subseteq Orders /\ IsFiniteSet(passed')
    BY <1>12 DEF Crash
  <2>6. orderTimes' \subseteq Orders
    BY <1>12 DEF Crash
  <2>7. QED
    BY <2>1, <2>2, <2>3, <2>4, <2>5, <2>6
<1>13. CASE Tick
    BY <1>13 DEF Tick
<1>14. CASE UNCHANGED vars
    BY <1>14 DEF vars
<1>15. QED
    BY <1>1, <1>2, <1>3, <1>4, <1>5, <1>6, <1>7, <1>8, <1>9, <1>10, <1>11,
       <1>12, <1>13, <1>14 DEF Next

(* Every state of every execution is well typed.                           *)
THEOREM TypeCorrect == Spec => []TypeOK
<1>1. TypeInv => TypeOK
    BY DEF TypeInv
<1>2. QED
    BY <1>1, TypeInit, TypeStep, PTL DEF Spec

-----------------------------------------------------------------------------
(* The latch.  A guard running on a tripped store is HALTED, and a         *)
(* snapshot on its way to the store carries the state of the guard that    *)
(* took it, which is why no later save can reopen the switch.              *)
LatchInv ==
    /\ live /\ Tripped => state = "HALTED"
    /\ pc # "idle" => live
    /\ pc = "replace" => tmp # None
    /\ tmp # None => pc = "replace" /\ tmp.state = state
    /\ pc \in {"save", "replace"} \/ disk # None => HasStore

LEMMA LatchInit == Init => LatchInv
BY DEF Init, LatchInv, Tripped

LEMMA LatchStep == TypeInv /\ LatchInv /\ [Next]_vars => LatchInv'
<1> SUFFICES ASSUME TypeInv, LatchInv, [Next]_vars PROVE LatchInv'
    OBVIOUS
<1> USE DEF LatchInv, Tripped, memory, call, files, history
<1>1. ASSUME NEW t \in NowArgs, Start(t) PROVE LatchInv'
    BY <1>1 DEF Start, Stored
<1>2. CASE Halt
    BY <1>2 DEF Halt, Save, Ready
<1>3. ASSUME NEW notional \in Notionals, NEW balance \in Balances,
             NEW t \in NowArgs, CheckOrder(notional, balance, t)
      PROVE LatchInv'
    BY <1>3 DEF CheckOrder
<1>4. ASSUME NEW pnl \in Pnls, NEW t \in NowArgs, TradeResult(pnl, t)
      PROVE LatchInv'
    BY <1>4 DEF TradeResult, Save, Ready
<1>5. CASE TradeIgnored
    BY <1>5 DEF TradeIgnored
<1>6. ASSUME NEW t \in NowArgs, ResetDaily(t) PROVE LatchInv'
    BY <1>6 DEF ResetDaily, Save, Ready
<1>7. CASE OnHaltReturns
    BY <1>7 DEF OnHaltReturns, CallReturns
<1>8. CASE OnHaltRaises
    BY <1>8 DEF OnHaltRaises, CallRaises, FateOf
<1>9. CASE SaveWrites
  <2>1. tmp' # None
    BY <1>9, SnapshotType, NoneAssumption DEF SaveWrites, TypeInv
  <2>2. tmp'.state = state
    BY <1>9 DEF SaveWrites, Snapshot
  <2>3. QED
    BY <1>9, <2>1, <2>2 DEF SaveWrites
<1>10. CASE SaveReplaces
  <2>1. /\ live' = live /\ state' = state
        /\ disk' = tmp /\ tmp' = None /\ pc' = "idle"
    BY <1>10 DEF SaveReplaces, CallReturns
  <2>2. tmp # None /\ live /\ HasStore
    BY <1>10 DEF SaveReplaces
  <2>3. QED
    BY <2>1, <2>2
<1>11. CASE SaveFails
    BY <1>11 DEF SaveFails, CallRaises, FateOf
<1>12. CASE Crash
    BY <1>12 DEF Crash
<1>13. CASE Tick
    BY <1>13 DEF Tick
<1>14. CASE UNCHANGED vars
    BY <1>14 DEF vars
<1>15. QED
    BY <1>1, <1>2, <1>3, <1>4, <1>5, <1>6, <1>7, <1>8, <1>9, <1>10, <1>11,
       <1>12, <1>13, <1>14 DEF Next

(* The stored kill switch is the one-way latch of KillSwitch: no sequence  *)
(* of calls, exceptions, crashes and restarts reopens it or lets an order  *)
(* pass under it, whatever the faults allowed.                             *)
THEOREM RefinesKillSwitch == Spec => ImplementsKillSwitch
<1>1. Init => Latch!Init
    BY DEF Init, Latch!Init, Tripped
<1>2. TypeInv /\ LatchInv /\ [Next]_vars => [Latch!Next]_Latch!vars
  <2> SUFFICES ASSUME TypeInv, LatchInv, [Next]_vars
               PROVE  [Latch!Next]_Latch!vars
    OBVIOUS
  <2> USE DEF memory, call, files, history,
              Latch!Next, Latch!Trip, Latch!Pass, Latch!Deny, Latch!Other,
              Latch!vars, Latch!Denials
  <2>1. ASSUME verdict' = "none", UNCHANGED Tripped
        PROVE  [Latch!Next]_Latch!vars
    BY <2>1
  <2>2. ASSUME verdict' = verdict, UNCHANGED Tripped
        PROVE  [Latch!Next]_Latch!vars
    BY <2>2
  <2>3. disk' = disk => UNCHANGED Tripped
    BY DEF Tripped
  <2>4. ASSUME NEW t \in NowArgs, Start(t) PROVE [Latch!Next]_Latch!vars
    BY <2>4, <2>1, <2>3 DEF Start, Stored
  <2>5. CASE Halt
    BY <2>5, <2>1, <2>3 DEF Halt
  <2>6. ASSUME NEW notional \in Notionals, NEW balance \in Balances,
               NEW t \in NowArgs, CheckOrder(notional, balance, t)
        PROVE  [Latch!Next]_Latch!vars
    <3>1. UNCHANGED Tripped
        BY <2>6, <2>3 DEF CheckOrder
    <3>2. verdict' = Refusal(notional, balance, t)
        BY <2>6 DEF CheckOrder
    <3>3. CASE verdict' = "pass"
        <4>1. state # "HALTED" /\ live
            BY <2>6, <3>2, <3>3 DEF Refusal, Full, CheckOrder
        <4>2. ~Tripped
            BY <4>1 DEF LatchInv
        <4>3. QED
            BY <3>1, <3>3, <4>2
    <3>4. CASE verdict' # "pass"
        BY <3>1, <3>2, <3>4 DEF Refusal, Full
    <3>5. QED
        BY <3>3, <3>4
  <2>7. ASSUME NEW pnl \in Pnls, NEW t \in NowArgs, TradeResult(pnl, t)
        PROVE  [Latch!Next]_Latch!vars
    BY <2>7, <2>1, <2>3 DEF TradeResult
  <2>8. CASE TradeIgnored
    BY <2>8, <2>1, <2>3 DEF TradeIgnored
  <2>9. ASSUME NEW t \in NowArgs, ResetDaily(t)
        PROVE  [Latch!Next]_Latch!vars
    BY <2>9, <2>1, <2>3 DEF ResetDaily
  <2>10. CASE OnHaltReturns
    BY <2>10, <2>2, <2>3 DEF OnHaltReturns
  <2>11. CASE OnHaltRaises
    BY <2>11, <2>2, <2>3 DEF OnHaltRaises
  <2>12. CASE SaveWrites
    BY <2>12, <2>2, <2>3 DEF SaveWrites
  <2>13. CASE SaveReplaces
    <3>1. /\ verdict' = "none" /\ disk' = tmp
          /\ pc = "replace" /\ live /\ tmp # None /\ tmp.state = state
        BY <2>13 DEF SaveReplaces, LatchInv
    <3>2. Tripped => state = "HALTED"
        BY <3>1 DEF LatchInv
    <3>3. Tripped' <=> state = "HALTED"
        BY <3>1 DEF Tripped
    <3>4. Tripped \in BOOLEAN /\ Tripped' \in BOOLEAN
        BY DEF Tripped
    <3>5. CASE Tripped'
        BY <3>1, <3>4, <3>5
    <3>6. CASE ~Tripped'
        BY <3>1, <3>2, <3>3, <3>4, <3>6
    <3>7. QED
        BY <3>5, <3>6
  <2>14. CASE SaveFails
    BY <2>14, <2>2, <2>3 DEF SaveFails
  <2>15. CASE Crash
    BY <2>15, <2>1, <2>3 DEF Crash
  <2>16. CASE Tick
    BY <2>16, <2>2, <2>3 DEF Tick
  <2>17. CASE UNCHANGED vars
    BY <2>17, <2>2, <2>3 DEF vars
  <2>18. QED
    BY <2>4, <2>5, <2>6, <2>7, <2>8, <2>9, <2>10, <2>11, <2>12, <2>13,
       <2>14, <2>15, <2>16, <2>17 DEF Next
<1>3. QED
    BY <1>1, <1>2, TypeInit, TypeStep, LatchInit, LatchStep, PTL
       DEF Spec, ImplementsKillSwitch, Latch!Spec

-----------------------------------------------------------------------------
(* Durability of an acknowledged halt.  With a store, a call that leaves   *)
(* the guard HALTED returns only after the rename, whatever other calls    *)
(* raise and wherever crashes fall.                                        *)
AckInv == fate = "returned" => Tripped

LEMMA AckStep ==
    ASSUME HasStore
    PROVE  TypeInv /\ LatchInv /\ AckInv /\ [Next]_vars => AckInv'
<1> SUFFICES ASSUME TypeInv, LatchInv, AckInv, [Next]_vars PROVE AckInv'
    OBVIOUS
<1> USE DEF AckInv, memory, call, files, history
<1>1. disk' = disk => Tripped' = Tripped
    BY DEF Tripped
<1>2. ASSUME fate' = "returned" => fate = "returned", disk' = disk
      PROVE  AckInv'
    BY <1>1, <1>2
<1>3. CASE SaveReplaces
  <2>1. /\ disk' = tmp /\ tmp # None /\ tmp.state = state /\ live
        /\ fate' = "returned" => state = "HALTED" \/ fate = "returned"
    BY <1>3 DEF SaveReplaces, CallReturns, LatchInv
  <2>2. fate' = "returned" => state = "HALTED"
    BY <2>1 DEF LatchInv
  <2>3. QED
    BY <2>1, <2>2 DEF Tripped
<1>4. ASSUME NEW t \in NowArgs, Start(t) PROVE AckInv'
    BY <1>4, <1>2 DEF Start, Stored
<1>5. CASE Halt
    BY <1>5, <1>2 DEF Halt
<1>6. ASSUME NEW notional \in Notionals, NEW balance \in Balances,
             NEW t \in NowArgs, CheckOrder(notional, balance, t)
      PROVE  AckInv'
    BY <1>6, <1>2 DEF CheckOrder
<1>7. ASSUME NEW pnl \in Pnls, NEW t \in NowArgs, TradeResult(pnl, t)
      PROVE  AckInv'
    BY <1>7, <1>2 DEF TradeResult
<1>8. CASE TradeIgnored
    BY <1>8, <1>2 DEF TradeIgnored
<1>9. ASSUME NEW t \in NowArgs, ResetDaily(t) PROVE AckInv'
    BY <1>9, <1>2 DEF ResetDaily
<1>10. CASE OnHaltReturns
    BY <1>10, <1>2 DEF OnHaltReturns
<1>11. CASE OnHaltRaises
    BY <1>11, <1>2 DEF OnHaltRaises, CallRaises, FateOf
<1>12. CASE SaveWrites
    BY <1>12, <1>2 DEF SaveWrites
<1>13. CASE SaveFails
    BY <1>13, <1>2 DEF SaveFails, CallRaises, FateOf
<1>14. CASE Crash
    BY <1>14, <1>2 DEF Crash, FateOf
<1>15. CASE Tick
    BY <1>15, <1>2 DEF Tick
<1>16. CASE UNCHANGED vars
    BY <1>16, <1>2 DEF vars
<1>17. QED
    BY <1>3, <1>4, <1>5, <1>6, <1>7, <1>8, <1>9, <1>10, <1>11, <1>12, <1>13,
       <1>14, <1>15, <1>16 DEF Next

(* D5 of guard.py: a halt that its caller has seen come back survives every *)
(* later crash and restart, a crash in the middle of a save included, and   *)
(* every exception of the callback and the store.                           *)
THEOREM HaltIsDurable ==
    ASSUME HasStore
    PROVE  Spec => []HaltSurvivesRestart
<1>1. Init => AckInv
    BY DEF Init, AckInv
<1>2. LatchInv /\ AckInv => HaltSurvivesRestart
    BY DEF LatchInv, AckInv, HaltSurvivesRestart
<1>3. TypeInv /\ LatchInv /\ AckInv /\ [Next]_vars => AckInv'
    BY AckStep
<1>4. QED
    BY <1>1, <1>2, <1>3, TypeInit, TypeStep, LatchInit, LatchStep, PTL DEF Spec

-----------------------------------------------------------------------------
(* The throttle.  Orders leave _order_times only when they have left the   *)
(* window, so the list is never short of an order that still counts.       *)
ThrottleInv ==
    /\ \A o \in passed :
            o.at \in Nat /\ o.at <= clock /\ o.n < Cardinality(passed)
    /\ live => /\ orderTimes \subseteq passed
               /\ \A o \in passed \ orderTimes : o.at <= clock - WindowSeconds
               /\ Cardinality(orderTimes) <= MaxOrders
    /\ ThrottleBound

\* The orders the window ending at t holds.
Held(orders, t) == {o \in orders : t - WindowSeconds < o.at /\ o.at <= t}

LEMMA HeldBound ==
    ASSUME MaxOrders \in Nat, WindowSeconds \in Nat, NoneAssumption
    PROVE  ThrottleBound <=>
             \A t \in 0 .. MaxClock : Cardinality(Held(passed, t)) <= MaxOrders
<1>1. MaxOrders # None /\ WindowSeconds # None
    BY DEF NoneAssumption
<1>2. QED
    BY <1>1 DEF ThrottleBound, Held

\* A step that keeps the orders and lets time pass keeps the invariant.
LEMMA ThrottleFrame ==
    ASSUME TypeInv, WindowSeconds \in Nat, MaxOrders \in Nat, ThrottleInv,
           passed' = passed, orderTimes' = orderTimes, live' = live,
           clock' \in Nat, clock <= clock'
    PROVE  ThrottleInv'
<1>1. ThrottleBound'
    BY DEF ThrottleBound, ThrottleInv
<1>2. \A o \in passed : o.at \in Nat /\ o.at <= clock'
    BY DEF ThrottleInv, TypeInv, TypeOK
<1>3. live => \A o \in passed \ orderTimes : o.at <= clock' - WindowSeconds
  <2> SUFFICES ASSUME live, NEW o \in passed \ orderTimes
               PROVE  o.at <= clock' - WindowSeconds
    OBVIOUS
  <2>1. o.at \in Nat /\ o.at <= clock - WindowSeconds
    BY DEF ThrottleInv
  <2>2. QED
    BY <2>1 DEF TypeInv, TypeOK
<1>4. QED
    BY <1>1, <1>2, <1>3 DEF ThrottleInv

\* An order that passes fills a slot the window had left.
LEMMA ThrottlePass ==
    ASSUME TypeInv, ThrottleInv, live, NoneAssumption,
           WindowSeconds \in Nat, MaxOrders \in Nat,
           Cardinality(InWindow(orderTimes, clock)) < MaxOrders,
           NEW order, order = [at |-> clock, n |-> Cardinality(passed)],
           orderTimes' = InWindow(orderTimes, clock) \cup {order},
           passed' = passed \cup {order}, clock' = clock
    PROVE  ThrottleInv'
<1> DEFINE W == InWindow(orderTimes, clock)
<1>1. /\ IsFiniteSet(passed) /\ Cardinality(passed) \in Nat /\ clock \in Nat
      /\ orderTimes \subseteq passed
    BY FS_CardinalityType DEF TypeInv, TypeOK, ThrottleInv
<1>2. W \subseteq passed /\ IsFiniteSet(W) /\ Cardinality(W) \in Nat
    BY <1>1, FS_Subset, FS_CardinalityType DEF InWindow
<1>3. order.at = clock /\ order.n = Cardinality(passed)
    OBVIOUS
<1>4. order \notin passed
    BY <1>1, <1>3 DEF ThrottleInv
<1>5. Cardinality(passed') = Cardinality(passed) + 1
    BY <1>1, <1>4, FS_AddElement
<1>6. /\ Cardinality(W \cup {order}) = Cardinality(W) + 1
      /\ IsFiniteSet(W \cup {order})
    BY <1>2, <1>4, FS_AddElement
<1>7. Cardinality(orderTimes') <= MaxOrders
    BY <1>2, <1>6
<1>8. \A o \in passed' :
          o.at \in Nat /\ o.at <= clock' /\ o.n < Cardinality(passed')
  <2> SUFFICES ASSUME NEW o \in passed'
               PROVE  o.at \in Nat /\ o.at <= clock' /\ o.n < Cardinality(passed')
    OBVIOUS
  <2>1. CASE o = order
    BY <2>1, <1>1, <1>3, <1>5
  <2>2. CASE o \in passed
    <3>1. o.n \in Nat
        BY <2>2 DEF TypeInv, TypeOK, Orders
    <3>2. QED
        BY <2>2, <3>1, <1>1, <1>5 DEF ThrottleInv
  <2>3. QED
    BY <2>1, <2>2
<1>9. orderTimes' \subseteq passed'
    BY <1>2
<1>10. \A o \in passed \ W : o.at <= clock - WindowSeconds
  <2> SUFFICES ASSUME NEW o \in passed, o \notin W
               PROVE  o.at <= clock - WindowSeconds
    OBVIOUS
  <2>1. o.at \in Nat
    BY DEF ThrottleInv
  <2>2. CASE o \in orderTimes
    BY <1>1, <2>1, <2>2 DEF InWindow
  <2>3. CASE o \notin orderTimes
    BY <2>3 DEF ThrottleInv
  <2>4. QED
    BY <2>2, <2>3
<1>11. \A t \in 0 .. MaxClock : Cardinality(Held(passed', t)) <= MaxOrders
  <2> SUFFICES ASSUME NEW t \in 0 .. MaxClock
               PROVE  Cardinality(Held(passed', t)) <= MaxOrders
    OBVIOUS
  <2>1. t \in Int
    BY InputAssumption
  <2>2. CASE t >= clock
    <3>1. Held(passed', t) \subseteq W \cup {order}
      <4> SUFFICES ASSUME NEW o \in Held(passed', t), o # order
                   PROVE  o \in W
        OBVIOUS
      <4>1. o \in passed /\ t - WindowSeconds < o.at /\ o.at \in Nat
        BY DEF Held, ThrottleInv
      <4>2. o.at > clock - WindowSeconds
        BY <1>1, <2>1, <2>2, <4>1
      <4>3. QED
        BY <1>1, <1>10, <4>1, <4>2
    <3>2. QED
      <4>1. /\ Cardinality(Held(passed', t)) \in Nat
            /\ Cardinality(Held(passed', t)) <= Cardinality(W \cup {order})
        BY <3>1, <1>6, FS_Subset, FS_CardinalityType
      <4>2. Cardinality(W \cup {order}) <= MaxOrders
        BY <1>7
      <4>3. QED
        BY <4>1, <4>2, <1>2, <1>6
  <2>3. CASE t < clock
    <3>1. Held(passed', t) = Held(passed, t)
      <4>1. ~(order.at <= t)
        BY <1>1, <1>3, <2>1, <2>3
      <4>2. QED
        BY <4>1 DEF Held
    <3>2. QED
        BY <3>1, HeldBound DEF ThrottleInv
  <2>4. QED
    BY <2>1, <1>1, <2>2, <2>3
<1>12. ThrottleBound'
    BY <1>11, NoneAssumption DEF ThrottleBound, Held
<1>13. QED
    BY <1>7, <1>8, <1>9, <1>10, <1>12 DEF ThrottleInv

LEMMA ThrottleInit ==
    ASSUME WindowSeconds \in Nat, MaxOrders \in Nat
    PROVE  Init => ThrottleInv
<1> SUFFICES ASSUME Init PROVE ThrottleInv
    OBVIOUS
<1>1. passed = {} /\ live = FALSE
    BY DEF Init
<1>2. \A t : {o \in passed : t - WindowSeconds < o.at /\ o.at <= t} = {}
    BY <1>1
<1>3. ThrottleBound
    BY <1>2, FS_EmptySet DEF ThrottleBound
<1>4. QED
    BY <1>1, <1>3 DEF ThrottleInv

LEMMA ThrottleStep ==
    ASSUME WindowSeconds \in Nat, MaxOrders \in Nat
    PROVE  TypeInv /\ ThrottleInv /\ [Next]_vars => ThrottleInv'
<1> SUFFICES ASSUME TypeInv, ThrottleInv, [Next]_vars PROVE ThrottleInv'
    OBVIOUS
<1> USE DEF memory, call, files, history
<1>1. clock \in Nat /\ clock <= clock /\ clock <= clock + 1 /\ clock + 1 \in Nat
    BY DEF TypeInv, TypeOK
<1>2. ASSUME NEW t \in NowArgs, Start(t) PROVE ThrottleInv'
  <2>1. passed' = {} /\ orderTimes' = {}
    BY <1>2 DEF Start, Stored
  <2>2. \A u : {o \in passed' : u - WindowSeconds < o.at /\ o.at <= u} = {}
    BY <2>1
  <2>3. Cardinality({}) = 0 /\ 0 <= MaxOrders
    BY FS_EmptySet
  <2>4. ThrottleBound'
    BY <2>2, <2>3 DEF ThrottleBound
  <2>5. QED
    BY <2>1, <2>3, <2>4 DEF ThrottleInv
<1>3. CASE Halt
    BY <1>3, <1>1, ThrottleFrame DEF Halt
<1>4. ASSUME NEW notional \in Notionals, NEW balance \in Balances,
             NEW t \in NowArgs, CheckOrder(notional, balance, t)
      PROVE  ThrottleInv'
  <2>1. /\ live /\ live' = live /\ clock' = clock
        /\ verdict' = Refusal(notional, balance, t)
    BY <1>4 DEF CheckOrder
  <2>2. CASE verdict' = "pass" /\ Throttles(t)
    <3>1. t = clock
        BY <2>2 DEF Throttles, NowArgs
    <3>2. Cardinality(InWindow(orderTimes, t)) \in Nat
      <4>1. InWindow(orderTimes, t) \subseteq passed
        BY <2>1 DEF InWindow, ThrottleInv
      <4>2. QED
        BY <4>1, FS_Subset, FS_CardinalityType DEF TypeInv
    <3>3. Cardinality(InWindow(orderTimes, t)) < MaxOrders
        BY <2>1, <2>2, <3>2 DEF Refusal, Full
    <3>4. /\ orderTimes' = InWindow(orderTimes, clock)
                \cup {[at |-> clock, n |-> Cardinality(passed)]}
          /\ passed' = passed \cup {[at |-> clock, n |-> Cardinality(passed)]}
        BY <1>4, <2>2, <3>1 DEF CheckOrder
    <3>5. QED
        BY <2>1, <3>1, <3>3, <3>4, ThrottlePass, NoneAssumption
  <2>3. CASE verdict' = "throttle"
    <3>1. t = clock
        BY <2>1, <2>3 DEF Refusal, Full, Throttles, NowArgs
    <3>2. passed' = passed /\ orderTimes' = InWindow(orderTimes, clock)
        BY <1>4, <2>3, <3>1 DEF CheckOrder
    <3>3. ThrottleBound'
        BY <3>2 DEF ThrottleInv, ThrottleBound
    <3>4. orderTimes' \subseteq orderTimes
        BY <3>2 DEF InWindow
    <3>5. Cardinality(orderTimes') <= MaxOrders
      <4>1. IsFiniteSet(orderTimes)
        BY <2>1, FS_Subset DEF ThrottleInv, TypeInv
      <4>2. /\ Cardinality(orderTimes') \in Nat /\ Cardinality(orderTimes) \in Nat
            /\ Cardinality(orderTimes') <= Cardinality(orderTimes)
        BY <3>4, <4>1, FS_Subset, FS_CardinalityType
      <4>3. QED
        BY <2>1, <4>2 DEF ThrottleInv
    <3>6. \A o \in passed \ orderTimes' : o.at <= clock - WindowSeconds
      <4> SUFFICES ASSUME NEW o \in passed, o \notin orderTimes'
                   PROVE  o.at <= clock - WindowSeconds
        OBVIOUS
      <4>1. o.at \in Nat
        BY DEF ThrottleInv
      <4>2. CASE o \in orderTimes
        BY <1>1, <3>2, <4>1, <4>2 DEF InWindow
      <4>3. CASE o \notin orderTimes
        BY <2>1, <4>3 DEF ThrottleInv
      <4>4. QED
        BY <4>2, <4>3
    <3>7. QED
        BY <2>1, <3>2, <3>3, <3>4, <3>5, <3>6 DEF ThrottleInv
  <2>4. CASE ~(verdict' = "pass" /\ Throttles(t)) /\ verdict' # "throttle"
    <3>1. passed' = passed /\ orderTimes' = orderTimes
        BY <1>4, <2>4 DEF CheckOrder
    <3>2. QED
        BY <1>1, <2>1, <3>1, ThrottleFrame
  <2>5. QED
    BY <2>2, <2>3, <2>4
<1>5. ASSUME NEW pnl \in Pnls, NEW t \in NowArgs, TradeResult(pnl, t)
      PROVE  ThrottleInv'
    BY <1>5, <1>1, ThrottleFrame DEF TradeResult
<1>6. CASE TradeIgnored
    BY <1>6, <1>1, ThrottleFrame DEF TradeIgnored
<1>7. ASSUME NEW t \in NowArgs, ResetDaily(t) PROVE ThrottleInv'
    BY <1>7, <1>1, ThrottleFrame DEF ResetDaily
<1>8. CASE OnHaltReturns
    BY <1>8, <1>1, ThrottleFrame DEF OnHaltReturns
<1>9. CASE OnHaltRaises
    BY <1>9, <1>1, ThrottleFrame DEF OnHaltRaises
<1>10. CASE SaveWrites
    BY <1>10, <1>1, ThrottleFrame DEF SaveWrites
<1>11. CASE SaveReplaces
    BY <1>11, <1>1, ThrottleFrame DEF SaveReplaces
<1>12. CASE SaveFails
    BY <1>12, <1>1, ThrottleFrame DEF SaveFails
<1>13. CASE Crash
  <2>1. passed' = passed /\ clock' = clock /\ live' = FALSE
    BY <1>13 DEF Crash
  <2>2. ThrottleBound'
    BY <2>1 DEF ThrottleInv, ThrottleBound
  <2>3. QED
    BY <2>1, <2>2 DEF ThrottleInv
<1>14. CASE Tick
    BY <1>14, <1>1, ThrottleFrame DEF Tick
<1>15. CASE UNCHANGED vars
    BY <1>15, <1>1, ThrottleFrame DEF vars
<1>16. QED
    BY <1>2, <1>3, <1>4, <1>5, <1>6, <1>7, <1>8, <1>9, <1>10, <1>11, <1>12,
       <1>13, <1>14, <1>15 DEF Next

(* LC-RISK-3: whatever the limits, the clock and the order of calls, no    *)
(* sliding window of one process holds more orders than the throttle's     *)
(* limit.                                                                  *)
THEOREM ThrottleHolds == Spec => []ThrottleBound
<1>1. CASE WindowSeconds \in Nat /\ MaxOrders \in Nat
  <2>1. ThrottleInv => ThrottleBound
    BY DEF ThrottleInv
  <2>2. Init => ThrottleInv
    BY <1>1, ThrottleInit
  <2>3. TypeInv /\ ThrottleInv /\ [Next]_vars => ThrottleInv'
    BY <1>1, ThrottleStep
  <2>4. QED
    BY <2>1, <2>2, <2>3, TypeInit, TypeStep, PTL DEF Spec
<1>2. CASE WindowSeconds = None \/ MaxOrders = None
  <2>1. ThrottleBound
    BY <1>2 DEF ThrottleBound
  <2>2. QED
    BY <2>1, PTL
<1>3. QED
    BY <1>1, <1>2, LimitAssumption

\* Every slot of _order_times is taken by an order that passed.
SlotInv == live => orderTimes \subseteq passed

LEMMA SlotStep == SlotInv /\ [Next]_vars => SlotInv'
<1> SUFFICES ASSUME SlotInv, [Next]_vars PROVE SlotInv'
    OBVIOUS
<1> USE DEF SlotInv, memory, call, files, history
<1>1. ASSUME UNCHANGED <<orderTimes, passed>>, live' => live PROVE SlotInv'
    BY <1>1
<1>2. ASSUME NEW t \in NowArgs, Start(t) PROVE SlotInv'
    BY <1>2 DEF Start
<1>3. ASSUME NEW notional \in Notionals, NEW balance \in Balances,
             NEW t \in NowArgs, CheckOrder(notional, balance, t)
      PROVE  SlotInv'
    BY <1>3 DEF CheckOrder, InWindow
<1>4. ASSUME NEW pnl \in Pnls, NEW t \in NowArgs, TradeResult(pnl, t)
      PROVE  SlotInv'
    BY <1>1, <1>4 DEF TradeResult
<1>5. ASSUME NEW t \in NowArgs, ResetDaily(t) PROVE SlotInv'
    BY <1>1, <1>5 DEF ResetDaily
<1>6. CASE Halt \/ TradeIgnored
    BY <1>1, <1>6 DEF Halt, TradeIgnored
<1>7. CASE OnHaltReturns \/ OnHaltRaises
    BY <1>1, <1>7 DEF OnHaltReturns, OnHaltRaises
<1>8. CASE SaveWrites \/ SaveReplaces \/ SaveFails
    BY <1>1, <1>8 DEF SaveWrites, SaveReplaces, SaveFails
<1>9. CASE Crash
    BY <1>9 DEF Crash
<1>10. CASE Tick \/ UNCHANGED vars
    BY <1>1, <1>10 DEF Tick, vars
<1>11. QED
    BY <1>2, <1>3, <1>4, <1>5, <1>6, <1>7, <1>8, <1>9, <1>10 DEF Next

(* D5: orders refused by an earlier gate take no quota, so the throttle    *)
(* refuses an order only when the window is full of orders that passed,    *)
(* for all limits, clocks and orders of calls.                             *)
THEOREM ThrottleIsFair == Spec => ThrottleFair
<1>1. Init => SlotInv
    BY DEF Init, SlotInv
<1>2. TypeInv /\ SlotInv /\ [Next]_vars => [ThrottleNotOverstrict]_vars
  <2> SUFFICES ASSUME TypeInv, SlotInv, Next,
                      verdict' = "throttle", verdict # "throttle"
               PROVE  Cardinality({o \in passed : o.at > clock - WindowSeconds})
                          >= MaxOrders
    BY DEF ThrottleNotOverstrict
  <2> USE DEF memory, call, files, history
  <2>1. ASSUME NEW notional \in Notionals, NEW balance \in Balances,
               NEW t \in NowArgs, CheckOrder(notional, balance, t)
        PROVE  Cardinality({o \in passed : o.at > clock - WindowSeconds})
                   >= MaxOrders
    <3>1. Throttles(t) /\ Full(t) /\ live
        BY <2>1 DEF CheckOrder, Refusal
    <3>2. t = clock /\ MaxOrders \in Nat /\ WindowSeconds \in Nat
        BY <3>1, LimitAssumption DEF Throttles, NowArgs
    <3>3. InWindow(orderTimes, t)
              \subseteq {o \in passed : o.at > clock - WindowSeconds}
        BY <3>1, <3>2 DEF SlotInv, InWindow
    <3>4. IsFiniteSet({o \in passed : o.at > clock - WindowSeconds})
        BY FS_Subset DEF TypeInv
    <3>5. /\ Cardinality(InWindow(orderTimes, t))
                <= Cardinality({o \in passed : o.at > clock - WindowSeconds})
          /\ Cardinality(InWindow(orderTimes, t)) \in Nat
          /\ Cardinality({o \in passed : o.at > clock - WindowSeconds}) \in Nat
        BY <3>3, <3>4, FS_Subset, FS_CardinalityType
    <3>6. QED
        BY <3>1, <3>2, <3>5 DEF Full
  <2>2. ASSUME NEW t \in NowArgs, Start(t) PROVE FALSE
    BY <2>2 DEF Start
  <2>3. ASSUME NEW pnl \in Pnls, NEW t \in NowArgs, TradeResult(pnl, t)
        PROVE  FALSE
    BY <2>3 DEF TradeResult
  <2>4. ASSUME NEW t \in NowArgs, ResetDaily(t) PROVE FALSE
    BY <2>4 DEF ResetDaily
  <2>5. CASE Halt \/ TradeIgnored \/ Crash \/ Tick
    BY <2>5 DEF Halt, TradeIgnored, Crash, Tick
  <2>6. CASE OnHaltReturns \/ OnHaltRaises
    BY <2>6 DEF OnHaltReturns, OnHaltRaises
  <2>7. CASE SaveWrites \/ SaveReplaces \/ SaveFails
    BY <2>7 DEF SaveWrites, SaveReplaces, SaveFails
  <2>8. QED
    BY <2>1, <2>2, <2>3, <2>4, <2>5, <2>6, <2>7 DEF Next
<1>3. QED
    BY <1>1, <1>2, SlotStep, TypeInit, TypeStep, PTL DEF Spec, ThrottleFair

-----------------------------------------------------------------------------
(* The breakers, over exceptions, crashes and restarts.  Until a call is   *)
(* cut short, whoever restarts finds what the last call left; and once a   *)
(* halt has returned, the stored latch holds whatever the counters say.    *)
StreakBound == streak = 0 \/ streak < LossLimit

\* Memory and, between calls, the file agree with the losses that happened.
StreakKept ==
    /\ live /\ state = "ACTIVE" => consecutiveLosses = streak /\ StreakBound
    /\ pc = "idle" =>
          IF disk = None THEN streak = 0
          ELSE disk.state = "ACTIVE" => disk.losses = streak /\ StreakBound

StreakInv ==
    /\ tmp # None => tmp.losses = consecutiveLosses
    /\ Uncut => StreakKept

LEMMA StreakStep ==
    ASSUME HasStore
    PROVE  TypeInv /\ LatchInv /\ AckInv /\ StreakInv /\ [Next]_vars => StreakInv'
<1> SUFFICES ASSUME TypeInv, LatchInv, AckInv, StreakInv, [Next]_vars
             PROVE  StreakInv'
    OBVIOUS
\* A halt has returned: the latch is closed in the file and in memory.
<1>a. ASSUME fate' # "no", tmp' # None => tmp'.losses = consecutiveLosses'
      PROVE  StreakInv'
  <2>1. LatchInv' /\ AckInv'
    BY LatchStep, AckStep
  <2>2. CASE fate' = "returned"
    BY <1>a, <2>1, <2>2 DEF StreakInv, StreakKept, LatchInv, AckInv, Tripped
  <2>3. CASE fate' # "returned"
    BY <1>a, <2>3 DEF StreakInv, Uncut
  <2>4. QED
    BY <2>2, <2>3
<1>b. fate' = "no" \/ fate' # "no"
    OBVIOUS
<1> USE DEF StreakInv, StreakKept, StreakBound, Uncut, LatchInv, memory, call,
            files, history
<1>1. ASSUME NEW t \in NowArgs, Start(t) PROVE StreakInv'
    BY <1>1 DEF Start, Stored
<1>2. CASE Halt
    BY <1>2 DEF Halt, Save, Ready
<1>3. ASSUME NEW notional \in Notionals, NEW balance \in Balances,
             NEW t \in NowArgs, CheckOrder(notional, balance, t)
      PROVE  StreakInv'
    BY <1>3 DEF CheckOrder
<1>4. ASSUME NEW pnl \in Pnls, NEW t \in NowArgs, TradeResult(pnl, t)
      PROVE  StreakInv'
  <2>1. /\ live' /\ pc' # "idle" /\ tmp' = None
        /\ state = "ACTIVE" /\ fate' = fate
        /\ Uncut => consecutiveLosses = streak
        /\ streak' = IF pnl < 0 THEN streak + 1 ELSE 0
    BY <1>4 DEF TradeResult, Ready, Save
  <2>2. ASSUME state' = "ACTIVE"
        PROVE  ~BreaksDrawdown(dailyPnl + pnl) /\ ~BreaksStreak(pnl)
    BY <1>4, <2>2 DEF TradeResult
  <2>3. ASSUME state' = "ACTIVE", Uncut
        PROVE  consecutiveLosses' = streak' /\ StreakBound'
    BY <1>4, <2>1, <2>2, <2>3, LimitAssumption, InputAssumption
       DEF TradeResult, BreaksStreak, TypeInv, TypeOK
  <2>4. QED
    BY <2>1, <2>3
<1>5. CASE TradeIgnored
    BY <1>5 DEF TradeIgnored
<1>6. ASSUME NEW t \in NowArgs, ResetDaily(t) PROVE StreakInv'
    BY <1>6 DEF ResetDaily, Save, Ready
<1>7. CASE OnHaltReturns
    BY <1>7 DEF OnHaltReturns
<1>8. CASE SaveWrites
    BY <1>8 DEF SaveWrites, Snapshot
<1>9. CASE SaveReplaces
  <2>1. CASE fate' = "no"
    BY <1>9, <2>1 DEF SaveReplaces, CallReturns
  <2>2. CASE fate' # "no"
    BY <1>a, <1>9, <2>2 DEF SaveReplaces
  <2>3. QED
    BY <1>b, <2>1, <2>2
<1>10. CASE Crash
  <2>1. CASE fate' = "no"
    BY <1>10, <2>1 DEF Crash, FateOf
  <2>2. CASE fate' # "no"
    BY <1>a, <1>10, <2>2 DEF Crash
  <2>3. QED
    BY <1>b, <2>1, <2>2
<1>11. CASE Tick
    BY <1>11 DEF Tick
<1>12. CASE UNCHANGED vars
    BY <1>12 DEF vars
<1>13. CASE OnHaltRaises
  <2>1. fate' # "no" /\ UNCHANGED <<tmp, consecutiveLosses>>
    BY <1>13 DEF OnHaltRaises, CallRaises, FateOf
  <2>2. QED
    BY <1>a, <2>1
<1>14. CASE SaveFails
  <2>1. fate' # "no" /\ tmp' = None
    BY <1>14 DEF SaveFails, CallRaises, FateOf
  <2>2. QED
    BY <1>a, <2>1
<1>15. QED
    BY <1>1, <1>2, <1>3, <1>4, <1>5, <1>6, <1>7, <1>8, <1>9, <1>10, <1>11,
       <1>12, <1>13, <1>14 DEF Next

(* The loss breaker counts every losing trade since the last winning one,  *)
(* whatever restarts, resets and refused orders come between, and trips    *)
(* before the limit is passed, until an exception or a crash cuts a call   *)
(* short; and an ACTIVE guard never contradicts a halt that has returned.  *)
THEOREM StreakHolds ==
    ASSUME HasStore
    PROVE  Spec => []StreakEnforced
<1>1. Init => StreakInv
    BY DEF Init, StreakInv, StreakKept, StreakBound
<1>2. StreakInv => StreakEnforced
    BY DEF StreakInv, StreakKept, StreakBound, StreakEnforced, Ready
<1>3. TypeInv /\ LatchInv /\ AckInv /\ StreakInv /\ [Next]_vars => StreakInv'
    BY StreakStep
<1>4. Init => AckInv
    BY DEF Init, AckInv
<1>5. TypeInv /\ LatchInv /\ AckInv /\ [Next]_vars => AckInv'
    BY AckStep
<1>6. QED
    BY <1>1, <1>2, <1>3, <1>4, <1>5, TypeInit, TypeStep, LatchInit, LatchStep, PTL DEF Spec

-----------------------------------------------------------------------------
\* Days follow the clock.
LEMMA DayBounds ==
    \A t \in Nat : /\ Day(t) \in Int
                   /\ Day(t) * DayLength <= t
                   /\ t < Day(t) * DayLength + DayLength
BY InputAssumption DEF Day

LEMMA DayMonotone ==
    ASSUME NEW s \in Nat, NEW t \in Nat, s <= t
    PROVE  Day(s) <= Day(t)
<1> DEFINE a == Day(s)
           b == Day(t)
<1> SUFFICES ASSUME ~(a <= b) PROVE FALSE
    OBVIOUS
<1>1. a \in Int /\ b \in Int
    BY DayBounds
<1>2. a * DayLength <= s /\ t < b * DayLength + DayLength
    BY DayBounds
<1> HIDE DEF a, b
<1>3. (b + 1) * DayLength <= a * DayLength
    BY <1>1, InputAssumption
<1>4. (b + 1) * DayLength = b * DayLength + DayLength
    BY <1>1, InputAssumption
<1>5. QED
    BY <1>1, <1>2, <1>3, <1>4, InputAssumption

(* The drawdown breaker, for a caller that stamps every call and resets    *)
(* before a day's first trade.  What the file says of today is the day's   *)
(* sum; a file of another day means that nothing was traded today.         *)
DayBound == dayPnl = 0 \/ DrawdownLimit = None \/ dayPnl > -DrawdownLimit

DiskTellsDay ==
    IF disk = None THEN dayPnl = 0
    ELSE disk.state = "ACTIVE" =>
            /\ disk.date \in Int /\ disk.date <= Day(clock)
            /\ IF disk.date = Day(clock) THEN disk.pnl = dayPnl /\ DayBound
               ELSE dayPnl = 0

DayKept ==
    /\ live /\ state = "ACTIVE" /\ accDay = Day(clock) =>
            dailyPnl = dayPnl /\ DayBound
    /\ pc = "idle" => DiskTellsDay

DrawdownInv ==
    /\ live => accDay <= Day(clock)
    /\ live /\ state = "ACTIVE" /\ pc # "idle" =>
            accDay = Day(clock) /\ callNow = clock
    /\ tmp # None /\ state = "ACTIVE" =>
            tmp.pnl = dailyPnl /\ tmp.date = Day(clock)
    /\ Uncut => DayKept

LEMMA DrawdownStep ==
    ASSUME HasStore, Stamped, DailyReset
    PROVE  TypeInv /\ LatchInv /\ AckInv /\ DrawdownInv /\ [Next]_vars
                => DrawdownInv'
<1> SUFFICES ASSUME TypeInv, LatchInv, AckInv, DrawdownInv, [Next]_vars
             PROVE  DrawdownInv'
    OBVIOUS
<1>a. ASSUME fate' # "no" PROVE Uncut' => DayKept'
  <2>1. LatchInv' /\ AckInv'
    BY LatchStep, AckStep
  <2>2. CASE fate' = "returned"
    BY <2>1, <2>2 DEF DayKept, DiskTellsDay, LatchInv, AckInv, Tripped
  <2>3. CASE fate' # "returned"
    BY <1>a, <2>3 DEF Uncut
  <2>4. QED
    BY <2>2, <2>3
<1>b. fate' = "no" \/ fate' # "no"
    OBVIOUS
<1> USE DEF DrawdownInv, DayKept, DayBound, DiskTellsDay, Uncut, LatchInv,
            memory, call, files, history
<1>1. NowArgs = {clock} /\ clock \in Nat /\ clock # None /\ Day(clock) \in Int
    BY DayBounds, NoneAssumption DEF NowArgs, TypeInv, TypeOK
<1>2. ASSUME NEW t \in NowArgs, Start(t) PROVE DrawdownInv'
  <2>1. t = clock /\ pc = "idle" /\ tmp = None
    BY <1>1, <1>2 DEF Start
  <2>2. /\ accDay' = Day(clock) /\ pc' = "idle" /\ tmp' = None
        /\ UNCHANGED <<disk, clock, dayPnl, fate>>
    BY <1>2, <2>1 DEF Start
  <2>3. ASSUME state' = "ACTIVE", Uncut PROVE dailyPnl' = dayPnl /\ DayBound
    <3>1. CASE disk = None
        BY <1>2, <2>1, <2>3, <3>1 DEF Start, Stored
    <3>2. CASE disk # None
        BY <1>1, <1>2, <2>1, <2>3, <3>2 DEF Start, Stored, RestoredPnl
    <3>3. QED
        BY <3>1, <3>2
  <2>4. QED
    BY <1>1, <2>1, <2>2, <2>3
<1>3. CASE Halt
    BY <1>3 DEF Halt, Save, Ready
<1>4. ASSUME NEW notional \in Notionals, NEW balance \in Balances,
             NEW t \in NowArgs, CheckOrder(notional, balance, t)
      PROVE  DrawdownInv'
    BY <1>4 DEF CheckOrder
<1>5. ASSUME NEW pnl \in Pnls, NEW t \in NowArgs, TradeResult(pnl, t)
      PROVE  DrawdownInv'
  <2>1. /\ live' /\ pc' # "idle" /\ callNow' = clock /\ tmp = None /\ tmp' = None
        /\ state = "ACTIVE" /\ accDay = Day(clock)
        /\ Uncut => dailyPnl = dayPnl
        /\ dailyPnl' = dailyPnl + pnl /\ dayPnl' = dayPnl + pnl
        /\ UNCHANGED <<accDay, clock, fate>>
    BY <1>1, <1>5 DEF TradeResult, Ready, Save
  <2>2. ASSUME state' = "ACTIVE", Uncut PROVE DayBound'
    <3>1. ~BreaksDrawdown(dayPnl')
        BY <1>5, <2>1, <2>2 DEF TradeResult
    <3>2. dayPnl' \in Int
        BY <2>1, InputAssumption DEF TypeInv, TypeOK
    <3>3. QED
        BY <3>1, <3>2, LimitAssumption DEF BreaksDrawdown
  <2>3. QED
    BY <1>1, <2>1, <2>2
<1>6. CASE TradeIgnored
    BY <1>6 DEF TradeIgnored
<1>7. ASSUME NEW t \in NowArgs, ResetDaily(t) PROVE DrawdownInv'
    BY <1>1, <1>7 DEF ResetDaily, Save, Ready
<1>8. CASE OnHaltReturns
    BY <1>8 DEF OnHaltReturns
<1>9. CASE SaveWrites
    BY <1>1, <1>9 DEF SaveWrites, Snapshot
<1>10. CASE SaveReplaces
  <2>1. CASE fate' = "no"
    BY <1>1, <1>10, <2>1 DEF SaveReplaces, CallReturns
  <2>2. CASE fate' # "no"
    BY <1>a, <1>10, <2>2 DEF SaveReplaces, CallReturns
  <2>3. QED
    BY <1>b, <2>1, <2>2
<1>11. CASE Crash
  <2>1. CASE fate' = "no"
    BY <1>11, <2>1 DEF Crash, FateOf
  <2>2. CASE fate' # "no"
    BY <1>a, <1>11, <2>2 DEF Crash
  <2>3. QED
    BY <1>b, <2>1, <2>2
<1>12. CASE Tick
  <2>1. /\ clock' = clock + 1 /\ pc = "idle" /\ tmp = None
        /\ UNCHANGED <<live, state, dailyPnl, accDay, disk, tmp, pc, fate>>
        /\ dayPnl' = IF Day(clock') = Day(clock) THEN dayPnl ELSE 0
    BY <1>12 DEF Tick
  <2>2. Day(clock') \in Int /\ Day(clock) <= Day(clock')
    BY <1>1, <2>1, DayBounds, DayMonotone
  <2>3. accDay \in Int
    BY DEF TypeInv, TypeOK
  <2>4. CASE Day(clock') = Day(clock)
    BY <2>1, <2>4
  <2>5. CASE Day(clock') # Day(clock)
    BY <1>1, <2>1, <2>2, <2>3, <2>5
  <2>6. QED
    BY <2>4, <2>5
<1>13. CASE UNCHANGED vars
    BY <1>13 DEF vars
<1>14. CASE OnHaltRaises
  <2>1. fate' # "no" /\ pc' = "idle"
    BY <1>14 DEF OnHaltRaises, CallRaises, FateOf
  <2>2. UNCHANGED <<live, state, dailyPnl, tmp, clock, accDay>>
    BY <1>14 DEF OnHaltRaises
  <2>3. QED
    BY <1>a, <2>1, <2>2
<1>15. CASE SaveFails
  <2>1. fate' # "no" /\ pc' = "idle" /\ tmp' = None
    BY <1>15 DEF SaveFails, CallRaises, FateOf
  <2>2. UNCHANGED <<live, state, dailyPnl, clock, accDay>>
    BY <1>15 DEF SaveFails
  <2>3. QED
    BY <1>a, <2>1, <2>2
<1>16. QED
    BY <1>2, <1>3, <1>4, <1>5, <1>6, <1>7, <1>8, <1>9, <1>10, <1>11, <1>12,
       <1>13, <1>14, <1>15 DEF Next

(* The drawdown breaker has accumulated exactly the day's trades, over     *)
(* restarts on the same day and on later ones, and trips before the loss   *)
(* of the limit is passed over, until an exception or a crash cuts a call  *)
(* short.                                                                  *)
THEOREM DrawdownHolds ==
    ASSUME HasStore, Stamped, DailyReset
    PROVE  Spec => []DrawdownEnforced
<1>1. Init => DrawdownInv
    BY DEF Init, DrawdownInv, DayKept, DiskTellsDay
<1>2. DrawdownInv => DrawdownEnforced
    BY DEF DrawdownInv, DayKept, DayBound, DrawdownEnforced, Ready
<1>3. TypeInv /\ LatchInv /\ AckInv /\ DrawdownInv /\ [Next]_vars
            => DrawdownInv'
    BY DrawdownStep
<1>4. Init => AckInv
    BY DEF Init, AckInv
<1>5. TypeInv /\ LatchInv /\ AckInv /\ [Next]_vars => AckInv'
    BY AckStep
<1>6. QED
    BY <1>1, <1>2, <1>3, <1>4, <1>5, TypeInit, TypeStep, LatchInit, LatchStep, PTL DEF Spec

-----------------------------------------------------------------------------
\* A step of the bridge is a step of the guard or leaves it alone.
\* Its calls of on_trade_result carry no clock, so not every call does.
LEMMA BridgeStepsGuard ==
    ASSUME ~Stamped
    PROVE  [BridgeNext]_bridgeVars => [Next]_vars
<1> SUFFICES ASSUME [BridgeNext]_bridgeVars PROVE [Next]_vars
    OBVIOUS
<1>1. ASSUME NEW pnl \in Pnls, Feed(pnl) PROVE Next
  <2>1. None \in NowArgs
    BY DEF NowArgs
  <2>2. QED
    BY <1>1, <2>1 DEF Feed, Next
<1>2. ASSUME NEW t \in NowArgs, BridgeStart(t) PROVE Next
    BY <1>2 DEF BridgeStart, Next
<1>3. ASSUME NEW tr \in Trades, OnOrderFilled(tr) PROVE [Next]_vars
  <2>1. PnlOf[tr] \in Pnls
    BY BridgeAssumption
  <2>2. CASE FedFill(tr)
    BY <2>1, <2>2, <1>1 DEF FedFill
  <2>3. CASE ReconciliationFill(tr)
    BY <2>3 DEF ReconciliationFill, NoFeed
  <2>4. CASE DuplicateFill(tr)
    BY <2>4 DEF DuplicateFill, NoFeed
  <2>5. CASE SkippedFill(tr)
    BY <2>5 DEF SkippedFill, NoFeed
  <2>6. CASE ExtractorRaises(tr)
    BY <2>6 DEF ExtractorRaises, NoFeed
  <2>7. QED
    BY <1>3, <2>2, <2>3, <2>4, <2>5, <2>6 DEF OnOrderFilled
<1>4. ASSUME NEW move \in PositionMoves, NEW closes \in BOOLEAN,
             OnPositionEvent(move, closes)
      PROVE  Next
    BY <1>4, <1>1 DEF OnPositionEvent
<1>5. ASSUME NEW t \in NowArgs, BridgeReset(t) PROVE Next
    BY <1>5 DEF BridgeReset, Next
<1>6. CASE GuardStep
    BY <1>6 DEF GuardStep, Next
<1>7. CASE UNCHANGED bridgeVars
    BY <1>7 DEF bridgeVars
<1>8. QED
    BY <1>2, <1>3, <1>4, <1>5, <1>6, <1>7 DEF BridgeNext

(* Behind the bridge the guard behaves as RiskGuard specifies it, with     *)
(* whatever duplicates, replays and exceptions the bridge meets.           *)
THEOREM BridgeImplementsGuard ==
    ASSUME ~Stamped
    PROVE  BridgeSpec => Spec
<1>1. BridgeInit => Init
    BY DEF BridgeInit
<1>2. QED
    BY <1>1, BridgeStepsGuard, PTL DEF BridgeSpec, Spec

(* The stored switch behind the bridge is the one-way latch of KillSwitch. *)
THEOREM BridgeRefinesKillSwitch ==
    ASSUME ~Stamped
    PROVE  BridgeSpec => ImplementsKillSwitch
BY BridgeImplementsGuard, RefinesKillSwitch, PTL

(* What an operator relies on (guard.py:44): while the stored state is     *)
(* HALTED no call of check_order has let an order pass, and the stored     *)
(* state is never anything else again, in any later process.               *)
StaysShut ==
    /\ [](Tripped => verdict # "pass")
    /\ [][Tripped => Tripped']_(Latch!vars)

THEOREM BridgeStaysShut ==
    ASSUME ~Stamped
    PROVE  BridgeSpec => StaysShut
<1> DEFINE Shut == Tripped => verdict # "pass"
<1>1. Latch!Init => Shut
    BY DEF Latch!Init
<1>2. Shut /\ [Latch!Next]_(Latch!vars) => Shut'
  <2> SUFFICES ASSUME Shut, [Latch!Next]_(Latch!vars) PROVE Shut'
    OBVIOUS
  <2>1. CASE UNCHANGED Latch!vars
    BY <2>1 DEF Latch!vars
  <2>2. CASE Latch!Next
    BY <2>2 DEF Latch!Next, Latch!Trip, Latch!Pass, Latch!Deny, Latch!Other, Latch!Denials
  <2>3. QED
    BY <2>1, <2>2
<1>3. [Latch!Next]_(Latch!vars) => [Tripped => Tripped']_(Latch!vars)
    BY DEF Latch!Next, Latch!Trip, Latch!Pass, Latch!Deny, Latch!Other
<1> HIDE DEF Shut
<1>4. ImplementsKillSwitch => []Shut /\ [][Tripped => Tripped']_(Latch!vars)
    BY <1>1, <1>2, <1>3, PTL DEF ImplementsKillSwitch, Latch!Spec
<1>5. QED
    BY <1>4, BridgeRefinesKillSwitch DEF StaysShut, Shut

(* A halt whose call returned is found by every restart, behind the bridge *)
(* as well, though the bridge calls the guard without a clock and loses    *)
(* its fill set with the process.                                          *)
THEOREM BridgeHaltIsDurable ==
    ASSUME HasStore, ~Stamped
    PROVE  BridgeSpec => []HaltSurvivesRestart
BY BridgeImplementsGuard, HaltIsDurable, PTL

(* Fed through the bridge, an ACTIVE guard counts the losses in a row and  *)
(* stays below the limit, until a call is cut short.                       *)
THEOREM BridgeStreakHolds ==
    ASSUME HasStore, ~Stamped
    PROVE  BridgeSpec => []StreakEnforced
BY BridgeImplementsGuard, StreakHolds, PTL

-----------------------------------------------------------------------------
(* Types of the bridge, and the accounting of fills.  FedInv: a trade that *)
(* was fed is one this process saw, and then it is in the fill set, or one *)
(* of an earlier process, and then it comes back as reconciliation.  No    *)
(* third kind is left that could be fed again.                             *)
FedInv ==
    /\ emitted = seenFills
    /\ \A tr \in Trades : fed[tr] = 0 \/ (fed[tr] = 1 /\ tr \in emitted \cup past)
    /\ RememberedIsFed

BridgeInv == BridgeTypeOK /\ FedInv

LEMMA BridgeInvInit == BridgeInit => BridgeInv
<1> SUFFICES ASSUME BridgeInit PROVE BridgeInv
    OBVIOUS
<1>1. TypeOK
    BY TypeInit DEF BridgeInit, TypeInv
<1>2. BridgeTypeOK
    BY <1>1 DEF BridgeInit, BridgeTypeOK
<1>3. FedInv
    BY DEF BridgeInit, FedInv, RememberedIsFed
<1>4. QED
    BY <1>2, <1>3 DEF BridgeInv

\* A fill that is new has not been fed yet.
LEMMA NewFillUnfed ==
    ASSUME BridgeInv, NEW tr \in Trades, NewFill(tr)
    PROVE  fed[tr] = 0
BY DEF BridgeInv, FedInv, NewFill

\* Handling a fill, apart from what the guard makes of it.
LEMMA FillKeepsInv ==
    ASSUME BridgeInv, TypeOK', NEW tr \in Trades, OnOrderFilled(tr)
    PROVE  BridgeInv'
<1> USE DEF BridgeInv
<1>1. CASE ReconciliationFill(tr) \/ DuplicateFill(tr)
    BY <1>1 DEF ReconciliationFill, DuplicateFill, bridge, BridgeTypeOK, FedInv,
                RememberedIsFed
<1>2. ASSUME NewFill(tr), fed' = fed, raised' \in {raised, raised \cup {tr}},
             realised' \in Int,
             tr \in ForeignFee \/ extractor # "pnl" \/ tr \in raised'
      PROVE  BridgeInv'
  <2>1. BridgeTypeOK'
    BY <1>2 DEF NewFill, BridgeTypeOK
  <2>2. FedInv'
    BY <1>2 DEF NewFill, FedInv, RememberedIsFed
  <2>3. QED
    BY <2>1, <2>2
<1>3. CASE SkippedFill(tr)
    BY <1>3, <1>2 DEF SkippedFill, BridgeTypeOK
<1>4. PnlOf[tr] \in Int
    BY BridgeAssumption, InputAssumption
<1>5. CASE ExtractorRaises(tr)
    BY <1>5, <1>2, <1>4 DEF ExtractorRaises, BridgeTypeOK
<1>6. CASE FedFill(tr)
  <2>1. NewFill(tr) /\ fed' = [fed EXCEPT ![tr] = 1]
    <3>1. NewFill(tr) /\ fed' = [fed EXCEPT ![tr] = @ + 1]
        BY <1>6 DEF FedFill
    <3>2. fed[tr] = 0
        BY <3>1, NewFillUnfed
    <3>3. QED
        BY <3>1, <3>2
  <2>2. BridgeTypeOK'
    BY <1>6, <1>4, <2>1 DEF FedFill, NewFill, BridgeTypeOK
  <2>3. /\ seenFills' = seenFills \cup {tr} /\ emitted' = emitted \cup {tr}
        /\ raised' = raised /\ extractor' = extractor /\ past' = past
    BY <1>6 DEF FedFill, NewFill
  <2>4. /\ fed'[tr] = 1
        /\ \A other \in Trades \ {tr} : fed'[other] = fed[other]
    BY <2>1 DEF BridgeTypeOK
  <2>5. FedInv'
    BY <2>3, <2>4 DEF FedInv, RememberedIsFed, BridgeTypeOK
  <2>6. QED
    BY <2>2, <2>5
<1>7. QED
    BY <1>1, <1>3, <1>5, <1>6 DEF OnOrderFilled

LEMMA BridgeInvStep ==
    BridgeInv /\ TypeInv' /\ [BridgeNext]_bridgeVars => BridgeInv'
<1> SUFFICES ASSUME BridgeInv, TypeInv', [BridgeNext]_bridgeVars
             PROVE  BridgeInv'
    OBVIOUS
<1>1. TypeOK' /\ dailyPnl' \in Int
    BY DEF TypeInv, TypeOK
<1>2. ASSUME NEW t \in NowArgs, BridgeStart(t) PROVE BridgeInv'
  <2>1. BridgeTypeOK'
    BY <1>1, <1>2 DEF BridgeStart, BridgeInv, BridgeTypeOK
  <2>2. FedInv'
    BY <1>2 DEF BridgeStart, BridgeInv, FedInv, RememberedIsFed
  <2>3. QED
    BY <2>1, <2>2 DEF BridgeInv
<1>3. ASSUME NEW tr \in Trades, OnOrderFilled(tr) PROVE BridgeInv'
    BY <1>1, <1>3, FillKeepsInv
<1>4. ASSUME NEW move \in PositionMoves, NEW closes \in BOOLEAN,
             OnPositionEvent(move, closes)
      PROVE  BridgeInv'
  <2>1. position' \in Int \cup {None} /\ realised' \in Int
    BY <1>4, BridgeAssumption DEF OnPositionEvent, BridgeInv, BridgeTypeOK
  <2>2. UNCHANGED <<extractor, seenFills, emitted, past, fed, raised>>
    BY <1>4 DEF OnPositionEvent
  <2>3. QED
    BY <1>1, <2>1, <2>2 DEF BridgeInv, BridgeTypeOK, FedInv, RememberedIsFed
<1>5. ASSUME NEW t \in NowArgs, BridgeReset(t) PROVE BridgeInv'
    BY <1>1, <1>5 DEF BridgeReset, BridgeInv, BridgeTypeOK, FedInv,
                      RememberedIsFed
<1>6. CASE GuardStep \/ UNCHANGED bridgeVars
    BY <1>1, <1>6 DEF GuardStep, bridgeVars, bridge, BridgeInv, BridgeTypeOK,
                      FedInv, RememberedIsFed
<1>7. QED
    BY <1>2, <1>3, <1>4, <1>5, <1>6 DEF BridgeNext

LEMMA BridgeInvAlways ==
    ASSUME ~Stamped
    PROVE  BridgeSpec => [](TypeInv /\ BridgeInv)
<1>1. BridgeInit => TypeInv
    BY TypeInit DEF BridgeInit
<1>2. QED
    BY <1>1, TypeStep, BridgeStepsGuard, BridgeInvInit, BridgeInvStep, PTL
       DEF BridgeSpec

(* Every state of the bridge in front of the guard is well typed.          *)
THEOREM BridgeTypeCorrect ==
    ASSUME ~Stamped
    PROVE  BridgeSpec => []BridgeTypeOK
<1>1. BridgeInv => BridgeTypeOK
    BY DEF BridgeInv
<1>2. QED
    BY <1>1, BridgeInvAlways, PTL

(* LC-EXEC-4: no trade reaches the guard twice, for any set of trades and  *)
(* through any number of duplicates, replays, crashes and restarts.        *)
THEOREM NoTradeFedTwice ==
    ASSUME ~Stamped
    PROVE  BridgeSpec => []FedAtMostOnce
<1>1. BridgeInv => FedAtMostOnce
    BY DEF BridgeInv, FedInv, FedAtMostOnce
<1>2. QED
    BY <1>1, BridgeInvAlways, PTL

(* No fill is swallowed: what the fill set remembers has reached the       *)
(* guard, but for foreign fees and an extractor that raised.               *)
THEOREM NoFillSwallowed ==
    ASSUME ~Stamped
    PROVE  BridgeSpec => []RememberedIsFed
<1>1. BridgeInv => RememberedIsFed
    BY DEF BridgeInv, FedInv
<1>2. QED
    BY <1>1, BridgeInvAlways, PTL

=============================================================================
