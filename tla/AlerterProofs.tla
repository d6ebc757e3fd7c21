--------------------------- MODULE AlerterProofs ----------------------------
(***************************************************************************)
(* Proofs about Alerter, for any threshold, any prices, outages of any     *)
(* length and sends that raise or do not.                                  *)
(***************************************************************************)
EXTENDS Alerter, TLAPS

\* The flags are what the operator was told, the counter is the outage, and
\* a reading that has not reached its stage is what the stage will see.
FlagInv ==
    /\ alertedPing \in BOOLEAN /\ alertedDrift \in BOOLEAN
    /\ toldPing = alertedPing /\ toldDrift = alertedDrift

PingInv ==
    /\ outage \in Nat /\ failCount = outage
    /\ phase = "ping" =>
          IF read.ping THEN outage = 0 ELSE alertedPing => outage >= Threshold
    /\ phase \notin {"ping", "crashed"} => (alertedPing <=> outage >= Threshold)

DriftInv ==
    /\ phase \in {"ping", "drift"} =>
          IF read.drift = None THEN alertedDrift <=> drift = "far"
          ELSE drift = read.drift
    /\ phase \notin {"ping", "drift", "crashed"} => (alertedDrift <=> drift = "far")

ToldInv == TypeOK /\ FlagInv /\ PingInv /\ DriftInv

LEMMA TypesInit == Init => TypeOK
<1> SUFFICES ASSUME Init PROVE TypeOK
    OBVIOUS
<1>1. read \in Reads
    BY DEF Init, Reads
<1>2. /\ {alertedPing, alertedDrift, alertedPrice} \subseteq BOOLEAN
      /\ {signalled, toldPing, toldDrift} \subseteq BOOLEAN
    BY Zenon DEF Init
<1>3. /\ failCount \in Nat /\ outage \in Nat
      /\ lastPrice \in Prices \cup {None} /\ drift \in Drifts
      /\ phase = "starting" /\ stopEvent = "none"
    BY DEF Init, Drifts
<1>4. QED
    BY <1>1, <1>2, <1>3 DEF TypeOK

LEMMA ToldInvInit == Init => ToldInv
<1> SUFFICES ASSUME Init PROVE ToldInv
    OBVIOUS
<1>1. FlagInv
    BY DEF Init, FlagInv
<1>2. PingInv
    BY AlerterAssumption DEF Init, PingInv
<1>3. DriftInv
    BY DEF Init, DriftInv
<1>4. QED
    BY <1>1, <1>2, <1>3, TypesInit DEF ToldInv

LEMMA TypesStep == TypeOK /\ [Next]_vars => TypeOK'
<1> SUFFICES ASSUME TypeOK, [Next]_vars PROVE TypeOK'
    OBVIOUS
<1> USE DEF TypeOK, flags, told, history, Stages
<1>1. CASE Signal
    BY <1>1 DEF Signal
<1>2. CASE Run
    BY <1>2 DEF Run
<1>3. ASSUME NEW r \in Reads, Polls(r) PROVE TypeOK'
  <2>1. failCount' \in Nat /\ outage' \in Nat
    BY <1>3 DEF Polls, FailCount
  <2>2. drift' \in Drifts /\ read' \in Reads
    BY <1>3 DEF Polls, Reads
  <2>3. QED
    BY <1>3, <2>1, <2>2 DEF Polls
<1>4. CASE PingStage
  <2>1. alertedPing' \in BOOLEAN /\ toldPing' \in BOOLEAN
    BY <1>4 DEF PingStage, PingAlarm, PingClear
  <2>2. QED
    BY <1>4, <2>1 DEF PingStage
<1>5. CASE DriftStage
  <2>1. alertedDrift' \in BOOLEAN /\ toldDrift' \in BOOLEAN
    BY <1>5 DEF DriftStage, DriftAlarm, DriftClear
  <2>2. QED
    BY <1>5, <2>1 DEF DriftStage
<1>6. CASE PriceStage
  <2>1. alertedPrice' \in BOOLEAN /\ lastPrice' \in Prices \cup {None}
    BY <1>6 DEF PriceStage, Moved, Compares, Reads
  <2>2. QED
    BY <1>6, <2>1 DEF PriceStage
<1>7. CASE SendRaises
    BY <1>7 DEF SendRaises
<1>8. CASE IntervalElapses \/ StopWakes
    BY <1>8 DEF IntervalElapses, StopWakes
<1>9. CASE UNCHANGED vars
    BY <1>9 DEF vars
<1>10. QED
    BY <1>1, <1>2, <1>3, <1>4, <1>5, <1>6, <1>7, <1>8, <1>9 DEF Next, Poll

LEMMA ToldInvStep == ToldInv /\ [Next]_vars => ToldInv'
<1> SUFFICES ASSUME ToldInv, [Next]_vars PROVE ToldInv'
    OBVIOUS
<1>1. TypeOK'
    BY TypesStep DEF ToldInv
<1>2. TypeOK /\ FlagInv /\ PingInv /\ DriftInv
    BY DEF ToldInv
<1>3. ASSUME NEW r \in Reads, Polls(r) PROVE ToldInv'
  <2>1. /\ phase = "polling" /\ phase' = "ping" /\ read' = r
        /\ UNCHANGED <<flags, told>>
    BY <1>3 DEF Polls
  <2>2. FlagInv'
    BY <1>2, <2>1 DEF FlagInv, flags, told
  <2>3. PingInv'
    <3>1. CASE r.ping
        BY <1>2, <1>3, <2>1, <3>1 DEF Polls, FailCount, PingInv
    <3>2. CASE ~r.ping
        BY <1>2, <1>3, <2>1, <3>2, AlerterAssumption
           DEF Polls, FailCount, PingInv, flags
    <3>3. QED
        BY <3>1, <3>2
  <2>4. DriftInv'
    BY <1>2, <1>3, <2>1 DEF Polls, DriftInv, flags
  <2>5. QED
    BY <1>1, <2>2, <2>3, <2>4 DEF ToldInv
<1>4. CASE PingStage
  <2>1. /\ phase = "ping" /\ phase' = "drift"
        /\ UNCHANGED <<alertedDrift, toldDrift, drift, read, outage, failCount>>
    BY <1>4 DEF PingStage
  <2>2. FlagInv'
    BY <1>2, <1>4 DEF PingStage, PingAlarm, PingClear, FlagInv
  <2>3. alertedPing' <=> outage >= Threshold
    <3>1. CASE read.ping
      <4>1. ~(outage >= Threshold)
        BY <1>2, <2>1, <3>1, AlerterAssumption DEF PingInv
      <4>2. ~alertedPing'
        BY <1>2, <1>4, <3>1 DEF PingStage, PingAlarm, PingClear
      <4>3. QED
        BY <4>1, <4>2
    <3>2. CASE ~read.ping
      <4>1. alertedPing => outage >= Threshold
        BY <1>2, <2>1, <3>2 DEF PingInv
      <4>2. alertedPing' <=> (alertedPing \/ failCount >= Threshold)
        BY <1>2, <1>4, <3>2 DEF PingStage, PingAlarm, PingClear
      <4>3. failCount = outage
        BY <1>2 DEF PingInv
      <4>4. QED
        BY <4>1, <4>2, <4>3
    <3>3. QED
      BY <3>1, <3>2
  <2>4. PingInv'
    BY <1>2, <2>1, <2>3 DEF PingInv
  <2>5. DriftInv'
    BY <1>2, <2>1 DEF DriftInv
  <2>6. QED
    BY <1>1, <2>2, <2>4, <2>5 DEF ToldInv
<1>5. CASE DriftStage
  <2>1. /\ phase = "drift" /\ phase' = "price"
        /\ UNCHANGED <<alertedPing, toldPing, drift, outage, failCount>>
    BY <1>5 DEF DriftStage
  <2>2. FlagInv'
    BY <1>2, <1>5 DEF DriftStage, DriftAlarm, DriftClear, FlagInv
  <2>3. PingInv'
    BY <1>2, <2>1 DEF PingInv
  <2>4. alertedDrift' <=> drift = "far"
    <3>1. CASE read.drift = None
        BY <1>2, <1>5, <2>1, <3>1, AlerterAssumption
           DEF DriftStage, DriftAlarm, DriftClear, DriftInv
    <3>2. CASE read.drift # None
      <4>1. drift = read.drift /\ drift \in {"near", "far"}
        BY <1>2, <2>1, <3>2 DEF DriftInv, TypeOK, Drifts
      <4>2. QED
        BY <1>5, <4>1 DEF DriftStage, DriftAlarm, DriftClear
    <3>3. QED
      BY <3>1, <3>2
  <2>5. DriftInv'
    BY <2>1, <2>4 DEF DriftInv
  <2>6. QED
    BY <1>1, <2>2, <2>3, <2>5 DEF ToldInv
<1>6. ASSUME UNCHANGED <<alertedPing, alertedDrift, told, failCount, outage, drift, read>>,
             \/ /\ phase \notin {"ping", "drift", "crashed"}
                /\ phase' \notin {"ping", "drift"}
             \/ phase' = "crashed"
             \/ phase' = phase
      PROVE  ToldInv'
  <2>1. FlagInv'
    BY <1>2, <1>6 DEF FlagInv, told
  <2>2. PingInv'
    BY <1>2, <1>6 DEF PingInv
  <2>3. DriftInv'
    BY <1>2, <1>6 DEF DriftInv
  <2>4. QED
    BY <1>1, <2>1, <2>2, <2>3 DEF ToldInv
<1>7. CASE Signal
    BY <1>6, <1>7 DEF Signal, flags
<1>8. CASE Run
    BY <1>6, <1>8 DEF Run, flags, history
<1>9. CASE PriceStage
    BY <1>6, <1>9 DEF PriceStage
<1>10. CASE SendRaises
    BY <1>6, <1>10 DEF SendRaises, flags, history
<1>11. CASE IntervalElapses \/ StopWakes
    BY <1>6, <1>11 DEF IntervalElapses, StopWakes, flags, history
<1>12. CASE UNCHANGED vars
    BY <1>6, <1>12 DEF vars, flags, history
<1>13. QED
    BY <1>3, <1>4, <1>5, <1>7, <1>8, <1>9, <1>10, <1>11, <1>12 DEF Next, Poll

LEMMA ToldInvAlways == Spec => []ToldInv
<1>1. QED
    BY ToldInvInit, ToldInvStep, PTL DEF Spec

(* Type correctness of the bot.                                            *)
THEOREM AlerterTypeCorrect == Spec => []TypeOK
<1>1. ToldInv => TypeOK
    BY DEF ToldInv
<1>2. QED
    BY <1>1, ToldInvAlways, PTL

(* After every poll the latest messages say what is so (alerter.py:79-105):*)
(* for every threshold, for outages of any length.                         *)
THEOREM OperatorAlwaysTold == Spec => []OperatorIsTold
<1>1. ToldInv => OperatorIsTold
    BY DEF ToldInv, FlagInv, PingInv, DriftInv, OperatorIsTold
<1>2. QED
    BY <1>1, ToldInvAlways, PTL

=============================================================================
