--------------------------- MODULE WsClientProofs ---------------------------
(***************************************************************************)
(* Proofs about WsClient, for any size of the queue and any number of      *)
(* frames, failures, reconnects and cancelled consumers.                   *)
(***************************************************************************)
EXTENDS WsClient, FiniteSetTheorems, SequenceTheorems, TLAPS

-----------------------------------------------------------------------------
(* Ascending sequences and the sets they hold.                             *)
Ordered(s) == \A i, j \in 1 .. Len(s) : i < j => s[i] < s[j]
Before(S, T) == \A x \in S, y \in T : x < y

LEMMA ConcatSet ==
    ASSUME NEW S, NEW s \in Seq(S), NEW t \in Seq(S)
    PROVE  s \o t \in Seq(S) /\ ToSet(s \o t) = ToSet(s) \cup ToSet(t)
<1>1. s \o t \in Seq(S) /\ Len(s \o t) = Len(s) + Len(t)
    OBVIOUS
<1>2. \A i \in 1 .. Len(s) : (s \o t)[i] = s[i]
    OBVIOUS
<1>3. \A i \in 1 .. Len(t) : (s \o t)[Len(s) + i] = t[i]
    OBVIOUS
<1>4. ASSUME NEW x \in ToSet(s \o t) PROVE x \in ToSet(s) \cup ToSet(t)
  <2>1. PICK i \in 1 .. Len(s) + Len(t) : x = (s \o t)[i]
    BY <1>1, <1>4 DEF ToSet
  <2>2. CASE i <= Len(s)
    BY <1>2, <2>1, <2>2 DEF ToSet
  <2>3. CASE i > Len(s)
    <3>1. i - Len(s) \in 1 .. Len(t) /\ i = Len(s) + (i - Len(s))
      BY <2>1, <2>3
    <3>2. x = t[i - Len(s)]
      BY <1>3, <2>1, <3>1
    <3>3. QED
      BY <3>1, <3>2 DEF ToSet
  <2>4. QED
    BY <2>1, <2>2, <2>3
<1>5. ASSUME NEW x \in ToSet(s) PROVE x \in ToSet(s \o t)
  <2>1. PICK i \in 1 .. Len(s) : x = s[i]
    BY <1>5 DEF ToSet
  <2>2. i \in 1 .. Len(s \o t) /\ x = (s \o t)[i]
    BY <1>1, <1>2, <2>1
  <2>3. QED
    BY <1>1, <2>2 DEF ToSet
<1>6. ASSUME NEW x \in ToSet(t) PROVE x \in ToSet(s \o t)
  <2>1. PICK i \in 1 .. Len(t) : x = t[i]
    BY <1>6 DEF ToSet
  <2>2. Len(s) + i \in 1 .. Len(s \o t) /\ x = (s \o t)[Len(s) + i]
    BY <1>1, <1>3, <2>1
  <2>3. QED
    BY <1>1, <2>2 DEF ToSet
<1>7. QED
    BY <1>1, <1>4, <1>5, <1>6

LEMMA ConcatOrdered ==
    ASSUME NEW s \in Seq(Int), NEW t \in Seq(Int),
           Ordered(s), Ordered(t), Before(ToSet(s), ToSet(t))
    PROVE  Ordered(s \o t)
<1>1. Len(s \o t) = Len(s) + Len(t)
    OBVIOUS
<1>2. \A i \in 1 .. Len(s) : (s \o t)[i] = s[i]
    OBVIOUS
<1>3. \A i \in 1 .. Len(t) : (s \o t)[Len(s) + i] = t[i]
    OBVIOUS
<1>4. SUFFICES ASSUME NEW i \in 1 .. Len(s) + Len(t), NEW j \in 1 .. Len(s) + Len(t),
                      i < j
               PROVE  (s \o t)[i] < (s \o t)[j]
    BY <1>1 DEF Ordered
<1>5. CASE j <= Len(s)
    BY <1>2, <1>4, <1>5 DEF Ordered
<1>6. CASE i > Len(s)
  <2>1. /\ i - Len(s) \in 1 .. Len(t) /\ j - Len(s) \in 1 .. Len(t)
        /\ i = Len(s) + (i - Len(s)) /\ j = Len(s) + (j - Len(s))
    BY <1>4, <1>6
  <2>2. (s \o t)[i] = t[i - Len(s)] /\ (s \o t)[j] = t[j - Len(s)]
    BY <1>3, <2>1
  <2>3. i - Len(s) < j - Len(s)
    BY <1>4
  <2>4. QED
    BY <2>1, <2>2, <2>3 DEF Ordered
<1>7. CASE i <= Len(s) /\ j > Len(s)
  <2>1. /\ i \in 1 .. Len(s)
        /\ j - Len(s) \in 1 .. Len(t) /\ j = Len(s) + (j - Len(s))
    BY <1>4, <1>7
  <2>2. (s \o t)[i] = s[i] /\ (s \o t)[j] = t[j - Len(s)]
    BY <1>2, <1>3, <2>1
  <2>3. s[i] \in ToSet(s) /\ t[j - Len(s)] \in ToSet(t)
    BY <2>1 DEF ToSet
  <2>4. QED
    BY <2>2, <2>3 DEF Before
<1>8. QED
    BY <1>4, <1>5, <1>6, <1>7

LEMMA ConcatAscending ==
    ASSUME NEW s \in Seq(Int), NEW t \in Seq(Int),
           Ordered(s), Ordered(t), Before(ToSet(s), ToSet(t))
    PROVE  /\ s \o t \in Seq(Int) /\ Ordered(s \o t)
           /\ ToSet(s \o t) = ToSet(s) \cup ToSet(t)
BY ConcatSet, ConcatOrdered

\* A later message at the end.
LEMMA AppendFacts ==
    ASSUME NEW n \in Nat, NEW s \in Seq(1 .. n), NEW x \in 1 .. n,
           Ordered(s), Before(ToSet(s), {x})
    PROVE  /\ Append(s, x) \in Seq(1 .. n) /\ Len(Append(s, x)) = Len(s) + 1
           /\ ToSet(Append(s, x)) = ToSet(s) \cup {x}
           /\ Ordered(Append(s, x))
<1> DEFINE t == Append(s, x)
           m == Len(s)
<1>1. /\ t \in Seq(1 .. n) /\ Len(t) = m + 1 /\ m \in Nat
      /\ DOMAIN t = 1 .. m + 1 /\ DOMAIN s = 1 .. m
      /\ t[m + 1] = x /\ \A i \in 1 .. m : t[i] = s[i]
    OBVIOUS
<1>2. s \in [1 .. m -> 1 .. n]
    OBVIOUS
<1> HIDE DEF t, m
<1>3. \A i \in 1 .. m : s[i] \in ToSet(s) /\ t[i] = s[i]
    BY <1>1 DEF ToSet
<1>4. ToSet(t) = ToSet(s) \cup {x}
  <2>1. ASSUME NEW y \in ToSet(t) PROVE y \in ToSet(s) \cup {x}
    <3>1. PICK i \in 1 .. m + 1 : y = t[i]
      BY <1>1, <2>1 DEF ToSet
    <3>2. i \in 1 .. m \/ i = m + 1
      BY <1>1
    <3>3. QED
      BY <1>1, <1>3, <3>1, <3>2
  <2>2. ASSUME NEW y \in ToSet(s) PROVE y \in ToSet(t)
    <3>1. PICK i \in 1 .. m : y = s[i]
      BY <1>1, <2>2 DEF ToSet
    <3>2. i \in DOMAIN t /\ y = t[i]
      BY <1>1, <3>1
    <3>3. QED
      BY <3>2 DEF ToSet
  <2>3. x \in ToSet(t)
    <3>1. m + 1 \in DOMAIN t /\ x = t[m + 1]
      BY <1>1
    <3>2. QED
      BY <3>1 DEF ToSet
  <2>4. QED
    BY <2>1, <2>2, <2>3
<1>5. ASSUME NEW i \in 1 .. m + 1, NEW j \in 1 .. m + 1, i < j
      PROVE  t[i] < t[j]
  <2>1. i \in 1 .. m /\ (j \in 1 .. m \/ j = m + 1)
    BY <1>1, <1>5
  <2>2. CASE j = m + 1
    <3>1. t[j] = x /\ t[i] \in ToSet(s)
      BY <1>1, <1>3, <2>1, <2>2
    <3>2. QED
      BY <3>1 DEF Before
  <2>3. CASE j \in 1 .. m
    <3>1. s[i] < s[j]
      BY <1>5, <2>1, <2>3 DEF Ordered, m
    <3>2. QED
      BY <1>3, <2>1, <2>3, <3>1
  <2>4. QED
    BY <2>1, <2>2, <2>3
<1>6. Ordered(t)
    BY <1>1, <1>5 DEF Ordered
<1>7. QED
    BY <1>1, <1>4, <1>6 DEF t, m

LEMMA OneMessage ==
    ASSUME NEW S, NEW x \in S
    PROVE  /\ <<x>> \in Seq(S) /\ Len(<<x>>) = 1
           /\ ToSet(<<x>>) = {x} /\ Ordered(<<x>>)
BY DEF ToSet, Ordered

LEMMA NoMessage == ToSet(<<>>) = {} /\ Ordered(<<>>)
BY DEF ToSet, Ordered

\* Taking the oldest message.
LEMMA HeadTail ==
    ASSUME NEW S \in SUBSET Int, NEW q \in Seq(S), q # <<>>, Ordered(q)
    PROVE  /\ Head(q) \in S /\ Tail(q) \in Seq(S)
           /\ Len(Tail(q)) = Len(q) - 1 /\ Ordered(Tail(q))
           /\ ToSet(q) = {Head(q)} \cup ToSet(Tail(q))
           /\ Before({Head(q)}, ToSet(Tail(q)))
<1>1. /\ Len(q) \in Nat /\ Len(q) > 0 /\ Head(q) = q[1] /\ Head(q) \in S
      /\ Tail(q) \in Seq(S) /\ Len(Tail(q)) = Len(q) - 1
    OBVIOUS
<1>2. \A i \in 1 .. Len(Tail(q)) : Tail(q)[i] = q[i + 1] /\ i + 1 \in 1 .. Len(q)
    BY <1>1
<1>3. Ordered(Tail(q))
  <2>1. SUFFICES ASSUME NEW i \in 1 .. Len(Tail(q)), NEW j \in 1 .. Len(Tail(q)), i < j
                 PROVE  Tail(q)[i] < Tail(q)[j]
    BY DEF Ordered
  <2>2. i + 1 < j + 1
    BY <2>1, <1>1
  <2>3. QED
    BY <1>2, <2>1, <2>2 DEF Ordered
<1>4. Before({Head(q)}, ToSet(Tail(q)))
  <2>1. SUFFICES ASSUME NEW y \in ToSet(Tail(q)) PROVE Head(q) < y
    BY DEF Before
  <2>2. PICK i \in 1 .. Len(Tail(q)) : y = Tail(q)[i]
    BY <1>1, <2>1 DEF ToSet
  <2>3. 1 < i + 1 /\ 1 \in 1 .. Len(q)
    BY <1>1, <2>2
  <2>4. QED
    BY <1>1, <1>2, <2>2, <2>3 DEF Ordered
<1>5. ASSUME NEW x \in ToSet(q) PROVE x \in {Head(q)} \cup ToSet(Tail(q))
  <2>1. PICK i \in 1 .. Len(q) : x = q[i]
    BY <1>5 DEF ToSet
  <2>2. CASE i = 1
    BY <1>1, <2>1, <2>2
  <2>3. CASE i # 1
    <3>1. i - 1 \in 1 .. Len(Tail(q)) /\ (i - 1) + 1 = i
      BY <1>1, <2>1, <2>3
    <3>2. x = Tail(q)[i - 1]
      BY <1>2, <2>1, <3>1
    <3>3. DOMAIN Tail(q) = 1 .. Len(Tail(q))
      BY <1>1
    <3>4. x \in ToSet(Tail(q))
      BY <3>1, <3>2, <3>3 DEF ToSet
    <3>5. QED
      BY <3>4
  <2>4. QED
    BY <2>2, <2>3
<1>6. ASSUME NEW x \in {Head(q)} \cup ToSet(Tail(q)) PROVE x \in ToSet(q)
  <2>1. CASE x = Head(q)
    BY <1>1, <2>1 DEF ToSet
  <2>2. CASE x \in ToSet(Tail(q))
    <3>1. PICK i \in 1 .. Len(Tail(q)) : x = Tail(q)[i]
      BY <1>1, <2>2 DEF ToSet
    <3>2. QED
      BY <1>2, <3>1 DEF ToSet
  <2>3. QED
    BY <1>6, <2>1, <2>2
<1>7. QED
    BY <1>1, <1>3, <1>4, <1>5, <1>6

-----------------------------------------------------------------------------
(* Where messages can be.  The helper task holds one only when it is done, *)
(* the read loop only while it puts; a task that is not there holds none.  *)
Places ==
    /\ getter # "done" => got = <<>>
    /\ getter # "none" <=> consumer = "racing"
    /\ main # "putting" => putting = <<>>
    /\ main = "none" => received = 0
    /\ consumer = "draining" \/ consumer = "returned" => main = "done"

Messages ==
    /\ queue \in Seq(1 .. received) /\ putting \in Seq(1 .. received)
    /\ got \in Seq(1 .. received) /\ delivered \in Seq(1 .. received)
    /\ Len(queue) <= QueueMaxSize /\ Len(putting) <= 1 /\ Len(got) <= 1
    /\ unparsed \cup dropped \cup lost \subseteq 1 .. received

Counters ==
    /\ received \in 0 .. MaxFrames
    /\ {attempt, currentAttempt, reconnectCount, failures, cancels} \subseteq Nat
    /\ byKind \in [Kinds -> Nat] /\ \A k \in Kinds : byKind[k] <= received

Modes ==
    /\ {closed, cancelling, connectedSince} \subseteq BOOLEAN
    /\ main \in {"none", "connecting", "reading", "putting", "backoff", "done"}
    /\ consumer \in {"none", "racing", "busy", "draining", "returned"}
    /\ getter \in {"none", "waiting", "done"}

\* The four stations a message passes, in order.
Sorted ==
    /\ Ordered(delivered) /\ Ordered(got) /\ Ordered(queue) /\ Ordered(putting)
    /\ Before(ToSet(delivered), ToSet(got))
    /\ Before(ToSet(delivered), ToSet(queue))
    /\ Before(ToSet(delivered), ToSet(putting))
    /\ Before(ToSet(got), ToSet(queue))
    /\ Before(ToSet(got), ToSet(putting))
    /\ Before(ToSet(queue), ToSet(putting))

OnTheirWay == ToSet(delivered) \cup ToSet(got) \cup ToSet(queue) \cup ToSet(putting)
Gone == unparsed \cup dropped \cup lost

Accounted == OnTheirWay \cup Gone = 1 .. received /\ OnTheirWay \cap Gone = {}

StreamInv == Modes /\ Counters /\ Places /\ Messages /\ Sorted /\ Accounted

LEMMA StreamInvInit == Init => StreamInv
<1> SUFFICES ASSUME Init PROVE StreamInv
    OBVIOUS
<1>1. Modes
  <2>1. {closed, cancelling, connectedSince} \subseteq BOOLEAN
    BY Zenon DEF Init
  <2>2. QED
    BY <2>1 DEF Init, Modes
<1>2. Counters
    BY WsAssumption DEF Init, Counters
<1>3. Places
    BY DEF Init, Places
<1>4. Messages
    BY WsAssumption DEF Init, Messages
<1>5. /\ ToSet(delivered) = {} /\ ToSet(got) = {} /\ ToSet(queue) = {}
      /\ ToSet(putting) = {}
      /\ Ordered(delivered) /\ Ordered(got) /\ Ordered(queue) /\ Ordered(putting)
    BY NoMessage DEF Init
<1>6. Sorted
    BY <1>5 DEF Sorted, Before
<1>7. Accounted
    BY <1>5 DEF Init, Accounted, OnTheirWay, Gone
<1>8. QED
    BY <1>1, <1>2, <1>3, <1>4, <1>6, <1>7 DEF StreamInv

LEMMA ModesStep == StreamInv /\ [Next]_vars => Modes'
<1> SUFFICES ASSUME Modes, Places, [Next]_vars PROVE Modes'
    BY DEF StreamInv
<1> USE DEF Modes, mainVars, consumerVars, counts, gone, history, Running, Connected,
            BackOff, ReconnectAtOnce, LeaveRunOne
<1>1. CASE Enter \/ Close
    BY <1>1 DEF Enter, Close
<1>2. CASE ConnectOk \/ ConnectFails \/ ConnectTimesOut
    BY <1>2 DEF ConnectOk, ConnectFails, ConnectTimesOut
<1>3. ASSUME NEW frame \in Frames, Frame(frame) \/ FrameRaises(frame) PROVE Modes'
    BY <1>3 DEF Frame, FrameRaises
<1>4. CASE PutResumes \/ ServerCloses \/ ConnectionDrops \/ CapReached
    BY <1>4 DEF PutResumes, ServerCloses, ConnectionDrops, CapReached
<1>5. CASE BackoffElapses \/ Cancelled
    BY <1>5 DEF BackoffElapses, Cancelled
<1>6. CASE NextMessage \/ GetterTakes \/ YieldsMessage
    BY <1>6 DEF NextMessage, GetterTakes, YieldsMessage
<1>7. CASE MainTaskEnded \/ Drains \/ ConsumerCancelled
    BY <1>7 DEF MainTaskEnded, Drains, ConsumerCancelled
<1>8. CASE UNCHANGED vars
    BY <1>8 DEF vars
<1>9. QED
    BY <1>1, <1>2, <1>3, <1>4, <1>5, <1>6, <1>7, <1>8 DEF Next, MainStep, ConsumerStep

LEMMA PlacesStep == StreamInv /\ [Next]_vars => Places'
<1> SUFFICES ASSUME Modes, Places, [Next]_vars PROVE Places'
    BY DEF StreamInv
<1> USE DEF Modes, Places, mainVars, consumerVars, counts, gone, history, Running,
            Connected, BackOff, ReconnectAtOnce, LeaveRunOne
<1>1. CASE Enter \/ Close
    BY <1>1 DEF Enter, Close
<1>2. CASE ConnectOk \/ ConnectFails \/ ConnectTimesOut
    BY <1>2 DEF ConnectOk, ConnectFails, ConnectTimesOut
<1>3. ASSUME NEW frame \in Frames, Frame(frame) \/ FrameRaises(frame) PROVE Places'
    BY <1>3 DEF Frame, FrameRaises
<1>4. CASE PutResumes \/ ServerCloses \/ ConnectionDrops \/ CapReached
    BY <1>4 DEF PutResumes, ServerCloses, ConnectionDrops, CapReached
<1>5. CASE BackoffElapses \/ Cancelled
    BY <1>5 DEF BackoffElapses, Cancelled
<1>6. CASE NextMessage \/ GetterTakes \/ YieldsMessage
    BY <1>6 DEF NextMessage, GetterTakes, YieldsMessage
<1>7. CASE MainTaskEnded \/ Drains \/ ConsumerCancelled
    BY <1>7 DEF MainTaskEnded, Drains, ConsumerCancelled
<1>8. CASE UNCHANGED vars
    BY <1>8 DEF vars
<1>9. QED
    BY <1>1, <1>2, <1>3, <1>4, <1>5, <1>6, <1>7, <1>8 DEF Next, MainStep, ConsumerStep

LEMMA CountersStep == StreamInv /\ [Next]_vars => Counters'
<1> SUFFICES ASSUME Counters, [Next]_vars PROVE Counters'
    BY DEF StreamInv
<1>1. ASSUME UNCHANGED counts,
             {attempt', currentAttempt', reconnectCount', failures', cancels'} \subseteq Nat
      PROVE  Counters'
    BY <1>1 DEF Counters, counts
<1> USE DEF mainVars, consumerVars, counts, gone, history, BackOff, ReconnectAtOnce,
            LeaveRunOne
<1>2. CASE Enter \/ Close
    BY <1>1, <1>2 DEF Counters, Enter, Close
<1>3. CASE ConnectOk \/ ConnectFails \/ ConnectTimesOut
    BY <1>1, <1>3 DEF Counters, ConnectOk, ConnectFails, ConnectTimesOut
<1>4. ASSUME NEW frame \in Frames, Frame(frame) \/ FrameRaises(frame) PROVE Counters'
  <2>1. Counted(Parsed(frame))
    BY <1>4 DEF Frame, FrameRaises
  <2>2. received' \in 0 .. MaxFrames /\ received' = received + 1
    BY <2>1, WsAssumption DEF Counted, Counters
  <2>3. byKind' \in [Kinds -> Nat] /\ \A k \in Kinds : byKind'[k] <= received'
    BY <2>1, <2>2 DEF Counted, Counters
  <2>4. {attempt', currentAttempt', reconnectCount', failures', cancels'} \subseteq Nat
    BY <1>4 DEF Frame, FrameRaises, Counters
  <2>5. QED
    BY <2>2, <2>3, <2>4 DEF Counters
<1>5. CASE PutResumes \/ ServerCloses \/ ConnectionDrops \/ CapReached
    BY <1>1, <1>5 DEF Counters, PutResumes, ServerCloses, ConnectionDrops, CapReached
<1>6. CASE BackoffElapses \/ Cancelled
    BY <1>1, <1>6 DEF Counters, BackoffElapses, Cancelled
<1>7. CASE NextMessage \/ GetterTakes \/ YieldsMessage
    BY <1>1, <1>7 DEF Counters, NextMessage, GetterTakes, YieldsMessage
<1>8. CASE MainTaskEnded \/ Drains \/ ConsumerCancelled
    BY <1>1, <1>8 DEF Counters, MainTaskEnded, Drains, ConsumerCancelled
<1>9. CASE UNCHANGED vars
    BY <1>1, <1>9 DEF Counters, vars
<1>10. QED
    BY <1>2, <1>3, <1>4, <1>5, <1>6, <1>7, <1>8, <1>9 DEF Next, MainStep, ConsumerStep

-----------------------------------------------------------------------------
(* What a step does to the messages, one lemma per kind of move.           *)
Stream == Messages /\ Sorted /\ Accounted
pipes  == <<delivered, got, queue, putting>>

LEMMA NothingMoves ==
    ASSUME Stream, UNCHANGED <<pipes, gone, received>>
    PROVE  Stream'
BY DEF Stream, Messages, Sorted, Accounted, OnTheirWay, Gone, pipes, gone

\* The read loop is left while it puts.
LEMMA PutIsDropped ==
    ASSUME Stream, UNCHANGED <<delivered, got, queue, received, unparsed, lost>>,
           putting' = <<>>, dropped' = dropped \cup ToSet(putting)
    PROVE  Stream'
<1>1. ToSet(putting') = {} /\ Ordered(putting') /\ ToSet(putting) \subseteq 1 .. received
  <2>1. ToSet(putting) \subseteq OnTheirWay /\ OnTheirWay \subseteq 1 .. received
    BY DEF Stream, Accounted, OnTheirWay
  <2>2. QED
    BY <2>1, NoMessage
<1>2. Messages'
    BY <1>1 DEF Stream, Messages
<1>3. Sorted'
    BY <1>1 DEF Stream, Sorted, Before
<1>4. ToSet(putting) \cap (ToSet(delivered) \cup ToSet(got) \cup ToSet(queue)) = {}
  <2>1. ASSUME NEW x \in ToSet(putting),
               x \in ToSet(delivered) \cup ToSet(got) \cup ToSet(queue)
        PROVE  FALSE
    <3>1. x < x
      BY <2>1 DEF Stream, Sorted, Before
    <3>2. x \in Int
      BY <1>1, <2>1
    <3>3. QED
      BY <3>1, <3>2
  <2>2. QED
    BY <2>1
<1>5. Accounted'
    BY <1>1, <1>4 DEF Stream, Accounted, OnTheirWay, Gone
<1>6. QED
    BY <1>2, <1>3, <1>5 DEF Stream

\* A cancelled consumer's helper had taken a message.
LEMMA GotIsLost ==
    ASSUME Stream, UNCHANGED <<delivered, queue, putting, received, unparsed, dropped>>,
           got' = <<>>, lost' = lost \cup ToSet(got)
    PROVE  Stream'
<1>1. ToSet(got') = {} /\ Ordered(got') /\ ToSet(got) \subseteq 1 .. received
  <2>1. ToSet(got) \subseteq OnTheirWay /\ OnTheirWay \subseteq 1 .. received
    BY DEF Stream, Accounted, OnTheirWay
  <2>2. QED
    BY <2>1, NoMessage
<1>2. Messages'
    BY <1>1 DEF Stream, Messages
<1>3. Sorted'
    BY <1>1 DEF Stream, Sorted, Before
<1>4. ToSet(got) \cap (ToSet(delivered) \cup ToSet(putting) \cup ToSet(queue)) = {}
  <2>1. ASSUME NEW x \in ToSet(got),
               x \in ToSet(delivered) \cup ToSet(putting) \cup ToSet(queue)
        PROVE  FALSE
    <3>1. x < x
      BY <2>1 DEF Stream, Sorted, Before
    <3>2. x \in Int
      BY <1>1, <2>1
    <3>3. QED
      BY <3>1, <3>2
  <2>2. QED
    BY <2>1
<1>5. Accounted'
    BY <1>1, <1>4 DEF Stream, Accounted, OnTheirWay, Gone
<1>6. QED
    BY <1>2, <1>3, <1>5 DEF Stream

\* Numbers stay numbers of frames when one more arrives.
LEMMA SeqGrows ==
    ASSUME NEW n \in Nat, NEW s \in Seq(1 .. n)
    PROVE  s \in Seq(1 .. (n + 1))
<1>1. \A i \in 1 .. Len(s) : s[i] \in 1 .. (n + 1)
    OBVIOUS
<1>2. QED
    BY <1>1

LEMMA StationSets ==
    ASSUME Messages, received \in Nat
    PROVE  /\ ToSet(delivered) \subseteq 1 .. received
           /\ ToSet(got) \subseteq 1 .. received
           /\ ToSet(queue) \subseteq 1 .. received
           /\ ToSet(putting) \subseteq 1 .. received
BY DEF Messages, ToSet

\* A frame that is counted: queued, held by put, or not understood.
LEMMA FrameArrives ==
    ASSUME Stream, received \in Nat, received' = received + 1, putting = <<>>,
           UNCHANGED <<delivered, got, dropped, lost>>,
           \/ /\ queue' = Append(queue, received + 1) /\ Len(queue) < QueueMaxSize
              /\ UNCHANGED <<putting, unparsed>>
           \/ putting' = <<received + 1>> /\ UNCHANGED <<queue, unparsed>>
           \/ unparsed' = unparsed \cup {received + 1} /\ UNCHANGED <<queue, putting>>
    PROVE  Stream'
<1> DEFINE n == received + 1
<1>1. /\ ToSet(delivered) \subseteq 1 .. received /\ ToSet(got) \subseteq 1 .. received
      /\ ToSet(queue) \subseteq 1 .. received
      /\ ToSet(putting) = {} /\ n \in Nat
    BY StationSets, NoMessage DEF Stream
<1>2. /\ delivered \in Seq(1 .. n) /\ got \in Seq(1 .. n)
      /\ queue \in Seq(1 .. n) /\ putting \in Seq(1 .. n)
    BY SeqGrows DEF Stream, Messages
<1>3. /\ Gone \subseteq 1 .. received
      /\ OnTheirWay \cup Gone = 1 .. received /\ OnTheirWay \cap Gone = {}
      /\ 1 .. received' = (1 .. received) \cup {n} /\ n \notin 1 .. received
    BY DEF Stream, Accounted
<1>4. <<n>> \in Seq(1 .. n) /\ Len(<<n>>) = 1 /\ ToSet(<<n>>) = {n} /\ Ordered(<<n>>)
  <2>1. n \in 1 .. n
    BY DEF Stream
  <2> HIDE DEF n
  <2>2. QED
    BY <2>1, OneMessage
<1>5. CASE /\ queue' = Append(queue, received + 1) /\ Len(queue) < QueueMaxSize
           /\ UNCHANGED <<putting, unparsed>>
  <2>1. Ordered(queue) /\ Before(ToSet(queue), {n}) /\ n \in 1 .. n
    BY <1>1 DEF Stream, Sorted, Before
  <2>2. /\ queue' \in Seq(1 .. n) /\ Len(queue') = Len(queue) + 1
        /\ ToSet(queue') = ToSet(queue) \cup {n} /\ Ordered(queue')
    <3>1. queue' = Append(queue, n)
      BY <1>5
    <3>2. n \in Nat /\ n \in 1 .. n /\ queue \in Seq(1 .. n)
      BY <1>1, <1>2, <2>1
    <3> HIDE DEF n
    <3>3. QED
      BY <2>1, <3>1, <3>2, AppendFacts
  <2>3. Messages'
    BY <1>2, <1>3, <1>5, <2>2, WsAssumption DEF Stream, Messages, Gone
  <2>4. Sorted'
    BY <1>1, <1>5, <2>2 DEF Stream, Sorted, Before
  <2>5. Accounted'
    BY <1>1, <1>3, <1>5, <2>2 DEF Accounted, OnTheirWay, Gone
  <2>6. QED
    BY <2>3, <2>4, <2>5 DEF Stream
<1>6. CASE putting' = <<received + 1>> /\ UNCHANGED <<queue, unparsed>>
  <2>1. ToSet(putting') = {n} /\ Ordered(putting') /\ putting' \in Seq(1 .. n)
        /\ Len(putting') = 1
    BY <1>4, <1>6
  <2>2. Messages'
    BY <1>2, <1>3, <1>6, <2>1 DEF Stream, Messages, Gone
  <2>3. Sorted'
    BY <1>1, <1>6, <2>1 DEF Stream, Sorted, Before
  <2>4. Accounted'
    BY <1>1, <1>3, <1>6, <2>1 DEF Accounted, OnTheirWay, Gone
  <2>5. QED
    BY <2>2, <2>3, <2>4 DEF Stream
<1>7. CASE unparsed' = unparsed \cup {received + 1} /\ UNCHANGED <<queue, putting>>
  <2>1. Messages'
    BY <1>2, <1>3, <1>7 DEF Stream, Messages, Gone
  <2>2. Sorted'
    BY <1>7 DEF Stream, Sorted
  <2>3. Accounted'
    BY <1>1, <1>3, <1>7 DEF Accounted, OnTheirWay, Gone
  <2>4. QED
    BY <2>1, <2>2, <2>3 DEF Stream
<1>8. QED
    BY <1>5, <1>6, <1>7

\* put resumes: what it held goes to the end of the queue.
LEMMA PutIsQueued ==
    ASSUME Stream, received \in Nat, Len(queue) < QueueMaxSize,
           queue' = queue \o putting, putting' = <<>>,
           UNCHANGED <<delivered, got, gone, received>>
    PROVE  Stream'
<1>1. /\ ToSet(putting') = {} /\ Ordered(putting')
      /\ queue' \in Seq(1 .. received) /\ ToSet(queue') = ToSet(queue) \cup ToSet(putting)
    BY NoMessage, ConcatSet DEF Stream, Messages
<1>2. Ordered(queue')
  <2>1. queue \in Seq(Int) /\ putting \in Seq(Int)
    BY DEF Stream, Messages
  <2>2. QED
    BY <2>1, ConcatOrdered DEF Stream, Sorted
<1>3. Messages'
  <2>1. Len(queue') = Len(queue) + Len(putting)
    BY DEF Stream, Messages
  <2>2. QED
    BY <1>1, <2>1, WsAssumption DEF Stream, Messages, gone
<1>4. Sorted'
    BY <1>1, <1>2 DEF Stream, Sorted, Before
<1>5. Accounted'
    BY <1>1 DEF Stream, Accounted, OnTheirWay, Gone, gone
<1>6. QED
    BY <1>3, <1>4, <1>5 DEF Stream

\* The helper task takes the oldest message of the queue.
LEMMA HeadIsTaken ==
    ASSUME Stream, received \in Nat, queue # <<>>, got = <<>>,
           got' = <<Head(queue)>>, queue' = Tail(queue),
           UNCHANGED <<delivered, putting, gone, received>>
    PROVE  Stream'
<1>1. /\ Head(queue) \in 1 .. received /\ queue' \in Seq(1 .. received)
      /\ Len(queue') = Len(queue) - 1 /\ Ordered(queue')
      /\ ToSet(queue) = {Head(queue)} \cup ToSet(queue')
      /\ Before({Head(queue)}, ToSet(queue'))
  <2>1. 1 .. received \in SUBSET Int /\ queue \in Seq(1 .. received) /\ Ordered(queue)
    BY DEF Stream, Messages, Sorted
  <2>2. QED
    BY <2>1, HeadTail
<1>2. /\ got' \in Seq(1 .. received) /\ Len(got') = 1
      /\ ToSet(got') = {Head(queue)} /\ Ordered(got') /\ ToSet(got) = {}
    BY <1>1, OneMessage, NoMessage
<1>3. Messages'
    BY <1>1, <1>2, WsAssumption DEF Stream, Messages, gone
<1>4. Sorted'
    BY <1>1, <1>2 DEF Stream, Sorted, Before
<1>5. Accounted'
    BY <1>1, <1>2 DEF Stream, Accounted, OnTheirWay, Gone, gone
<1>6. QED
    BY <1>3, <1>4, <1>5 DEF Stream

\* stream() yields what its helper took.
LEMMA GotIsYielded ==
    ASSUME Stream, received \in Nat, delivered' = delivered \o got, got' = <<>>,
           UNCHANGED <<queue, putting, gone, received>>
    PROVE  Stream'
<1>1. /\ ToSet(got') = {} /\ Ordered(got')
      /\ delivered' \in Seq(1 .. received)
      /\ ToSet(delivered') = ToSet(delivered) \cup ToSet(got)
    BY NoMessage, ConcatSet DEF Stream, Messages
<1>2. Ordered(delivered')
  <2>1. delivered \in Seq(Int) /\ got \in Seq(Int)
    BY DEF Stream, Messages
  <2>2. QED
    BY <2>1, ConcatOrdered DEF Stream, Sorted
<1>3. Messages'
    BY <1>1 DEF Stream, Messages, gone
<1>4. Sorted'
    BY <1>1, <1>2 DEF Stream, Sorted, Before
<1>5. Accounted'
    BY <1>1 DEF Stream, Accounted, OnTheirWay, Gone, gone
<1>6. QED
    BY <1>3, <1>4, <1>5 DEF Stream

\* Once the main task is gone, stream() yields from the queue itself.
LEMMA HeadIsYielded ==
    ASSUME Stream, received \in Nat, queue # <<>>, got = <<>>,
           delivered' = Append(delivered, Head(queue)), queue' = Tail(queue),
           UNCHANGED <<got, putting, gone, received>>
    PROVE  Stream'
<1> DEFINE h == Head(queue)
<1>1. /\ h \in 1 .. received /\ queue' \in Seq(1 .. received)
      /\ Len(queue') = Len(queue) - 1 /\ Ordered(queue')
      /\ ToSet(queue) = {h} \cup ToSet(queue')
      /\ Before({h}, ToSet(queue'))
  <2>1. 1 .. received \in SUBSET Int /\ queue \in Seq(1 .. received) /\ Ordered(queue)
    BY DEF Stream, Messages, Sorted
  <2>2. QED
    BY <2>1, HeadTail
<1>2. delivered \in Seq(1 .. received) /\ ToSet(got) = {}
    BY NoMessage DEF Stream, Messages
<1>3. Ordered(delivered) /\ Before(ToSet(delivered), {h})
    BY <1>1 DEF Stream, Sorted, Before
<1> HIDE DEF h
<1>4. /\ delivered' \in Seq(1 .. received)
      /\ ToSet(delivered') = ToSet(delivered) \cup {h} /\ Ordered(delivered')
    BY <1>1, <1>2, <1>3, AppendFacts DEF h
<1>5. Messages'
    BY <1>1, <1>4, WsAssumption DEF Stream, Messages, gone
<1>6. Sorted'
    BY <1>1, <1>2, <1>4 DEF Stream, Sorted, Before
<1>7. Accounted'
    BY <1>1, <1>4 DEF Stream, Accounted, OnTheirWay, Gone, gone
<1>8. QED
    BY <1>5, <1>6, <1>7 DEF Stream

-----------------------------------------------------------------------------
(* Every step is one of these moves.                                       *)
LEMMA StreamStep == StreamInv /\ [Next]_vars => Stream'
<1> SUFFICES ASSUME StreamInv, [Next]_vars PROVE Stream'
    OBVIOUS
<1>1. Stream /\ Places /\ Modes /\ received \in Nat
    BY DEF StreamInv, Stream, Counters
<1>2. CASE UNCHANGED <<delivered, got, queue, putting, unparsed, dropped, lost, received>>
    BY <1>1, <1>2, NothingMoves DEF pipes, gone
<1>3. CASE Enter
  <2>1. received = 0 /\ queue' = <<>>
    BY <1>1, <1>3 DEF Enter, Places
  <2>2. queue = <<>>
    BY <1>1, <2>1 DEF Stream, Messages
  <2>3. QED
    BY <1>2, <1>3, <2>1, <2>2 DEF Enter, counts, consumerVars, history, gone
<1>4. CASE Close \/ ConnectOk \/ BackoffElapses \/ NextMessage \/ MainTaskEnded
  <2>1. UNCHANGED <<delivered, got, queue, putting, unparsed, dropped, lost, received>>
    BY <1>1, <1>4 DEF Close, ConnectOk, BackoffElapses, NextMessage, MainTaskEnded, Places,
                      mainVars, counts, consumerVars, history, gone
  <2>2. QED
    BY <1>2, <2>1
<1>5. CASE ConnectFails \/ ConnectTimesOut
    BY <1>2, <1>5 DEF ConnectFails, ConnectTimesOut, counts, consumerVars, gone
<1>6. ASSUME NEW frame \in Frames, Frame(frame) \/ FrameRaises(frame) PROVE Stream'
  <2>1. /\ main = "reading" /\ received' = received + 1
        /\ UNCHANGED <<delivered, got, lost>>
    BY <1>6 DEF Frame, FrameRaises, Running, Counted, consumerVars, history, gone
  <2>2. putting = <<>>
    BY <1>1, <2>1 DEF Places
  <2>3. CASE Frame(frame)
    BY <1>1, <2>1, <2>2, <2>3, FrameArrives DEF Frame, HasRoom, history, gone
  <2>4. CASE FrameRaises(frame)
    <3>1. dropped' = dropped /\ putting' = putting
      BY <2>2, <2>4, NoMessage DEF FrameRaises, LeaveRunOne
    <3>2. unparsed' = unparsed \cup {received + 1} /\ UNCHANGED queue
      BY <2>4 DEF FrameRaises
    <3>3. QED
      BY <1>1, <2>1, <2>2, <3>1, <3>2, FrameArrives
  <2>5. QED
    BY <1>6, <2>3, <2>4
<1>7. CASE PutResumes
    BY <1>1, <1>7, PutIsQueued DEF PutResumes, HasRoom, counts, consumerVars, history
<1>8. CASE ServerCloses \/ ConnectionDrops \/ CapReached \/ Cancelled
  <2>1. /\ putting' = <<>> /\ dropped' = dropped \cup ToSet(putting)
        /\ UNCHANGED <<delivered, got, queue, received, unparsed, lost>>
    BY <1>8 DEF ServerCloses, ConnectionDrops, CapReached, Cancelled, LeaveRunOne,
                counts, consumerVars
  <2>2. QED
    BY <1>1, <2>1, PutIsDropped
<1>9. CASE GetterTakes
  <2>1. got = <<>>
    BY <1>1, <1>9 DEF GetterTakes, Places
  <2>2. QED
    BY <1>1, <1>9, <2>1, HeadIsTaken DEF GetterTakes, mainVars, counts, history
<1>10. CASE YieldsMessage
    BY <1>1, <1>10, GotIsYielded DEF YieldsMessage, mainVars, counts
<1>11. CASE Drains
  <2>1. got = <<>> /\ UNCHANGED <<got, putting, gone, received>>
    BY <1>1, <1>11 DEF Drains, Places, mainVars, counts
  <2>2. CASE queue = <<>>
    BY <1>2, <1>11, <2>1, <2>2 DEF Drains, gone
  <2>3. CASE queue # <<>>
    BY <1>1, <1>11, <2>1, <2>3, HeadIsYielded DEF Drains
  <2>4. QED
    BY <2>2, <2>3
<1>12. CASE ConsumerCancelled
    BY <1>1, <1>12, GotIsLost DEF ConsumerCancelled, mainVars, counts
<1>13. CASE UNCHANGED vars
    BY <1>2, <1>13 DEF vars, mainVars, counts, consumerVars, history, gone
<1>14. QED
    BY <1>3, <1>4, <1>5, <1>6, <1>7, <1>8, <1>9, <1>10, <1>11, <1>12, <1>13
       DEF Next, MainStep, ConsumerStep

LEMMA StreamInvAlways == Spec => []StreamInv
<1>1. StreamInv /\ [Next]_vars => StreamInv'
    BY ModesStep, CountersStep, PlacesStep, StreamStep DEF StreamInv, Stream
<1>2. QED
    BY <1>1, StreamInvInit, PTL DEF Spec

-----------------------------------------------------------------------------
(* Type correctness; the queue never exceeds its maxsize.                  *)
THEOREM WsTypeCorrect == Spec => []TypeOK
<1>1. StreamInv => TypeOK
  <2> SUFFICES ASSUME Modes, Counters, Messages PROVE TypeOK
    BY DEF StreamInv
  <2>1. /\ received \in Nat /\ received <= MaxFrames /\ MaxFrames \in Nat
        /\ 1 .. received \subseteq 1 .. MaxFrames
    BY WsAssumption DEF Counters
  <2>2. /\ queue \in Seq(1 .. MaxFrames) /\ putting \in Seq(1 .. MaxFrames)
        /\ got \in Seq(1 .. MaxFrames) /\ delivered \in Seq(1 .. MaxFrames)
    BY <2>1 DEF Messages
  <2>3. byKind \in [Kinds -> 0 .. MaxFrames]
    <3>1. \A k \in Kinds : byKind[k] \in 0 .. MaxFrames
      BY <2>1 DEF Counters
    <3>2. QED
      BY <3>1 DEF Counters
  <2>4. {attempt, currentAttempt, reconnectCount, received, failures, cancels} \subseteq Nat
    BY <2>1 DEF Counters
  <2>5. QED
    BY <2>1, <2>2, <2>3, <2>4 DEF TypeOK, Modes, Messages
<1>2. QED
    BY <1>1, StreamInvAlways, PTL

(* Messages come out of stream() once and in the order of arrival, through *)
(* reconnects, the cap, close and cancelled consumers, and each counted    *)
(* message is delivered, on its way, or accounted as dropped or lost.      *)
THEOREM MessagesInOrderOnce == Spec => []InOrderOnce
<1>1. StreamInv => InOrderOnce
  <2> SUFFICES ASSUME Messages, Sorted, Accounted, received \in Nat PROVE InOrderOnce
    BY DEF StreamInv, Counters
  <2> DEFINE a == delivered \o got
             b == a \o queue
             c == b \o putting
  <2>1. /\ delivered \in Seq(Int) /\ got \in Seq(Int)
        /\ queue \in Seq(Int) /\ putting \in Seq(Int)
    BY DEF Messages
  <2>2. /\ Ordered(delivered) /\ Ordered(got) /\ Ordered(queue) /\ Ordered(putting)
        /\ Before(ToSet(delivered), ToSet(got))
    BY DEF Sorted
  <2>3. a \in Seq(Int) /\ Ordered(a) /\ ToSet(a) = ToSet(delivered) \cup ToSet(got)
    BY <2>1, <2>2, ConcatAscending
  <2>4. Before(ToSet(a), ToSet(queue)) /\ Before(ToSet(a), ToSet(putting))
    BY <2>3 DEF Sorted, Before
  <2>5. b \in Seq(Int) /\ Ordered(b) /\ ToSet(b) = ToSet(a) \cup ToSet(queue)
    <3> HIDE DEF a
    <3>1. QED
      BY <2>1, <2>2, <2>3, <2>4, ConcatAscending
  <2>6. Ordered(c) /\ ToSet(c) = ToSet(b) \cup ToSet(putting)
    <3> HIDE DEF b
    <3>1. Before(ToSet(b), ToSet(putting))
      BY <2>4, <2>5 DEF Sorted, Before
    <3>2. QED
      BY <2>1, <2>2, <2>5, <3>1, ConcatAscending
  <2> HIDE DEF a, b, c
  <2>7. Pipeline = c
    BY DEF Pipeline, a, b, c
  <2>8. ToSet(Pipeline) = OnTheirWay
    BY <2>3, <2>5, <2>6, <2>7 DEF OnTheirWay
  <2>9. Ordered(Pipeline)
    BY <2>6, <2>7
  <2>10. QED
    BY <2>8, <2>9 DEF InOrderOnce, Ordered, Accounted, Gone
<1>2. QED
    BY <1>1, StreamInvAlways, PTL

-----------------------------------------------------------------------------
(* The counters and the clock of WsMetrics.                                *)
ByKind == byKind["kline"] + byKind["bookTicker"] + byKind["trade"] + byKind["unknown"]

Clock ==
    /\ main \in {"reading", "putting"} => connectedSince = TRUE
    /\ main \notin {"reading", "putting"} => connectedSince = FALSE

Tally == IsFiniteSet(unparsed) /\ ByKind + Cardinality(unparsed) = received

MetricsInv == Clock /\ Tally

\* A kind counted is one more in the sum.
LEMMA OneMoreOfAKind ==
    ASSUME Counters, NEW kind \in Kinds, Counted(kind)
    PROVE  ByKind' = ByKind + 1
<1>1. byKind' = [byKind EXCEPT ![kind] = byKind[kind] + 1]
    BY DEF Counted
<1>2. kind \in {"kline", "bookTicker", "trade", "unknown"}
    BY DEF Kinds, Proper
<1>3. /\ byKind \in [Kinds -> Nat]
      /\ {"kline", "bookTicker", "trade", "unknown"} \subseteq Kinds
    BY DEF Counters, Kinds, Proper
<1>4. \A k \in Kinds : byKind'[k] = IF k = kind THEN byKind[k] + 1 ELSE byKind[k]
    BY <1>1, <1>3
<1>5. \A k \in Kinds : byKind[k] \in Nat
    BY <1>3
<1>6. QED
    BY <1>2, <1>3, <1>4, <1>5 DEF ByKind

LEMMA ClockStep == Clock /\ [Next]_vars => Clock'
<1> SUFFICES ASSUME Clock, [Next]_vars PROVE Clock'
    OBVIOUS
<1>1. CASE UNCHANGED <<connectedSince, main>>
    BY <1>1 DEF Clock
<1>2. CASE Enter
    BY <1>2 DEF Enter, Clock
<1>3. CASE Close \/ ConsumerStep \/ ConsumerCancelled \/ UNCHANGED vars
    BY <1>1, <1>3 DEF Close, ConsumerStep, NextMessage, GetterTakes, YieldsMessage,
                      MainTaskEnded, Drains, ConsumerCancelled, vars, mainVars
<1>4. CASE ConnectOk
    BY <1>4 DEF ConnectOk, Clock
<1>5. CASE ConnectFails \/ ConnectTimesOut
    BY <1>5 DEF ConnectFails, ConnectTimesOut, Running, BackOff, ReconnectAtOnce, Clock
<1>6. ASSUME NEW frame \in Frames, Frame(frame) PROVE Clock'
  <2>1. /\ main = "reading" /\ main' \in {"reading", "putting"}
        /\ UNCHANGED connectedSince
    BY <1>6 DEF Frame, Running
  <2>2. QED
    BY <2>1 DEF Clock
<1>7. ASSUME NEW frame \in Frames, FrameRaises(frame) PROVE Clock'
    BY <1>7 DEF FrameRaises, BackOff, LeaveRunOne, Clock
<1>8. CASE PutResumes
    BY <1>8 DEF PutResumes, Running, Clock
<1>9. CASE ServerCloses \/ ConnectionDrops \/ CapReached
    BY <1>9 DEF ServerCloses, ConnectionDrops, CapReached, BackOff, ReconnectAtOnce,
                 LeaveRunOne, Clock
<1>10. CASE BackoffElapses
    BY <1>10 DEF BackoffElapses, Running, Clock
<1>11. CASE Cancelled
    BY <1>11 DEF Cancelled, LeaveRunOne, Clock
<1>12. QED
    BY <1>1, <1>2, <1>3, <1>4, <1>5, <1>6, <1>7, <1>8, <1>9, <1>10, <1>11 DEF Next, MainStep

LEMMA TallyStep == StreamInv /\ Tally /\ [Next]_vars => Tally'
<1> SUFFICES ASSUME StreamInv, Tally, [Next]_vars PROVE Tally'
    OBVIOUS
<1>1. Cardinality(unparsed) \in Nat /\ ByKind \in Int /\ received \in Nat
  <2>1. \A k \in {"kline", "bookTicker", "trade", "unknown"} : byKind[k] \in Nat
    BY DEF StreamInv, Counters, Kinds, Proper
  <2>2. ByKind \in Int
    BY <2>1 DEF ByKind
  <2>3. Cardinality(unparsed) \in Nat
    BY FS_CardinalityType DEF Tally
  <2>4. received \in Nat
    BY DEF StreamInv, Counters
  <2>5. QED
    BY <2>2, <2>3, <2>4
<1>2. CASE UNCHANGED <<byKind, received, unparsed>>
    BY <1>2 DEF Tally, ByKind
<1>3. ASSUME NEW frame \in Frames, Frame(frame) PROVE Tally'
  <2>1. Counted(Parsed(frame)) /\ received' = received + 1 /\ unparsed' = unparsed
    BY <1>3 DEF Frame, Counted, history, gone
  <2>2. Parsed(frame) \in Kinds
    <3>1. frame \in Proper \cup Broken \cup Strange /\ Parsed(frame) # "raises"
      BY <1>3, WsAssumption DEF Frame
    <3>2. QED
      BY <3>1 DEF Parsed, Kinds
  <2>3. ByKind' = ByKind + 1
    BY <2>1, <2>2, OneMoreOfAKind DEF StreamInv
  <2>4. QED
    BY <1>1, <2>1, <2>3 DEF Tally
<1>4. ASSUME NEW frame \in Frames, FrameRaises(frame) PROVE Tally'
  <2>1. received' = received + 1 /\ unparsed' = unparsed \cup {received + 1}
    BY <1>4 DEF FrameRaises, Counted
  <2>2. ByKind' = ByKind
    <3>1. "raises" \notin Kinds
      BY DEF Kinds, Proper
    <3>2. byKind' = byKind
      BY <1>4, <3>1 DEF FrameRaises, Counted
    <3>3. QED
      BY <3>2 DEF ByKind
  <2>3. received + 1 \notin unparsed
    BY <1>1 DEF StreamInv, Messages
  <2>4. /\ IsFiniteSet(unparsed \cup {received + 1})
        /\ Cardinality(unparsed \cup {received + 1}) = Cardinality(unparsed) + 1
    BY <2>3, FS_AddElement DEF Tally
  <2>5. QED
    BY <1>1, <2>1, <2>2, <2>4 DEF Tally
<1> USE DEF mainVars, counts, gone, history, BackOff, ReconnectAtOnce, LeaveRunOne
<1>5. CASE Enter \/ Close \/ ConsumerStep \/ ConsumerCancelled \/ UNCHANGED vars
    BY <1>2, <1>5 DEF Enter, Close, ConsumerStep, NextMessage, GetterTakes, YieldsMessage,
                      MainTaskEnded, Drains, ConsumerCancelled, vars
<1>6. CASE \/ ConnectOk \/ ConnectFails \/ ConnectTimesOut \/ PutResumes
           \/ ServerCloses \/ ConnectionDrops \/ CapReached \/ BackoffElapses \/ Cancelled
    BY <1>2, <1>6 DEF ConnectOk, ConnectFails, ConnectTimesOut, PutResumes, ServerCloses,
                      ConnectionDrops, CapReached, BackoffElapses, Cancelled
<1>7. QED
    BY <1>3, <1>4, <1>5, <1>6 DEF Next, MainStep

LEMMA MetricsStep == StreamInv /\ MetricsInv /\ [Next]_vars => MetricsInv'
BY ClockStep, TallyStep DEF MetricsInv

(* The clock of WsMetrics runs exactly while connected, and the counts by  *)
(* kind add up to the messages received but for those whose parsing raised *)
(* (binance_ws.py:598-619).                                                *)
THEOREM MetricsAgree == Spec => []ClockAndCountsAgree
<1>1. Init => MetricsInv
  <2> SUFFICES ASSUME Init PROVE MetricsInv
    OBVIOUS
  <2>1. ByKind = 0 /\ Cardinality(unparsed) = 0 /\ IsFiniteSet(unparsed)
    BY FS_EmptySet DEF Init, ByKind, Kinds, Proper
  <2>2. Tally
    BY <2>1 DEF Init, Tally
  <2>3. Clock
    <3>1. main = "none"
      BY DEF Init
    <3>2. connectedSince = FALSE
      BY DEF Init
    <3>3. QED
      BY <3>1, <3>2 DEF Clock
  <2>4. QED
    BY <2>2, <2>3 DEF MetricsInv
<1>2. MetricsInv => ClockAndCountsAgree
  <2>1. Clock => connectedSince = Connected
    <3>1. Connected => (Connected = TRUE)
      BY Zenon DEF Connected
    <3>2. ~Connected => (Connected = FALSE)
      BY SMT DEF Connected
    <3>3. Clock => /\ Connected => connectedSince = TRUE
                   /\ ~Connected => connectedSince = FALSE
      BY Zenon DEF Clock, Connected
    <3>4. QED
      BY <3>1, <3>2, <3>3, Zenon
  <2>2. QED
    BY <2>1, Zenon DEF MetricsInv, Clock, Tally, ClockAndCountsAgree, ByKind
<1>3. Init => StreamInv
    BY StreamInvInit
<1>4. QED
    BY <1>1, <1>2, MetricsStep, StreamInvAlways, PTL DEF Spec

-----------------------------------------------------------------------------
(* The bounded first-in first-out buffer of MessageStream.                 *)
\* A step that neither counts a message nor moves one that was queued.
LEMMA SameStream ==
    ASSUME UNCHANGED <<received, got, queue, delivered, cancels>>
    PROVE  UNCHANGED Promised!vars
BY DEF Promised!vars

\* A place for one message.
LEMMA OneOrNone ==
    ASSUME NEW S, NEW s \in Seq(S), Len(s) <= 1, s # <<>>
    PROVE  \E x \in S : s = <<x>>
<1>1. Len(s) = 1
  <2>1. Len(s) \in Nat \ {0}
    BY EmptySeq
  <2>2. QED
    BY <2>1
<1>2. s[1] \in S
    BY <1>1, ElementOfSeq
<1>3. s = <<s[1]>>
    BY <1>1, <1>2
<1>4. QED
    BY <1>2, <1>3

\* A message at the end of the queue is one that waits, after all others.
LEMMA QueueGrows ==
    ASSUME Stream, NEW m \in Nat, Len(queue) < QueueMaxSize, queue' = Append(queue, m),
           UNCHANGED <<got, delivered>>,
           \A x \in ToSet(delivered) \cup ToSet(got) \cup ToSet(queue) : x < m
    PROVE  Promised!Queued(m)
<1>1. /\ got \in Seq(Nat) /\ queue \in Seq(Nat) /\ Len(got) <= 1
      /\ Len(got) \in Nat /\ Len(queue) \in Nat /\ QueueMaxSize \in Nat
  <2>1. /\ got \in Seq(1 .. received) /\ queue \in Seq(1 .. received)
        /\ Len(got) <= 1 /\ QueueMaxSize \in Nat /\ 1 .. received \subseteq Nat
    BY WsAssumption DEF Stream, Messages
  <2>2. got \in Seq(Nat) /\ queue \in Seq(Nat)
    BY <2>1, SeqMonotonic
  <2>3. QED
    BY <2>1, <2>2, LenProperties
<1>2. Len(got \o queue) = Len(got) + Len(queue)
    BY <1>1
<1>3. ToSet(got \o queue) = ToSet(got) \cup ToSet(queue)
    BY <1>1, ConcatSet
<1>4. got' \o queue' = Append(got \o queue, m)
    BY <1>1
<1>5. Len(got \o queue) <= QueueMaxSize
    BY <1>1, <1>2
<1>6. delivered' = delivered /\ \A x \in ToSet(delivered) \cup ToSet(got \o queue) : x < m
    BY <1>3
<1>7. QED
    BY <1>4, <1>5, <1>6 DEF Promised!Queued, ToSet, Promised!ToSet

\* The helper task takes the head: what waits is the same.
LEMMA HeadStillWaits ==
    ASSUME NEW S, queue \in Seq(S), queue # <<>>, got = <<>>,
           got' = <<Head(queue)>>, queue' = Tail(queue)
    PROVE  got' \o queue' = got \o queue
<1>1. \A q \in Seq(S) : <<>> \o q = q
    OBVIOUS
<1>2. <<Head(queue)>> \o Tail(queue) = queue
    OBVIOUS
<1>3. QED
    BY <1>1, <1>2

\* The message in the hand of the helper task is the oldest that waits.
LEMMA GotIsFirst ==
    ASSUME NEW S, queue \in Seq(S), got \in Seq(S), got # <<>>, Len(got) <= 1
    PROVE  /\ got \o queue # <<>>
           /\ got = <<Head(got \o queue)>> /\ Tail(got \o queue) = queue
<1>1. PICK x \in S : got = <<x>>
    BY OneOrNone
<1>2. /\ <<x>> \o queue # <<>> /\ Head(<<x>> \o queue) = x
      /\ Tail(<<x>> \o queue) = queue
    OBVIOUS
<1>3. QED
    BY <1>1, <1>2

LEMMA StreamMoves == StreamInv /\ [Next]_vars => [Promised!Next]_(Promised!vars)
<1> SUFFICES ASSUME StreamInv, [Next]_vars PROVE [Promised!Next]_(Promised!vars)
    OBVIOUS
<1>1. /\ Stream /\ Places /\ received \in Nat
      /\ queue \in Seq(1 .. received) /\ got \in Seq(1 .. received)
      /\ putting \in Seq(1 .. received) /\ delivered \in Seq(1 .. received)
      /\ Len(got) <= 1 /\ Len(putting) <= 1
    BY DEF StreamInv, Stream, Counters, Messages
<1>2. /\ ToSet(delivered) \subseteq 1 .. received /\ ToSet(got) \subseteq 1 .. received
      /\ ToSet(queue) \subseteq 1 .. received
    BY <1>1, StationSets DEF Stream
<1>3. CASE UNCHANGED <<received, got, queue, delivered, cancels>>
    BY <1>3, SameStream
<1>4. CASE Enter
  <2>1. received = 0 /\ queue' = <<>>
    BY <1>1, <1>4 DEF Enter, Places
  <2>2. queue = <<>>
    BY <1>1, <2>1
  <2>3. QED
    BY <1>3, <1>4, <2>1, <2>2 DEF Enter, counts, consumerVars, history
<1>5. ASSUME NEW frame \in Frames, Frame(frame) \/ FrameRaises(frame)
      PROVE  Promised!Arrive
  <2>1. /\ received' = received + 1
        /\ UNCHANGED <<got, delivered, cancels>>
    BY <1>5 DEF Frame, FrameRaises, Counted, consumerVars, history
  <2>2. CASE Frame(frame) /\ HasRoom
    <3>1. queue' = Append(queue, received + 1) /\ Len(queue) < QueueMaxSize
      BY <2>2 DEF Frame, HasRoom
    <3>2. \A x \in ToSet(delivered) \cup ToSet(got) \cup ToSet(queue) : x < received + 1
      BY <1>1, <1>2
    <3>3. Promised!Queued(received + 1)
      BY <1>1, <2>1, <3>1, <3>2, QueueGrows
    <3>4. QED
      BY <2>1, <3>3 DEF Promised!Arrive
  <2>3. CASE FrameRaises(frame) \/ ~HasRoom
    <3>1. queue' = queue
      BY <1>5, <2>3 DEF Frame, FrameRaises
    <3>2. QED
      BY <2>1, <3>1 DEF Promised!Arrive
  <2>4. QED
    BY <1>5, <2>2, <2>3
<1>6. ASSUME PutResumes PROVE [Promised!Next]_(Promised!vars)
  <2>1. /\ queue' = queue \o putting /\ Len(queue) < QueueMaxSize
        /\ UNCHANGED <<received, got, delivered, cancels>>
    BY <1>6 DEF PutResumes, HasRoom, counts, consumerVars, history
  <2>2. CASE putting = <<>>
    <3>1. queue' = queue
      BY <1>1, <2>1, <2>2
    <3>2. QED
      BY <1>3, <2>1, <3>1
  <2>3. CASE putting # <<>>
    <3>1. PICK m \in 1 .. received : putting = <<m>>
      BY <1>1, <2>3, OneOrNone
    <3>2. queue' = Append(queue, m)
      BY <1>1, <2>1, <3>1
    <3>3. \A x \in ToSet(delivered) \cup ToSet(got) \cup ToSet(queue) : x < m
      <4>1. m \in ToSet(putting)
        BY <3>1 DEF ToSet
      <4>2. QED
        BY <4>1 DEF StreamInv, Sorted, Before
    <3>4. m \in Nat
      BY <3>1
    <3>5. Promised!Queued(m)
      BY <1>1, <2>1, <3>2, <3>3, <3>4, QueueGrows
    <3>6. Promised!QueuedLater
      BY <2>1, <3>1, <3>5 DEF Promised!QueuedLater
    <3>7. QED
      BY <3>6 DEF Promised!Next
  <2>4. QED
    BY <2>2, <2>3
<1>7. CASE GetterTakes
  <2>1. /\ queue # <<>> /\ got = <<>> /\ got' = <<Head(queue)>> /\ queue' = Tail(queue)
        /\ UNCHANGED <<received, delivered, cancels>>
    BY <1>1, <1>7 DEF GetterTakes, Places, mainVars, counts, history
  <2>2. got' \o queue' = got \o queue
    BY <1>1, <2>1, HeadStillWaits
  <2>3. QED
    BY <2>1, <2>2 DEF Promised!vars
<1>8. ASSUME YieldsMessage PROVE [Promised!Next]_(Promised!vars)
  <2>1. /\ delivered' = delivered \o got /\ got' = <<>>
        /\ UNCHANGED <<received, queue, cancels>>
    BY <1>8 DEF YieldsMessage, mainVars, counts
  <2>2. CASE got = <<>>
    <3>1. delivered' = delivered
      BY <1>1, <2>1, <2>2
    <3>2. QED
      BY <1>3, <2>1, <2>2, <3>1
  <2>3. CASE got # <<>>
    <3>1. /\ got \o queue # <<>> /\ got = <<Head(got \o queue)>>
          /\ Tail(got \o queue) = queue
      BY <1>1, <2>3, GotIsFirst
    <3>2. got' \o queue' = queue
      BY <1>1, <2>1
    <3>3. delivered' = Append(delivered, Head(got \o queue))
      <4> DEFINE h == Head(got \o queue)
      <4>1. delivered' = delivered \o <<h>>
        BY <2>1, <3>1, Zenon
      <4> HIDE DEF h
      <4>2. PICK x \in 1 .. received : got = <<x>>
        BY <1>1, <2>3, OneOrNone
      <4>3. h = x
        BY <3>1, <4>2 DEF h
      <4>4. Append(delivered, x) = delivered \o <<x>>
        BY <1>1
      <4>5. QED
        BY <4>1, <4>3, <4>4 DEF h
    <3>4. Promised!Yield
      BY <2>1, <3>1, <3>2, <3>3 DEF Promised!Yield
    <3>5. QED
      BY <3>4 DEF Promised!Next
  <2>4. QED
    BY <2>2, <2>3
<1>9. ASSUME Drains PROVE [Promised!Next]_(Promised!vars)
  <2>1. got = <<>> /\ UNCHANGED <<received, got, cancels>>
    BY <1>1, <1>9 DEF Drains, Places, mainVars, counts
  <2>2. CASE queue = <<>>
    BY <1>3, <1>9, <2>1, <2>2 DEF Drains
  <2>3. CASE queue # <<>>
    <3>1. delivered' = Append(delivered, Head(queue)) /\ queue' = Tail(queue)
      BY <1>9, <2>3 DEF Drains
    <3>2. got \o queue = queue /\ got' \o queue' = queue'
      BY <1>1, <2>1, <3>1
    <3>3. Promised!Yield
      BY <2>1, <2>3, <3>1, <3>2 DEF Promised!Yield
    <3>4. QED
      BY <3>3 DEF Promised!Next
  <2>4. QED
    BY <2>2, <2>3
<1>10. ASSUME ConsumerCancelled PROVE Promised!Cancel
  <2>1. /\ cancels' = cancels + 1 /\ got' = <<>>
        /\ UNCHANGED <<received, queue, delivered>>
    BY <1>10 DEF ConsumerCancelled, mainVars, counts
  <2>2. got' \o queue' = queue
    BY <1>1, <2>1
  <2>3. CASE got = <<>>
    <3>1. got \o queue = queue
      BY <1>1, <2>3
    <3>2. QED
      BY <2>1, <2>2, <3>1 DEF Promised!Cancel
  <2>4. CASE got # <<>>
    BY <1>1, <2>1, <2>2, <2>4, GotIsFirst DEF Promised!Cancel
  <2>5. QED
    BY <2>3, <2>4
<1> USE DEF mainVars, counts, consumerVars, history
<1>11. CASE Close \/ NextMessage \/ MainTaskEnded
  <2>1. UNCHANGED <<received, got, queue, delivered, cancels>>
    BY <1>1, <1>11 DEF Close, NextMessage, MainTaskEnded, Places
  <2>2. QED
    BY <1>3, <2>1
<1>12. CASE \/ ConnectOk \/ ConnectFails \/ ConnectTimesOut \/ ServerCloses
            \/ ConnectionDrops \/ CapReached \/ BackoffElapses \/ Cancelled
    BY <1>3, <1>12 DEF ConnectOk, ConnectFails, ConnectTimesOut, ServerCloses,
                       ConnectionDrops, CapReached, BackoffElapses, Cancelled
<1>13. CASE UNCHANGED vars
    BY <1>3, <1>13 DEF vars
<1>14. QED
    BY <1>4, <1>5, <1>6, <1>7, <1>8, <1>9, <1>10, <1>11, <1>12, <1>13
       DEF Next, MainStep, ConsumerStep, Promised!Next

(* stream() is a bounded first-in first-out buffer for any queue size and  *)
(* any number of frames, failures, reconnects and cancelled consumers: what *)
(* was queued is yielded in order, and only a cancelled consumer makes the *)
(* oldest disappear (binance_ws.py:651-653, :674-693).                     *)
THEOREM RefinesMessageStream == Spec => ImplementsMessageStream
<1>1. Init => Promised!Init
    BY DEF Init, Promised!Init
<1>2. QED
    BY <1>1, StreamMoves, StreamInvAlways, PTL
       DEF Spec, ImplementsMessageStream, Promised!Spec

=============================================================================
