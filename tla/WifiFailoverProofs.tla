------------------------- MODULE WifiFailoverProofs -------------------------
(***************************************************************************)
(* Proofs about WifiFailover, for every number of candidates and retries   *)
(* and every time-out.                                                     *)
(***************************************************************************)
EXTENDS WifiFailover, SequenceTheorems, TLAPS

-----------------------------------------------------------------------------
(* Type correctness.                                                       *)

Event == {"STA_START", "STA_DISCONNECTED", "STA_GOT_IP"}

\* The candidate index stays within WIFI_CANDIDATE_COUNT.
LEMMA NextCandidate ==
    ASSUME NEW i \in Nat
    PROVE  (i + 1) % Candidates \in 0..(Candidates - 1)
<1>1. Candidates \in Nat \ {0}
  BY FailoverAssumption
<1>2. QED
  BY <1>1, Z3

LEMMA TypeInit == Init => TypeOK
<1> SUFFICES ASSUME Init PROVE TypeOK
  OBVIOUS
<1>1. events \in Seq(Event)
  BY DEF Init, Event
<1>2. idx \in 0..(Candidates - 1) /\ failCount \in 0..(MaxRetries - 1) /\ age \in 0..Timeout
  BY FailoverAssumption DEF Init
<1>3. {bit, force, advance} \subseteq BOOLEAN
  BY DEF Init
<1>4. QED
  BY <1>1, <1>2, <1>3 DEF Init, TypeOK, Event

LEMMA TypeStep == TypeOK /\ [Next]_vars => TypeOK'
<1> SUFFICES ASSUME TypeOK, [Next]_vars PROVE TypeOK'
  OBVIOUS
<1>a. ASSUME NEW e \in Event PROVE Append(events, e) \in Seq(Event)
  BY <1>a, AppendProperties DEF TypeOK, Event
<1>1. CASE Associate
  BY <1>1 DEF Associate, TypeOK, shared, handler
<1>2. CASE GetIp
  BY <1>2, <1>a DEF GetIp, TypeOK, shared, handler, Event
<1>3. CASE Lose
  BY <1>3, <1>a DEF Lose, TypeOK, shared, handler, Event
<1>4. CASE Tick
  BY <1>4, FailoverAssumption DEF Tick, TypeOK, Older, handler, driver
<1>5. CASE TakeEvent
  <2>1. Head(events) \in Event /\ Tail(events) \in Seq(Event)
    BY <1>5, HeadTailProperties DEF TakeEvent, TypeOK, Event
  <2>2. hpc' \in {"read", "apply", "gotip"}
    BY <1>5, <2>1 DEF TakeEvent, Event
  <2>3. bit' \in BOOLEAN
    BY <1>5 DEF TakeEvent
  <2>4. QED
    BY <1>5, <2>1, <2>2, <2>3 DEF TakeEvent, TypeOK, Event
<1>6. CASE ReadForce
  BY <1>6 DEF ReadForce, TypeOK, shared, driver
<1>7. CASE Decide
  <2>1. idx' \in 0..(Candidates - 1)
    BY <1>7, NextCandidate DEF Decide, TypeOK
  <2>2. failCount' \in 0..(MaxRetries - 1)
    BY <1>7, FailoverAssumption DEF Decide, TypeOK
  <2>3. hpc' \in {"apply", "connect"}
    BY <1>7 DEF Decide
  <2>4. QED
    BY <1>7, <2>1, <2>2, <2>3 DEF Decide, TypeOK, driver
<1>8. CASE ApplyCandidate
  BY <1>8, FailoverAssumption DEF ApplyCandidate, TypeOK, driver
<1>9. CASE Connect
  BY <1>9 DEF Connect, EspWifiConnect, TypeOK, shared
<1>10. CASE GotIp
  BY <1>10, FailoverAssumption DEF GotIp, TypeOK, driver
<1>11. CASE Poll
  BY <1>11 DEF Poll, TypeOK, shared, handler, driver
<1>12. CASE SetForce
  BY <1>12 DEF SetForce, TypeOK, handler, driver
<1>13. CASE Disconnect
  BY <1>13, <1>a DEF Disconnect, EspWifiDisconnect, TypeOK, shared, handler, driver, Event
<1>14. CASE UNCHANGED vars
  BY <1>14 DEF TypeOK, vars, shared, handler, driver
<1>15. QED
  BY <1>1, <1>2, <1>3, <1>4, <1>5, <1>6, <1>7, <1>8, <1>9, <1>10, <1>11, <1>12, <1>13, <1>14
     DEF Next, WifiEventHandler, NatsTask

\* The two tasks keep the types of what they share, the retries below their limit and
\* the candidate within the table.
THEOREM TypeCorrect == Spec => []TypeOK
BY TypeInit, TypeStep, PTL DEF Spec

-----------------------------------------------------------------------------
(* What is on its way.                                                     *)

Busy == {"read", "decide", "apply", "connect"}
Started == <<"STA_START">>
Lost == <<"STA_DISCONNECTED">>
Got == <<"STA_GOT_IP">>
GotAndLost == <<"STA_GOT_IP", "STA_DISCONNECTED">>

(***************************************************************************)
(* What the event queue can hold.  The driver and the two tasks change its *)
(* state at any time, but there is never more on the way than one attempt  *)
(* leaves behind: an address that was given, and the loss of the link.     *)
(***************************************************************************)
Flow ==
    \/ radio = "idle" /\ ~bit /\ hpc \in Busy /\ events = << >>
    \/ radio = "idle" /\ ~bit /\ hpc = "wait" /\ events = Started
    \/ radio = "idle" /\ hpc = "wait" /\ events = Lost
    \/ radio = "idle" /\ hpc = "wait" /\ events = GotAndLost
    \/ radio = "idle" /\ hpc = "gotip" /\ events = Lost
    \/ radio \in {"connecting", "associated"} /\ ~bit /\ hpc = "wait" /\ events = << >>
    \/ radio = "up" /\ hpc = "wait" /\ events = Got
    \/ radio = "up" /\ hpc = "gotip" /\ events = << >>
    \/ radio = "up" /\ bit /\ hpc = "wait" /\ events = << >>

\* A sequence that has one element more, behind the same ones, is Append's result.
LEMMA AppendIs ==
    ASSUME NEW S, NEW s \in Seq(S), NEW e \in S, NEW t \in Seq(S),
           Len(t) = Len(s) + 1, \A i \in 1..Len(s) : t[i] = s[i], t[Len(s) + 1] = e
    PROVE  Append(s, e) = t
<1> DEFINE u == Append(s, e)
<1>1. u \in Seq(S) /\ Len(u) = Len(s) + 1
  BY AppendProperties
<1>2. (\A i \in 1..Len(s) : u[i] = s[i]) /\ u[Len(s) + 1] = e
  BY AppendProperties
<1> HIDE DEF u
<1>3. Len(u) = Len(t) /\ \A i \in 1..Len(u) : u[i] = t[i]
  BY <1>1, <1>2
<1>4. u = t
  BY <1>1, <1>3, SeqEqual
<1>5. QED
  BY <1>4 DEF u

\* How the queues of Flow grow and shrink.
LEMMA Queues ==
    /\ Started # << >> /\ Lost # << >> /\ Got # << >> /\ GotAndLost # << >>
    /\ Append(<< >>, "STA_DISCONNECTED") = Lost
    /\ Append(<< >>, "STA_GOT_IP") = Got
    /\ Append(Got, "STA_DISCONNECTED") = GotAndLost
    /\ Head(Started) = "STA_START" /\ Tail(Started) = << >>
    /\ Head(Lost) = "STA_DISCONNECTED" /\ Tail(Lost) = << >>
    /\ Head(Got) = "STA_GOT_IP" /\ Tail(Got) = << >>
    /\ Head(GotAndLost) = "STA_GOT_IP" /\ Tail(GotAndLost) = Lost
<1>1. Started # << >> /\ Lost # << >> /\ Got # << >> /\ GotAndLost # << >>
  BY DEF Started, Lost, Got, GotAndLost
<1>2. Append(<< >>, "STA_DISCONNECTED") = Lost /\ Append(<< >>, "STA_GOT_IP") = Got
  BY DEF Started, Lost, Got, GotAndLost
<1>3. Append(Got, "STA_DISCONNECTED") = GotAndLost
  <2>1. Got \in Seq(Event) /\ Len(Got) = 1 /\ Got[1] = "STA_GOT_IP"
    BY DEF Event, Got
  <2>2. GotAndLost \in Seq(Event) /\ Len(GotAndLost) = 2
    BY DEF Event, GotAndLost
  <2>3. GotAndLost[1] = "STA_GOT_IP" /\ GotAndLost[2] = "STA_DISCONNECTED"
    BY DEF GotAndLost
  <2>4. "STA_DISCONNECTED" \in Event
    BY DEF Event
  <2>5. Len(GotAndLost) = Len(Got) + 1
    BY <2>1, <2>2
  <2>6. \A i \in 1..Len(Got) : GotAndLost[i] = Got[i]
    BY <2>1, <2>3
  <2>7. GotAndLost[Len(Got) + 1] = "STA_DISCONNECTED"
    BY <2>1, <2>3
  <2>8. QED
    BY <2>1, <2>2, <2>4, <2>5, <2>6, <2>7, AppendIs
<1>4. Head(Started) = "STA_START" /\ Head(Lost) = "STA_DISCONNECTED"
  BY DEF Started, Lost, Got, GotAndLost
<1>5. Head(Got) = "STA_GOT_IP" /\ Head(GotAndLost) = "STA_GOT_IP"
  BY DEF Started, Lost, Got, GotAndLost
<1>6. Tail(Started) = << >> /\ Tail(Lost) = << >> /\ Tail(Got) = << >>
  BY DEF Started, Lost, Got, GotAndLost
<1>7. Tail(GotAndLost) = Lost
  BY DEF Started, Lost, Got, GotAndLost
<1>8. QED
  BY <1>1, <1>2, <1>3, <1>4, <1>5, <1>6, <1>7

LEMMA FlowInit == Init => Flow
BY DEF Init, Flow, Started

\* A station that is lost or disconnected leaves one event behind.
LEMMA FlowLost ==
    ASSUME Flow, radio # "idle", radio' = "idle",
           events' = Append(events, "STA_DISCONNECTED"), UNCHANGED <<bit, hpc>>
    PROVE  Flow'
BY Queues DEF Flow, Busy

LEMMA FlowStep == TypeOK /\ Flow /\ [Next]_vars => Flow'
<1> SUFFICES ASSUME TypeOK, Flow, [Next]_vars PROVE Flow'
  OBVIOUS
<1>1. CASE Associate
  BY <1>1 DEF Associate, Flow, shared, handler
<1>2. CASE GetIp
  BY <1>2, Queues DEF GetIp, Flow, shared, handler
<1>3. CASE Lose
  BY <1>3, FlowLost DEF Lose, shared, handler
<1>4. CASE Tick
  BY <1>4 DEF Tick, Flow, handler, driver
<1>5. CASE TakeEvent
  <2>1. hpc = "wait" /\ events # << >>
    BY <1>5 DEF TakeEvent
  <2>2. CASE radio = "idle" /\ ~bit /\ events = Started
    BY <1>5, <2>2, Queues DEF TakeEvent, Flow, Busy
  <2>3. CASE radio = "idle" /\ events = Lost
    BY <1>5, <2>3, Queues DEF TakeEvent, Flow, Busy
  <2>4. CASE radio = "idle" /\ events = GotAndLost
    BY <1>5, <2>4, Queues DEF TakeEvent, Flow, Busy
  <2>5. CASE radio = "up" /\ events = Got
    BY <1>5, <2>5, Queues DEF TakeEvent, Flow, Busy
  <2>6. QED
    BY <2>1, <2>2, <2>3, <2>4, <2>5 DEF Flow, Busy
<1>6. CASE ReadForce
  BY <1>6 DEF ReadForce, Flow, Busy, shared, driver
<1>7. CASE Decide
  BY <1>7 DEF Decide, Flow, Busy, driver
<1>8. CASE ApplyCandidate
  BY <1>8 DEF ApplyCandidate, Flow, Busy, driver
<1>9. CASE Connect
  BY <1>9 DEF Connect, EspWifiConnect, Flow, Busy, shared
<1>10. CASE GotIp
  BY <1>10 DEF GotIp, Flow, Busy, driver
<1>11. CASE Poll
  BY <1>11 DEF Poll, Flow, shared, handler, driver
<1>12. CASE SetForce
  BY <1>12 DEF SetForce, Flow, handler, driver
<1>13. CASE Disconnect
  <2>1. CASE radio = "idle"
    BY <1>13, <2>1 DEF Disconnect, EspWifiDisconnect, Flow, shared, handler, driver
  <2>2. CASE radio # "idle"
    BY <1>13, <2>2, FlowLost DEF Disconnect, EspWifiDisconnect, shared, handler
  <2>3. QED
    BY <2>1, <2>2
<1>14. CASE UNCHANGED vars
  BY <1>14 DEF Flow, vars, shared, handler, driver
<1>15. QED
  BY <1>1, <1>2, <1>3, <1>4, <1>5, <1>6, <1>7, <1>8, <1>9, <1>10, <1>11, <1>12, <1>13, <1>14
     DEF Next, WifiEventHandler, NatsTask

LEMMA FlowCorrect == Spec => []Flow
<1>1. Init => TypeOK /\ Flow
  BY TypeInit, FlowInit
<1>2. TypeOK /\ Flow /\ [Next]_vars => (TypeOK /\ Flow)'
  BY TypeStep, FlowStep
<1>3. QED
  BY <1>1, <1>2, PTL DEF Spec

-----------------------------------------------------------------------------
(* What follows from it.                                                   *)

\* What Pending says of each queue.
LEMMA Contents ==
    /\ ToSet(<< >>) = {}
    /\ ToSet(Started) = {"STA_START"}
    /\ ToSet(Lost) = {"STA_DISCONNECTED"}
    /\ ToSet(Got) = {"STA_GOT_IP"}
    /\ ToSet(GotAndLost) = {"STA_GOT_IP", "STA_DISCONNECTED"}
BY DEF ToSet, Started, Lost, Got, GotAndLost

\* wifi_event_handler never calls esp_wifi_connect() while an attempt is under way,
\* wherever nats_task comes between.
THEOREM ConnectsOnlyWhenIdle == Spec => []OneConnect
<1>1. Flow => OneConnect
  BY DEF Flow, OneConnect, Busy
<1>2. QED
  BY <1>1, FlowCorrect, PTL

\* No idle station is forgotten, and none that is not idle has a reconnect coming.
THEOREM IdleIsNeverForgotten == Spec => []IdleIsTakenCareOf
<1>1. Flow => IdleIsTakenCareOf
  BY Contents DEF Flow, IdleIsTakenCareOf, Pending, Busy
<1>2. QED
  BY <1>1, FlowCorrect, PTL

\* WIFI_CONNECTED_BIT is wrong only while the event that corrects it is on its way.
THEOREM BitIsCorrected == Spec => []BitFollowsRadio
<1>1. Flow /\ TypeOK => BitFollowsRadio
  BY Contents DEF Flow, BitFollowsRadio, Pending, Busy, TypeOK
<1>2. QED
  BY <1>1, FlowCorrect, TypeCorrect, PTL
=============================================================================
