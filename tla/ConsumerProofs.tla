--------------------------- MODULE ConsumerProofs ---------------------------
(***************************************************************************)
(* Proofs about the two consumers of the decoded records: InfluxWriter,    *)
(* for every batch size, every limit of the server and every length of the *)
(* stream, and TelemetryStore, for any tabs, devices, messages and assets, *)
(* and histories of any length.                                            *)
(***************************************************************************)
EXTENDS InfluxWriter, TelemetryStore, SequenceTheorems, TLAPS

-----------------------------------------------------------------------------
(* Type correctness.                                                       *)

Statuses == Seq({"new", "pending", "acked", "termed"})

LEMMA ExceptStatus ==
    ASSUME NEW s \in Statuses, NEW m \in 1..Len(s),
           NEW v \in {"new", "pending", "acked", "termed"}
    PROVE  /\ [s EXCEPT ![m] = v] \in Statuses
           /\ Len([s EXCEPT ![m] = v]) = Len(s)
BY ExceptSeq DEF Statuses

LEMMA TypeInit == Init => TypeOK
<1> SUFFICES ASSUME Init PROVE TypeOK
  OBVIOUS
<1>1. stream \in Seq(PointIds \cup {Malformed}) /\ Len(stream) = 0
  BY EmptySeq DEF Init
<1>2. inbox \in Seq(Messages) /\ points \in Seq(Messages) /\ pending \in Seq(Messages)
  BY EmptySeq DEF Init
<1>3. Len(points) = 0
  BY EmptySeq DEF Init
<1>4. status \in Statuses /\ Len(status) = 0
  BY EmptySeq DEF Init, Statuses
<1>5. hand \in Messages \cup {Nothing} /\ store \in [PointIds -> Messages \cup {Nothing}]
  BY DEF Init
<1>6. pc \in {"select", "write", "ack", "down"} /\ mode \in {"running", "returning"} /\ exits \in 0..MaxExits
  BY InfluxAssumption DEF Init
<1>7. QED
  BY <1>1, <1>2, <1>3, <1>4, <1>5, <1>6, InfluxAssumption DEF TypeOK, Statuses

LEMMA TypeStep == TypeOK /\ [Next]_vars => TypeOK'
<1> SUFFICES ASSUME TypeOK, [Next]_vars PROVE TypeOK'
  OBVIOUS
<1> USE InfluxAssumption DEF TypeOK
<1>0. << >> \in Seq(Messages) /\ Len(<< >>) = 0
  BY EmptySeq
<1>a. ASSUME EndFlush
      PROVE  /\ pc' \in {"select", "down"}
             /\ inbox' \in Seq(Messages) /\ hand' \in Messages \cup {Nothing}
             /\ points' \in Seq(Messages) /\ Len(points') = 0
  BY <1>a, <1>0 DEF EndFlush
<1>1. ASSUME NEW r \in PointIds \cup {Malformed}, Publish(r) PROVE TypeOK'
  <2>1. /\ stream' \in Seq(PointIds \cup {Malformed})
        /\ Len(stream') = Len(stream) + 1
    BY <1>1, AppendProperties DEF Publish
  <2>2. Messages \subseteq Messages'
    BY <2>1, LenProperties DEF Messages
  <2>3. /\ inbox' \in Seq(Messages') /\ points' \in Seq(Messages')
        /\ pending' \in Seq(Messages')
    BY <1>1, <2>2, SeqMonotonic DEF Publish, batch
  <2>4. status' \in Statuses /\ Len(status') = Len(stream')
    BY <1>1, <2>1, AppendProperties DEF Publish, Statuses
  <2>5. store' \in [PointIds -> Messages' \cup {Nothing}]
    BY <1>1, <2>2 DEF Publish
  <2>6. QED
    BY <1>1, <2>1, <2>2, <2>3, <2>4, <2>5 DEF Publish, batch, Statuses
<1>2. CASE Deliver
  <2>1. PICK m \in Messages : /\ status' = [status EXCEPT ![m] = "pending"]
                              /\ inbox' = Append(inbox, m)
    BY <1>2 DEF Deliver
  <2>2. inbox' \in Seq(Messages)
    BY <2>1, AppendProperties
  <2>3. QED
    BY <1>2, <2>1, <2>2 DEF Deliver, batch, Messages
<1>3. ASSUME NEW m \in Messages, Redeliver(m) PROVE TypeOK'
  BY <1>3, AppendProperties DEF Redeliver, server, batch, Messages
<1>4. CASE Pump
  <2>1. Head(inbox) \in Messages /\ Tail(inbox) \in Seq(Messages)
    BY <1>4, HeadTailProperties DEF Pump
  <2>2. QED
    BY <1>4, <2>1 DEF Pump, server, batch, Messages
<1>5. CASE Reject
  <2>1. status' \in Statuses /\ Len(status') = Len(status)
    <3>1. CASE status' = [status EXCEPT ![hand] = "termed"]
      <4>1. hand \in 1..Len(status) /\ status \in Statuses
        BY <1>5 DEF Reject, Messages, Statuses
      <4>2. QED
        BY <3>1, <4>1, ExceptStatus
    <3>2. QED
      BY <1>5, <3>1 DEF Reject, Statuses
  <2>2. QED
    BY <1>5, <2>1 DEF Reject, batch, Messages, Statuses
<1>6. CASE Collect
  <2>1. hand \in Messages
    BY <1>6 DEF Collect
  <2>2. /\ points' \in Seq(Messages) /\ Len(points') = Len(points) + 1
        /\ pending' \in Seq(Messages)
    BY <1>6, <2>1, AppendProperties DEF Collect
  <2>3. QED
    BY <1>6, <2>2 DEF Collect, server, Messages
<1>7. CASE Tick \/ Restart
  <2>1. CASE Tick
    BY <2>1 DEF Tick, server, batch, Messages
  <2>2. CASE Restart
    BY <2>2 DEF Restart, server, batch, Messages
  <2>3. QED
    BY <1>7, <2>1, <2>2
<1>8. CASE Stop \/ Crash
  <2>1. CASE Stop
    BY <2>1, <1>0 DEF Stop, server, batch, Messages
  <2>2. CASE Crash
    BY <2>2, <1>0 DEF Crash, server, Messages
  <2>3. QED
    BY <1>8, <2>1, <2>2
<1>9. CASE WriteOk \/ WriteFail
  <2>1. ToSet(points) \subseteq Messages
    BY ElementOfSeq DEF ToSet
  <2>2. store' \in [PointIds -> Messages \cup {Nothing}]
    BY <1>9, <2>1 DEF WriteOk, WriteFail, Writes
  <2>3. CASE WriteOk
    BY <2>2, <2>3 DEF WriteOk, server, batch, Messages
  <2>4. CASE WriteFail
    BY <1>0, <1>a, <2>2, <2>4 DEF WriteFail, server, Messages
  <2>5. QED
    BY <1>9, <2>3, <2>4
<1>10. ASSUME NextAck, \/ UNCHANGED status
                       \/ \E m \in Messages : status' = [status EXCEPT ![m] = "acked"]
       PROVE  TypeOK'
  <2>1. status' \in Statuses /\ Len(status') = Len(status)
    <3>1. CASE UNCHANGED status
      BY <3>1 DEF Statuses
    <3>2. CASE \E m \in Messages : status' = [status EXCEPT ![m] = "acked"]
      BY <3>2, ExceptStatus DEF Statuses, Messages
    <3>3. QED
      BY <1>10, <3>1, <3>2
  <2>2. pending' \in Seq(Messages)
    BY <1>10 DEF NextAck
  <2>3. CASE Len(pending) = 1
    BY <1>10, <1>a, <2>1, <2>2, <2>3 DEF NextAck, Messages, Statuses
  <2>4. CASE Len(pending) # 1
    BY <1>10, <2>1, <2>2, <2>4 DEF NextAck, Messages, Statuses
  <2>5. QED
    BY <2>3, <2>4
<1>11. CASE UNCHANGED vars
  BY <1>11 DEF vars, server, batch, Messages
<1>12. QED
  BY <1>1, <1>2, <1>3, <1>4, <1>5, <1>6, <1>7, <1>8, <1>9, <1>10, <1>11
     DEF Next, AckOk, AckFail

\* The writer keeps its variables in their types, and never collects more than
\* BatchSize points.
THEOREM TypeCorrect == Spec => []TypeOK
BY TypeInit, TypeStep, PTL DEF Spec

-----------------------------------------------------------------------------
(* What is acknowledged is in the store.                                   *)

\* What SettledIsStored needs to be inductive: only records that became points
\* are collected, the messages of a batch are those of its points until the
\* write, and after it all that remain to be acknowledged are in the store.
WriterInv ==
    /\ SettledIsStored
    /\ \A i \in 1..Len(points) : stream[points[i]] # Malformed
    /\ pc \in {"select", "write"} => pending = points
    /\ pc = "ack" => \A i \in 1..Len(pending) : InStore(pending[i])
    /\ pc = "down" => points = << >> /\ pending = << >>

\* A write never takes a point out of the store, whether it succeeds or not.
LEMMA StoreOnlyGrows ==
    ASSUME TypeOK, UNCHANGED stream, NEW S \in SUBSET (1..Len(points)), Writes(S),
           NEW m \in Messages, InStore(m)
    PROVE  InStore(m)'
<1> DEFINE p == stream[m]
<1> DEFINE written == {points[i] : i \in {i \in S : stream[points[i]] = p}}
<1>1. p \in PointIds /\ store[p] # Nothing
  BY ElementOfSeq DEF InStore, TypeOK, Messages
<1>2. store'[p] \in IF written = {} THEN {store[p]} ELSE written
  BY <1>1 DEF Writes
<1>3. \A x \in written : x # Nothing
  <2>1. \A i \in 1..Len(points) : points[i] \in Messages
    BY ElementOfSeq DEF TypeOK
  <2>2. \A x \in Messages : x # Nothing
    BY DEF Messages, Nothing
  <2>3. QED
    BY <2>1, <2>2
<1>4. store'[p] # Nothing
  BY <1>1, <1>2, <1>3
<1>5. QED
  BY <1>4 DEF InStore

\* A successful write puts every point of the batch into the store.
LEMMA WriteStoresAll ==
    ASSUME TypeOK, UNCHANGED stream, Writes(1..Len(points)),
           NEW m \in Messages, stream[m] # Malformed,
           NEW i \in 1..Len(points), points[i] = m
    PROVE  InStore(m)'
<1> DEFINE p == stream[m]
<1> DEFINE written == {points[j] : j \in {j \in 1..Len(points) : stream[points[j]] = p}}
<1>1. p \in PointIds
  BY ElementOfSeq DEF TypeOK, Messages
<1>2. store'[p] \in IF written = {} THEN {store[p]} ELSE written
  BY <1>1 DEF Writes
<1>3. m \in written
  OBVIOUS
<1>4. \A x \in written : x # Nothing
  <2>1. \A j \in 1..Len(points) : points[j] \in Messages
    BY ElementOfSeq DEF TypeOK
  <2>2. \A x \in Messages : x # Nothing
    BY DEF Messages, Nothing
  <2>3. QED
    BY <2>1, <2>2
<1>5. store'[p] # Nothing
  BY <1>2, <1>3, <1>4
<1>6. QED
  BY <1>5 DEF InStore

LEMMA WriterInvInit == Init => WriterInv
BY EmptySeq DEF Init, WriterInv, SettledIsStored, Messages

LEMMA WriterInvStep == TypeOK /\ WriterInv /\ [Next]_vars => WriterInv'
<1> SUFFICES ASSUME TypeOK, WriterInv, [Next]_vars PROVE WriterInv'
  OBVIOUS
<1>0. /\ \A i \in 1..Len(points) : points[i] \in Messages
      /\ \A i \in 1..Len(pending) : pending[i] \in Messages
      /\ Len(<< >>) = 0
  BY ElementOfSeq, EmptySeq DEF TypeOK
<1>1. ASSUME NEW r \in PointIds \cup {Malformed}, Publish(r) PROVE WriterInv'
  <2>1. /\ Messages' = Messages \cup {Len(stream) + 1}
        /\ \A m \in Messages : stream'[m] = stream[m] /\ status'[m] = status[m]
        /\ status'[Len(stream) + 1] = "new"
    BY <1>1, AppendProperties, LenProperties DEF TypeOK, Publish, Messages
  <2>2. points' = points /\ pending' = pending /\ pc' = pc /\ store' = store
    BY <1>1 DEF Publish, batch
  <2>3. SettledIsStored'
    BY <2>1, <2>2 DEF WriterInv, SettledIsStored, InStore
  <2>4. \A i \in 1..Len(points') : stream'[points'[i]] # Malformed
    BY <1>0, <2>1, <2>2 DEF WriterInv
  <2>5. pc' = "ack" => \A i \in 1..Len(pending') : InStore(pending[i])'
    BY <1>0, <2>1, <2>2 DEF WriterInv, InStore
  <2>6. QED
    BY <2>2, <2>3, <2>4, <2>5 DEF WriterInv, InStore
<1>2. CASE Deliver
  <2>1. PICK l \in Messages : status' = [status EXCEPT ![l] = "pending"]
    BY <1>2 DEF Deliver
  <2>2. \A m \in Messages : status'[m] = status[m] \/ status'[m] = "pending"
    BY <2>1 DEF TypeOK, Messages
  <2>3. SettledIsStored'
    BY <1>2, <2>2 DEF Deliver, WriterInv, SettledIsStored, InStore, Messages
  <2>4. QED
    BY <1>2, <2>3 DEF Deliver, WriterInv, InStore, batch
<1>3. ASSUME NEW m \in Messages, Redeliver(m) PROVE WriterInv'
  BY <1>3 DEF Redeliver, WriterInv, SettledIsStored, InStore, Messages, server, batch
<1>4. CASE Pump \/ Tick \/ Restart
  BY <1>4 DEF Pump, Tick, Restart, WriterInv, SettledIsStored, InStore, Messages, server, batch
<1>5. CASE Reject
  <2>1. \A m \in Messages :
            status'[m] = status[m] \/ (status'[m] = "termed" /\ stream[m] = Malformed)
    <3>1. hand \in Messages /\ stream[hand] = Malformed
      BY <1>5 DEF Reject, TypeOK
    <3>2. QED
      BY <1>5, <3>1 DEF Reject, TypeOK, Messages
  <2>2. SettledIsStored'
    BY <1>5, <2>1 DEF Reject, WriterInv, SettledIsStored, InStore, Messages
  <2>3. QED
    BY <1>5, <2>2 DEF Reject, WriterInv, InStore, batch
<1>6. CASE Collect
  <2>1. hand \in Messages /\ stream[hand] # Malformed
    BY <1>6 DEF Collect, TypeOK
  <2>2. \A i \in 1..Len(points') : stream'[points'[i]] # Malformed
    BY <1>6, <2>1, AppendProperties DEF Collect, WriterInv, TypeOK, server
  <2>3. pending' = points' /\ pc' \in {"select", "write"}
    BY <1>6 DEF Collect, WriterInv
  <2>4. SettledIsStored'
    BY <1>6 DEF Collect, WriterInv, SettledIsStored, InStore, Messages, server
  <2>5. QED
    BY <2>2, <2>3, <2>4 DEF WriterInv
<1>7. CASE Stop \/ Crash
  <2>1. SettledIsStored'
    BY <1>7 DEF Stop, Crash, WriterInv, SettledIsStored, InStore, Messages, server
  <2>2. CASE Stop
    BY <2>1, <2>2 DEF Stop, WriterInv, server, batch
  <2>3. CASE Crash
    BY <1>0, <2>1, <2>3 DEF Crash, WriterInv
  <2>4. QED
    BY <1>7, <2>2, <2>3
<1>8. CASE WriteOk
  <2>1. \A m \in Messages : InStore(m) => InStore(m)'
    BY <1>8, StoreOnlyGrows DEF WriteOk, server
  <2>2. SettledIsStored'
    BY <1>8, <2>1 DEF WriteOk, WriterInv, SettledIsStored, server, Messages
  <2>3. \A i \in 1..Len(pending) : InStore(pending[i])'
    <3>1. pending = points /\ UNCHANGED <<stream, points, pending>> /\ Writes(1..Len(points))
      BY <1>8 DEF WriteOk, WriterInv, server, batch
    <3>2. \A i \in 1..Len(points) : \A m \in Messages : points[i] = m => InStore(m)'
      BY <3>1, WriteStoresAll DEF WriterInv
    <3>3. QED
      BY <1>0, <3>1, <3>2 DEF InStore
  <2>4. QED
    BY <1>8, <2>2, <2>3 DEF WriteOk, WriterInv, server, batch
<1>9. CASE WriteFail
  <2>1. \A m \in Messages : InStore(m) => InStore(m)'
    BY <1>9, StoreOnlyGrows DEF WriteFail, server
  <2>2. SettledIsStored'
    BY <1>9, <2>1 DEF WriteFail, WriterInv, SettledIsStored, server, Messages
  <2>3. points' = << >> /\ pending' = << >> /\ pc' \in {"select", "down"}
    BY <1>9 DEF WriteFail, EndFlush
  <2>4. QED
    BY <1>0, <2>2, <2>3 DEF WriterInv
<1>10. CASE UNCHANGED vars
  BY <1>10 DEF vars, WriterInv, SettledIsStored, InStore, Messages, server, batch
<1>11. ASSUME NextAck,
              \/ UNCHANGED status
              \/ \E m \in Messages :
                    m = Head(pending) /\ status' = [status EXCEPT ![m] = "acked"]
       PROVE  WriterInv'
  <2>1. /\ InStore(Head(pending)) /\ Head(pending) \in Messages
        /\ Len(Tail(pending)) = Len(pending) - 1
        /\ \A i \in 1..Len(Tail(pending)) : InStore(Tail(pending)[i])
    BY <1>0, <1>11, HeadTailProperties DEF NextAck, WriterInv, TypeOK
  <2>2. \A m \in Messages :
            status'[m] = status[m] \/ (status'[m] = "acked" /\ InStore(m))
    BY <1>11, <2>1 DEF TypeOK, Messages
  <2>3. SettledIsStored'
    BY <1>11, <2>2 DEF NextAck, WriterInv, SettledIsStored, Messages, InStore
  <2>4. CASE Len(pending) = 1
    <3>1. pending' = << >>
      BY <1>11, <2>1, <2>4, EmptySeq DEF NextAck, TypeOK
    <3>2. points' = << >> /\ pc' \in {"select", "down"}
      BY <1>11, <2>4 DEF NextAck, EndFlush
    <3>3. QED
      BY <1>0, <2>3, <3>1, <3>2 DEF WriterInv
  <2>5. CASE Len(pending) # 1
    BY <1>11, <2>1, <2>3, <2>5 DEF NextAck, WriterInv, InStore
  <2>6. QED
    BY <2>4, <2>5
<1>12. QED
  BY <1>1, <1>2, <1>3, <1>4, <1>5, <1>6, <1>7, <1>8, <1>9, <1>10, <1>11
     DEF Next, AckOk, AckFail

\* JetStream forgets a record only when its point is in InfluxDB or when it can
\* never become one, whatever fails and whenever the process dies.
THEOREM AckedOnlyWhenStored == Spec => []SettledIsStored
<1>1. WriterInv => SettledIsStored
  BY DEF WriterInv
<1>2. QED
  BY <1>1, WriterInvInit, WriterInvStep, TypeCorrect, PTL DEF Spec

-----------------------------------------------------------------------------
(* TelemetryStore: type correctness.                                       *)

LiveData == [Sources -> [Signals -> Histories]]
SummaryData == [Sources -> Assets \cup {NoAsset, Unknown}]
LastSeenData == [Origins -> 0..MaxRecords]
Flags == [topics : SUBSET Topics, deviceList : BOOLEAN, catalog : BOOLEAN, lastSeen : BOOLEAN]

\* A history that is pushed to stays as long as it may be.
LEMMA PushedTyped ==
    ASSUME NEW h \in Histories, NEW v \in 1..MaxRecords
    PROVE  Pushed(h, v) \in Histories
<1> DEFINE p == Append(h, v)
<1>1. /\ h \in Seq(1..MaxRecords) /\ Len(h) <= MaxHistory /\ Len(h) \in Nat
      /\ MaxHistory \in Nat \ {0}
  BY LenProperties, StoreAssumption DEF Histories
<1>2. p \in Seq(1..MaxRecords) /\ Len(p) = Len(h) + 1
  BY <1>1, AppendProperties
<1> HIDE DEF p
<1>3. CASE Len(p) > MaxHistory
  <2>1. Tail(p) \in Seq(1..MaxRecords) /\ Len(Tail(p)) = Len(p) - 1
    BY <1>1, <1>2, HeadTailProperties, EmptySeq
  <2>2. QED
    BY <1>1, <1>2, <1>3, <2>1 DEF Pushed, Histories, p
<1>4. CASE ~(Len(p) > MaxHistory)
  BY <1>1, <1>2, <1>4 DEF Pushed, Histories, p
<1>5. QED
  BY <1>3, <1>4

\* What the parts of a new page are.
LEMMA BlankTyped ==
    /\ NoHistory \in LiveData /\ NoSummary \in SummaryData /\ NeverSeen \in LastSeenData
    /\ NothingPending \in Flags
    /\ \A saved : saved \subseteq Signals => Blank(saved) \in Snapshots
<1>1. << >> \in Histories
  BY EmptySeq, StoreAssumption DEF Histories
<1>2. NoHistory \in LiveData
  BY <1>1 DEF NoHistory, LiveData
<1>3. NoSummary \in SummaryData
  BY DEF NoSummary, SummaryData
<1>4. NeverSeen \in LastSeenData
  BY StoreAssumption DEF NeverSeen, Never, LastSeenData
<1>5. NothingPending \in Flags
  BY DEF NothingPending, Flags
<1>6. ASSUME NEW saved, saved \subseteq Signals PROVE Blank(saved) \in Snapshots
  BY <1>2, <1>3, <1>4, <1>6 DEF Blank, Snapshots, LiveData, SummaryData, LastSeenData
<1>7. QED
  BY <1>2, <1>3, <1>4, <1>5, <1>6

\* The flush copies histories.
LEMMA CopiedTyped ==
    ASSUME StoreTypeOK, NEW t \in Tabs
    PROVE  Copied(t) \in LiveData
<1>1. live[t] \in LiveData /\ shown[t].live \in LiveData
  BY DEF StoreTypeOK, Snapshots, LiveData
<1>2. QED
  BY <1>1 DEF Copied, LiveData

\* The dashboard keeps its types: in particular no history is longer than
\* MAX_HISTORY_PER_SIGNAL, neither in the data nor in what is shown.
THEOREM StoreTypeCorrect == StoreSpec => []StoreTypeOK
<1>1. StoreInit => StoreTypeOK
  BY BlankTyped, StoreAssumption
     DEF StoreInit, StoreTypeOK, LiveData, SummaryData, LastSeenData, Flags
<1>2. StoreTypeOK /\ [StoreNext]_storeVars => StoreTypeOK'
  <2> SUFFICES ASSUME StoreTypeOK, [StoreNext]_storeVars PROVE StoreTypeOK'
    OBVIOUS
  <2>1. ASSUME NEW t \in Tabs, Receive(t) PROVE StoreTypeOK'
    <3>1. PICK v \in 1..MaxRecords : v = count'
      BY <2>1, StoreAssumption DEF Receive, StoreTypeOK
    <3>2. PICK s \in Sources, g \in Signals, a \in Assets \cup {NoAsset} :
             HandleMessage(t, s, g, a, v)
      BY <2>1, <3>1 DEF Receive
    <3>3. s[2] \in Origins /\ <<s, g[1]>> \in Topics
      BY DEF Sources, Signals, Topics
    <3>4. live' \in [Tabs -> LiveData]
      <4>1. live[t] \in LiveData /\ live[t][s] \in [Signals -> Histories]
            /\ live[t][s][g] \in Histories
        BY DEF StoreTypeOK, LiveData
      <4>2. Pushed(live[t][s][g], v) \in Histories
        BY <4>1, PushedTyped
      <4>3. live' = [live EXCEPT ![t][s][g] = Pushed(live[t][s][g], v)]
        BY <3>2 DEF HandleMessage
      <4>4. QED
        BY <4>1, <4>2, <4>3 DEF StoreTypeOK, LiveData
    <3>5. summary' \in [Tabs -> SummaryData]
      <4>1. Summarised(summary[t][s], a) \in Assets \cup {NoAsset, Unknown}
        BY DEF StoreTypeOK, Summarised
      <4>2. QED
        BY <3>2, <4>1 DEF HandleMessage, StoreTypeOK, SummaryData
    <3>6. lastSeen' \in [Tabs -> LastSeenData]
      BY <3>2, <3>3 DEF HandleMessage, StoreTypeOK, LastSeenData
    <3>7. catalog' \in [Tabs -> SUBSET Signals]
      BY <3>2 DEF HandleMessage, StoreTypeOK
    <3>8. unflushed' \in [Tabs -> Flags]
      <4>1. unflushed[t] \in Flags
        BY DEF StoreTypeOK, Flags
      <4>2. Marked(unflushed[t], summary[t][s], a, g \notin catalog[t], <<s, g[1]>>) \in Flags
        BY <3>3, <4>1 DEF Marked, Flags
      <4>3. QED
        BY <3>2, <4>2 DEF HandleMessage, StoreTypeOK, Flags
    <3>9. frame' \in [Tabs -> BOOLEAN]
      BY <3>2 DEF HandleMessage, StoreTypeOK
    <3>10. count' \in 0..MaxRecords /\ UNCHANGED <<shown, storage, loads>>
      BY <2>1, <3>1, StoreAssumption DEF Receive
    <3>11. QED
      BY <3>4, <3>5, <3>6, <3>7, <3>8, <3>9, <3>10
         DEF StoreTypeOK, LiveData, SummaryData, LastSeenData, Flags
  <2>2. ASSUME NEW t \in Tabs, Flush(t) PROVE StoreTypeOK'
    <3> DEFINE p == unflushed[t]
               new == [live |-> Copied(t),
                       summary |-> IF p.deviceList THEN summary[t] ELSE shown[t].summary,
                       lastSeen |-> IF p.lastSeen THEN lastSeen[t] ELSE shown[t].lastSeen,
                       catalog |-> IF p.catalog THEN catalog[t] ELSE shown[t].catalog]
    <3>1. new \in Snapshots
      BY CopiedTyped DEF StoreTypeOK, Snapshots, LiveData
    <3>2. shown' = [shown EXCEPT ![t] = new]
      BY <2>2 DEF Flush
    <3> HIDE DEF new
    <3>3. shown' \in [Tabs -> Snapshots]
      BY <3>1, <3>2 DEF StoreTypeOK
    <3>4. unflushed' \in [Tabs -> Flags]
      BY <2>2, BlankTyped DEF Flush, StoreTypeOK, Flags
    <3>5. frame' \in [Tabs -> BOOLEAN] /\ storage' \subseteq Signals
      BY <2>2 DEF Flush, StoreTypeOK
    <3>6. UNCHANGED <<count, live, summary, lastSeen, catalog, loads>>
      BY <2>2 DEF Flush, data
    <3>7. QED
      BY <3>3, <3>4, <3>5, <3>6 DEF StoreTypeOK, Flags
  <2>3. ASSUME NEW t \in Tabs, Reload(t) PROVE StoreTypeOK'
    <3>1. storage \subseteq Signals
      BY DEF StoreTypeOK
    <3>2. /\ live' \in [Tabs -> LiveData] /\ summary' \in [Tabs -> SummaryData]
          /\ lastSeen' \in [Tabs -> LastSeenData] /\ catalog' \in [Tabs -> SUBSET Signals]
      BY <2>3, <3>1, BlankTyped
         DEF Reload, StoreTypeOK, LiveData, SummaryData, LastSeenData
    <3>3. Blank(storage) \in Snapshots
      BY <3>1, BlankTyped
    <3>4. shown' \in [Tabs -> Snapshots] /\ unflushed' \in [Tabs -> Flags]
          /\ frame' \in [Tabs -> BOOLEAN]
      BY <2>3, <3>3, BlankTyped DEF Reload, StoreTypeOK, Flags
    <3>5. loads' \in 0..MaxReloads /\ UNCHANGED <<count, storage>>
      BY <2>3, StoreAssumption DEF Reload, StoreTypeOK
    <3>6. QED
      BY <3>1, <3>2, <3>4, <3>5
         DEF StoreTypeOK, LiveData, SummaryData, LastSeenData, Flags
  <2>4. CASE UNCHANGED storeVars
    BY <2>4 DEF StoreTypeOK, storeVars, data
  <2>5. QED
    BY <2>1, <2>2, <2>3, <2>4 DEF StoreNext
<1>3. QED
  BY <1>1, <1>2, PTL DEF StoreSpec

-----------------------------------------------------------------------------
(* TelemetryStore: what changes is flagged until it is shown.              *)

\* NothingForgotten, of one tab: its snapshots, its data, its flags and its frame.
Flagged(snapshot, l, s, c, seen, flags, due) ==
    /\ \A x \in Sources, g \in Signals :
         snapshot.live[x][g] # l[x][g] => <<x, g[1]>> \in flags.topics
    /\ snapshot.summary # s => flags.deviceList
    /\ snapshot.catalog # c => flags.catalog
    /\ snapshot.lastSeen # seen => flags.lastSeen
    /\ flags # NothingPending => due

TabFlagged(t) ==
    Flagged(shown[t], live[t], summary[t], catalog[t], lastSeen[t], unflushed[t], frame[t])

LEMMA FlaggedPerTab == NothingForgotten <=> \A t \in Tabs : TabFlagged(t)
BY DEF NothingForgotten, TabFlagged, Flagged

\* What happens in one tab leaves the others alone.
OthersAsTheyWere(t) ==
    \A u \in Tabs \ {t} :
        /\ shown'[u] = shown[u] /\ live'[u] = live[u] /\ summary'[u] = summary[u]
        /\ catalog'[u] = catalog[u] /\ lastSeen'[u] = lastSeen[u]
        /\ unflushed'[u] = unflushed[u] /\ frame'[u] = frame[u]

LEMMA OneTabSteps ==
    ASSUME NothingForgotten, NEW t \in Tabs, OthersAsTheyWere(t),
           Flagged(shown'[t], live'[t], summary'[t], catalog'[t], lastSeen'[t], unflushed'[t], frame'[t])
    PROVE  NothingForgotten'
<1>1. ASSUME NEW u \in Tabs
      PROVE  Flagged(shown'[u], live'[u], summary'[u], catalog'[u], lastSeen'[u], unflushed'[u], frame'[u])
  <2>1. CASE u = t
    BY <2>1
  <2>2. CASE u # t
    <3>1. Flagged(shown[u], live[u], summary[u], catalog[u], lastSeen[u], unflushed[u], frame[u])
      BY FlaggedPerTab DEF TabFlagged
    <3>2. QED
      BY <2>2, <3>1 DEF OthersAsTheyWere
  <2>3. QED
    BY <2>1, <2>2
<1>2. QED
  BY <1>1 DEF NothingForgotten, Flagged

\* No update is forgotten, whatever records come in, in which order, and however
\* many before a frame is drawn.
THEOREM NoUpdateForgotten == StoreSpec => []NothingForgotten
<1>1. StoreInit => NothingForgotten
  BY DEF StoreInit, NothingForgotten, Blank, NothingPending
<1>2. StoreTypeOK /\ NothingForgotten /\ [StoreNext]_storeVars => NothingForgotten'
  <2> SUFFICES ASSUME StoreTypeOK, NothingForgotten, [StoreNext]_storeVars
               PROVE  NothingForgotten'
    OBVIOUS
  <2>1. ASSUME NEW t \in Tabs, Receive(t) PROVE NothingForgotten'
    <3>1. PICK v : v = count'
      OBVIOUS
    <3>2. PICK s \in Sources, g \in Signals, a \in Assets \cup {NoAsset} :
             HandleMessage(t, s, g, a, v)
      BY <2>1, <3>1 DEF Receive
    <3>3. OthersAsTheyWere(t)
      BY <2>1, <3>2 DEF OthersAsTheyWere, Receive, HandleMessage, StoreTypeOK
    <3>4. Flagged(shown[t], live[t], summary[t], catalog[t], lastSeen[t], unflushed[t], frame[t])
      BY FlaggedPerTab DEF TabFlagged
    <3> DEFINE flags == Marked(unflushed[t], summary[t][s], a, g \notin catalog[t], <<s, g[1]>>)
    <3>5. /\ unflushed'[t] = flags /\ frame'[t] = TRUE /\ shown'[t] = shown[t]
          /\ catalog'[t] = catalog[t] \cup {g}
          /\ summary'[t] = [summary[t] EXCEPT ![s] = Summarised(summary[t][s], a)]
          /\ live'[t] = [live[t] EXCEPT ![s][g] = Pushed(live[t][s][g], v)]
      BY <2>1, <3>2 DEF Receive, HandleMessage, StoreTypeOK
    <3>6. /\ flags.topics = unflushed[t].topics \cup {<<s, g[1]>>}
          /\ flags.deviceList = (unflushed[t].deviceList \/ Summarised(summary[t][s], a) # summary[t][s])
          /\ flags.catalog = (unflushed[t].catalog \/ g \notin catalog[t])
          /\ flags.lastSeen = TRUE
      BY DEF Marked
    <3> HIDE DEF flags
    <3>7. ASSUME NEW x \in Sources, NEW h \in Signals, shown'[t].live[x][h] # live'[t][x][h]
          PROVE  <<x, h[1]>> \in flags.topics
      <4>1. CASE x = s /\ h = g
        BY <3>6, <4>1
      <4>2. CASE ~(x = s /\ h = g)
        <5>1. live'[t][x][h] = live[t][x][h]
          BY <3>5, <4>2 DEF StoreTypeOK
        <5>2. shown[t].live[x][h] # live[t][x][h]
          BY <3>5, <3>7, <5>1
        <5>3. QED
          BY <3>4, <3>6, <5>2 DEF Flagged
      <4>3. QED
        BY <4>1, <4>2
    <3>8. shown'[t].summary # summary'[t] => flags.deviceList
      <4>1. CASE Summarised(summary[t][s], a) = summary[t][s]
        <5>1. summary'[t] = summary[t]
          BY <3>5, <4>1 DEF StoreTypeOK
        <5>2. QED
          BY <3>4, <3>5, <3>6, <5>1 DEF Flagged
      <4>2. CASE Summarised(summary[t][s], a) # summary[t][s]
        BY <3>6, <4>2
      <4>3. QED
        BY <4>1, <4>2
    <3>9. shown'[t].catalog # catalog'[t] => flags.catalog
      <4>1. CASE g \in catalog[t]
        <5>1. catalog'[t] = catalog[t]
          BY <3>5, <4>1
        <5>2. QED
          BY <3>4, <3>5, <3>6, <5>1 DEF Flagged
      <4>2. CASE g \notin catalog[t]
        BY <3>6, <4>2
      <4>3. QED
        BY <4>1, <4>2
    <3>10. Flagged(shown'[t], live'[t], summary'[t], catalog'[t], lastSeen'[t], unflushed'[t], frame'[t])
      BY <3>5, <3>6, <3>7, <3>8, <3>9 DEF Flagged
    <3>11. QED
      BY <3>3, <3>10, OneTabSteps
  <2>2. ASSUME NEW t \in Tabs, Flush(t) PROVE NothingForgotten'
    <3>1. OthersAsTheyWere(t)
      BY <2>2 DEF OthersAsTheyWere, Flush, data, StoreTypeOK
    <3>2. Flagged(shown[t], live[t], summary[t], catalog[t], lastSeen[t], unflushed[t], frame[t])
      BY FlaggedPerTab DEF TabFlagged
    <3> DEFINE p == unflushed[t]
               new == [live |-> Copied(t),
                       summary |-> IF p.deviceList THEN summary[t] ELSE shown[t].summary,
                       lastSeen |-> IF p.lastSeen THEN lastSeen[t] ELSE shown[t].lastSeen,
                       catalog |-> IF p.catalog THEN catalog[t] ELSE shown[t].catalog]
    <3>3. /\ shown'[t] = new /\ unflushed'[t] = NothingPending
          /\ UNCHANGED <<live, summary, lastSeen, catalog>>
      BY <2>2 DEF Flush, data, StoreTypeOK
    <3>4. /\ new.summary = summary[t] /\ new.catalog = catalog[t] /\ new.lastSeen = lastSeen[t]
      BY <3>2 DEF Flagged
    <3>5. \A x \in Sources, g \in Signals : new.live[x][g] = live[t][x][g]
      BY <3>2 DEF Flagged, Copied
    <3> HIDE DEF new
    <3>6. Flagged(shown'[t], live'[t], summary'[t], catalog'[t], lastSeen'[t], unflushed'[t], frame'[t])
      BY <3>3, <3>4, <3>5 DEF Flagged
    <3>7. QED
      BY <3>1, <3>6, OneTabSteps
  <2>3. ASSUME NEW t \in Tabs, Reload(t) PROVE NothingForgotten'
    <3>1. OthersAsTheyWere(t)
      BY <2>3 DEF OthersAsTheyWere, Reload, StoreTypeOK
    <3>2. /\ shown'[t] = Blank(storage) /\ live'[t] = NoHistory /\ summary'[t] = NoSummary
          /\ lastSeen'[t] = NeverSeen /\ catalog'[t] = storage /\ unflushed'[t] = NothingPending
      BY <2>3 DEF Reload, StoreTypeOK
    <3>3. Flagged(shown'[t], live'[t], summary'[t], catalog'[t], lastSeen'[t], unflushed'[t], frame'[t])
      BY <3>2 DEF Flagged, Blank
    <3>4. QED
      BY <3>1, <3>3, OneTabSteps
  <2>4. CASE UNCHANGED storeVars
    BY <2>4 DEF NothingForgotten, storeVars, data
  <2>5. QED
    BY <2>1, <2>2, <2>3, <2>4 DEF StoreNext
<1>3. QED
  BY <1>1, <1>2, StoreTypeCorrect, PTL DEF StoreSpec

-----------------------------------------------------------------------------
(* TelemetryStore: the saved catalog.                                      *)

\* What is saved is known: only then does a later flush save no less.
SavedIsKnown == \A t \in Tabs : storage \subseteq catalog[t]

\* With one tab, what was saved of the catalog stays saved, through page loads at
\* any moment.  With two, each saves its own (see OneTab).
THEOREM SavedCatalogStays == OneTab => (StoreSpec => CatalogKept)
<1> SUFFICES ASSUME OneTab PROVE StoreSpec => CatalogKept
  OBVIOUS
<1>1. StoreInit => SavedIsKnown
  BY DEF StoreInit, SavedIsKnown
<1>2. StoreTypeOK /\ SavedIsKnown /\ [StoreNext]_storeVars
      => SavedIsKnown' /\ storage \subseteq storage'
  <2> SUFFICES ASSUME StoreTypeOK, SavedIsKnown, [StoreNext]_storeVars
               PROVE  SavedIsKnown' /\ storage \subseteq storage'
    OBVIOUS
  <2>1. ASSUME NEW t \in Tabs, Receive(t) PROVE SavedIsKnown' /\ storage \subseteq storage'
    <3>1. PICK s \in Sources, g \in Signals, a \in Assets \cup {NoAsset} :
             catalog' = [catalog EXCEPT ![t] = catalog[t] \cup {g}]
      BY <2>1 DEF Receive, HandleMessage
    <3>2. storage' = storage
      BY <2>1 DEF Receive
    <3>3. QED
      BY <3>1, <3>2 DEF SavedIsKnown, StoreTypeOK
  <2>2. ASSUME NEW t \in Tabs, Flush(t) PROVE SavedIsKnown' /\ storage \subseteq storage'
    <3>1. catalog' = catalog /\ storage \subseteq catalog[t]
      BY <2>2 DEF Flush, data, SavedIsKnown
    <3>2. storage' = storage \/ storage' = catalog[t]
      BY <2>2 DEF Flush
    <3>3. QED
      BY <3>1, <3>2 DEF SavedIsKnown, OneTab
  <2>3. ASSUME NEW t \in Tabs, Reload(t) PROVE SavedIsKnown' /\ storage \subseteq storage'
    BY <2>3 DEF Reload, SavedIsKnown, StoreTypeOK
  <2>4. CASE UNCHANGED storeVars
    BY <2>4 DEF SavedIsKnown, storeVars, data
  <2>5. QED
    BY <2>1, <2>2, <2>3, <2>4 DEF StoreNext
<1>3. QED
  BY <1>1, <1>2, StoreTypeCorrect, PTL DEF StoreSpec, CatalogKept
=============================================================================
