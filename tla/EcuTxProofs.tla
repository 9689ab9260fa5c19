----------------------------- MODULE EcuTxProofs -----------------------------
(***************************************************************************)
(* Proofs about EcuTx, for every table of messages, every depth of the     *)
(* driver's queue, any number of rounds and whatever the car does.         *)
(***************************************************************************)
EXTENDS EcuTx, SequenceTheorems, TLAPS

-----------------------------------------------------------------------------
(* Type correctness.                                                       *)

LEMMA Joined ==
    ASSUME NEW S, NEW s \in Seq(S), NEW t \in Seq(S)
    PROVE  /\ s \o t \in Seq(S) /\ Len(s \o t) = Len(s) + Len(t)
           /\ \A k \in 1..(Len(s) + Len(t)) :
                (s \o t)[k] = IF k <= Len(s) THEN s[k] ELSE t[k - Len(s)]
BY ConcatProperties

LEMMA Tables ==
    \A b \in Benches :
        /\ b.table \in Seq(Messages) /\ Len(b.table) \in Nat
        /\ b.rounds \in Nat /\ 1..Len(b.table) \subseteq Slots
BY EcuAssumption, LenProperties

\* The sizes the steps rely on.
LEMMA Bounds ==
    TypeOK => /\ NumMessages \in Nat /\ i \in Nat /\ i >= 1 /\ bench.rounds \in Nat
              /\ 1..NumMessages \subseteq Slots
              /\ Len(txq) \in Nat /\ Len(wire) \in Nat /\ Len(accepted) \in Nat
              /\ QueueDepth \in Nat \ {0}
<1> SUFFICES ASSUME TypeOK
             PROVE  /\ NumMessages \in Nat /\ i \in Nat /\ i >= 1 /\ bench.rounds \in Nat
                    /\ 1..NumMessages \subseteq Slots
                    /\ Len(txq) \in Nat /\ Len(wire) \in Nat /\ Len(accepted) \in Nat
                    /\ QueueDepth \in Nat \ {0}
  OBVIOUS
<1>1. NumMessages \in Nat /\ bench.rounds \in Nat /\ 1..NumMessages \subseteq Slots
  BY Tables DEF TypeOK, NumMessages
<1>2. Len(txq) \in Nat /\ Len(wire) \in Nat /\ Len(accepted) \in Nat
  BY LenProperties DEF TypeOK
<1>3. QED
  BY <1>1, <1>2, EcuAssumption DEF TypeOK

\* The ghost encoded, whose elements hold values of any kind.
IsList(s) == \E S : s \in Seq(S)
EncodedIsList == IsList(encoded)

LEMMA ListGrows ==
    ASSUME NEW s, IsList(s), NEW e
    PROVE  /\ IsList(Append(s, e)) /\ Len(s) \in Nat
           /\ Len(Append(s, e)) = Len(s) + 1
           /\ \A k \in 1..Len(s) : Append(s, e)[k] = s[k]
           /\ Append(s, e)[Len(s) + 1] = e
<1>1. PICK S : s \in Seq(S)
  BY DEF IsList
<1> DEFINE T == S \cup {e}
<1>2. Len(s) \in Nat /\ s \in [1..Len(s) -> S]
  BY <1>1, LenProperties
<1>3. s \in [1..Len(s) -> T]
  BY <1>2
<1>4. s \in Seq(T) /\ e \in T
  BY <1>2, <1>3
<1> HIDE DEF T
<1>5. Append(s, e) \in Seq(T)
  BY <1>4, AppendProperties
<1>6. QED
  BY <1>2, <1>4, <1>5, AppendProperties DEF IsList

LEMMA TypeInit == Init => TypeOK /\ EncodedIsList
<1> SUFFICES ASSUME Init PROVE TypeOK /\ EncodedIsList
  OBVIOUS
<1>1. \A S : << >> \in Seq(S) /\ Len(<< >>) = 0
  BY EmptySeq
<1>2. NumMessages \in Nat /\ bench.rounds \in Nat /\ bench \in Benches
  BY Tables DEF Init, NumMessages
<1>3. mem \in [Slots -> Frames]
  BY DEF Init, Frames
<1>4. IsList(encoded)
  BY <1>1 DEF Init, IsList
<1>5. QueueDepth \in Nat \ {0}
  BY EcuAssumption
<1>6. /\ txq \in Seq(1..NumMessages) /\ Len(txq) = 0
      /\ wire \in Seq(Frames) /\ accepted \in Seq(Frames)
      /\ Len(wire) = 0 /\ Len(accepted) = 0
  BY <1>1 DEF Init
<1>7. tick = 0 /\ i = 1 /\ pc = "loop"
  BY DEF Init
<1>8. late \in BOOLEAN
  BY DEF Init
<1>9. QED
  BY <1>2, <1>3, <1>4, <1>5, <1>6, <1>7, <1>8 DEF TypeOK, EncodedIsList

LEMMA TypeStep == TypeOK /\ EncodedIsList /\ [Next]_vars => TypeOK' /\ EncodedIsList'
<1> SUFFICES ASSUME TypeOK, EncodedIsList, [Next]_vars PROVE TypeOK' /\ EncodedIsList'
  OBVIOUS
<1>0. /\ NumMessages \in Nat /\ i \in Nat /\ i >= 1 /\ bench.rounds \in Nat
      /\ 1..NumMessages \subseteq Slots /\ QueueDepth \in Nat \ {0}
      /\ Len(txq) \in Nat /\ Len(wire) \in Nat /\ Len(accepted) \in Nat
  BY Bounds
<1>a. Count \in Nat
  BY ListGrows DEF Count, EncodedIsList
<1>b. ASSUME encoded' = encoded PROVE EncodedIsList'
  BY <1>b DEF EncodedIsList
<1>1. CASE Skip
  BY <1>0, <1>b, <1>1 DEF Skip, TypeOK, driver, NumMessages
<1>2. CASE EncodeFirst
  <2>1. mem' \in [Slots -> Frames]
    <3>1. mem' = [mem EXCEPT ![i].first = Count + 1] /\ Count + 1 \in Nat
      BY <1>2, <1>a DEF EncodeFirst, Slot
    <3>2. mem \in [Slots -> Frames]
      BY DEF TypeOK
    <3>3. QED
      BY <3>1, <3>2 DEF Frames
  <2>2. EncodedIsList'
    BY <1>2, ListGrows DEF EncodeFirst, EncodedIsList
  <2>3. QED
    BY <1>2, <2>1, <2>2 DEF EncodeFirst, TypeOK, NumMessages
<1>3. CASE EncodeRest
  <2>1. mem' \in [Slots -> Frames]
    BY <1>0, <1>3, <1>a DEF EncodeRest, TypeOK, Frames
  <2>2. QED
    BY <1>3, <1>b, <2>1 DEF EncodeRest, TypeOK, NumMessages
<1>4. CASE TransmitOk
  <2> DEFINE f == [message |-> i, first |-> Count, rest |-> Count]
  <2>1. f \in Frames /\ Slot(i) \in 1..NumMessages
    BY <1>0, <1>4, <1>a DEF TransmitOk, TypeOK, Frames, Slot
  <2>2. ~DriverFull /\ txq' = Append(txq, Slot(i)) /\ accepted' = Append(accepted, f)
    BY <1>4 DEF TransmitOk, Queue
  <2> HIDE DEF f
  <2>3. /\ txq' \in Seq(1..NumMessages) /\ Len(txq') = Len(txq) + 1
        /\ accepted' \in Seq(Frames) /\ Len(accepted') = Len(accepted) + 1
    BY <2>1, <2>2, AppendProperties DEF TypeOK
  <2>4. Len(txq') <= QueueDepth
    BY <1>0, <2>2, <2>3 DEF DriverFull
  <2>5. Len(wire') + Len(txq') = Len(accepted')
    <3>1. Len(wire') = Len(wire)
      BY <1>4 DEF TransmitOk, Queue
    <3>2. Len(wire) + Len(txq) = Len(accepted)
      BY DEF TypeOK
    <3>3. Len(txq') = Len(txq) + 1 /\ Len(accepted') = Len(accepted) + 1
      BY <2>3
    <3>4. QED
      BY <1>0, <3>1, <3>2, <3>3
  <2>6. i' \in 1..(NumMessages' + 1) /\ pc' = "loop" /\ NumMessages' = NumMessages
    <3>1. /\ i' = i + 1 /\ pc' = "loop" /\ bench' = bench
          /\ pc = "transmit" /\ i <= NumMessages
      BY <1>4 DEF TransmitOk, TypeOK
    <3>2. QED
      BY <1>0, <3>1 DEF NumMessages
  <2>7. QED
    BY <1>4, <1>b, <2>3, <2>4, <2>5, <2>6 DEF TransmitOk, Queue, TypeOK
<1>5. CASE TransmitFail
  BY <1>0, <1>5, <1>b DEF TransmitFail, TypeOK, driver, NumMessages
<1>6. CASE EndRound
  BY <1>0, <1>6, <1>b DEF EndRound, TypeOK, driver, NumMessages
<1>7. CASE NextRound
  BY <1>0, <1>7, <1>b DEF NextRound, TypeOK, driver, NumMessages
<1>8. CASE Transmit
  <2>1. /\ txq # << >> /\ txq' = Tail(txq) /\ wire' = Append(wire, mem[Head(txq)])
        /\ UNCHANGED <<mem, accepted, tick, i, pc, bench, encoded, late>>
    BY <1>8 DEF Transmit, PutOnBus
  <2>2. Head(txq) \in 1..NumMessages /\ txq' \in Seq(1..NumMessages) /\ Len(txq') = Len(txq) - 1
    BY <2>1, HeadTailProperties DEF TypeOK
  <2>3. mem[Head(txq)] \in Frames
    BY <1>0, <2>2 DEF TypeOK
  <2>4. wire' \in Seq(Frames) /\ Len(wire') = Len(wire) + 1
    BY <2>1, <2>3, AppendProperties DEF TypeOK
  <2>5. NumMessages' = NumMessages /\ EncodedIsList'
    BY <1>b, <2>1 DEF NumMessages
  <2>6. /\ txq' \in Seq(1..NumMessages') /\ Len(txq') <= QueueDepth
        /\ Len(wire') + Len(txq') = Len(accepted')
    <3>1. Len(txq) <= QueueDepth /\ Len(wire) + Len(txq) = Len(accepted)
      BY DEF TypeOK
    <3>2. QED
      BY <1>0, <2>1, <2>2, <2>4, <2>5, <3>1
  <2>7. QED
    BY <2>1, <2>4, <2>5, <2>6 DEF TypeOK
<1>9. CASE UNCHANGED vars
  BY <1>9, <1>b DEF vars, driver, task, TypeOK, NumMessages
<1>10. QED
  BY <1>1, <1>2, <1>3, <1>4, <1>5, <1>6, <1>7, <1>8, <1>9 DEF Next

\* can_tx_task keeps its types, its index within the table, and the driver's queue
\* within its depth.
THEOREM TypeCorrect == Spec => [](TypeOK /\ EncodedIsList)
BY TypeInit, TypeStep, PTL DEF Spec

-----------------------------------------------------------------------------
(* Frames on a bus that keeps up.                                          *)

\* What Intact needs to be inductive, as long as no round begins before the
\* driver's queue is empty: the queue points to buffers before the one in hand, and
\* that one holds the latest encoding when it is handed over.
HandedOver ==
    /\ pc \in {"encode", "transmit"} => mem[i].first = Count
    /\ pc = "transmit" => mem[i].rest = Count /\ mem[i].message = i
    /\ ~late =>
         /\ \A k \in 1..Len(wire) : accepted[k] = wire[k]
         /\ \A k \in 1..Len(txq) :
              txq[k] < i /\ accepted[Len(wire) + k] = mem[txq[k]]

LEMMA HandedOverInit == Init => HandedOver
BY EmptySeq DEF Init, HandedOver

LEMMA HandedOverStep ==
    TypeOK /\ EncodedIsList /\ HandedOver /\ [Next]_vars => HandedOver'
<1> SUFFICES ASSUME TypeOK, EncodedIsList, HandedOver, [Next]_vars PROVE HandedOver'
  OBVIOUS
<1>0. /\ NumMessages \in Nat /\ i \in Nat /\ i >= 1
      /\ 1..NumMessages \subseteq Slots
      /\ Len(txq) \in Nat /\ Len(wire) \in Nat /\ Len(accepted) \in Nat
      /\ Len(wire) + Len(txq) = Len(accepted)
  BY Bounds DEF TypeOK
<1>a. Count \in Nat
  BY ListGrows DEF Count, EncodedIsList
<1>b. /\ \A k \in 1..Len(txq) : txq[k] \in 1..NumMessages
      /\ mem \in [Slots -> Frames]
  BY ElementOfSeq DEF TypeOK
<1>1. CASE Skip
  BY <1>0, <1>1, <1>b DEF Skip, HandedOver, driver, Count
<1>2. CASE EncodeFirst
  <2>1. /\ i <= NumMessages /\ pc' = "encode" /\ i \in Slots
        /\ mem' = [mem EXCEPT ![i].first = Count + 1]
        /\ UNCHANGED <<txq, wire, accepted, i, late>>
    BY <1>0, <1>2 DEF EncodeFirst, Slot
  <2>2. Count' = Count + 1
    BY <1>2, ListGrows DEF EncodeFirst, Count, EncodedIsList
  <2>3. mem'[i].first = Count'
    BY <1>b, <2>1, <2>2 DEF Frames
  <2>4. \A s \in Slots : s # i => mem'[s] = mem[s]
    BY <1>b, <2>1
  <2>5. ASSUME ~late, NEW k \in 1..Len(txq)
        PROVE  txq[k] < i /\ accepted[Len(wire) + k] = mem'[txq[k]]
    <3>1. txq[k] < i /\ accepted[Len(wire) + k] = mem[txq[k]]
      BY <2>5 DEF HandedOver
    <3>2. txq[k] \in Slots /\ txq[k] # i
      BY <1>0, <1>b, <3>1
    <3>3. QED
      BY <2>4, <3>1, <3>2
  <2>6. QED
    BY <2>1, <2>3, <2>5 DEF HandedOver
<1>3. CASE EncodeRest
  <2>1. /\ pc = "encode" /\ i <= NumMessages /\ pc' = "transmit" /\ i \in Slots
        /\ mem' = [mem EXCEPT ![i].rest = Count, ![i].message = i]
        /\ UNCHANGED <<txq, wire, accepted, i, late, encoded>>
    BY <1>0, <1>3 DEF EncodeRest, Slot, TypeOK
  <2>2. mem'[i].first = Count /\ mem'[i].rest = Count /\ mem'[i].message = i
    BY <1>b, <2>1 DEF HandedOver, Frames
  <2>3. \A s \in Slots : s # i => mem'[s] = mem[s]
    BY <1>b, <2>1
  <2>4. ASSUME ~late, NEW k \in 1..Len(txq)
        PROVE  txq[k] < i /\ accepted[Len(wire) + k] = mem'[txq[k]]
    <3>1. txq[k] < i /\ accepted[Len(wire) + k] = mem[txq[k]]
      BY <2>4 DEF HandedOver
    <3>2. txq[k] \in Slots /\ txq[k] # i
      BY <1>0, <1>b, <3>1
    <3>3. QED
      BY <2>3, <3>1, <3>2
  <2>5. QED
    BY <2>1, <2>2, <2>4 DEF HandedOver, Count
<1>4. CASE TransmitOk
  <2> DEFINE f == [message |-> i, first |-> Count, rest |-> Count]
  <2>1. /\ pc = "transmit" /\ i <= NumMessages /\ i \in Slots /\ i \in 1..NumMessages
        /\ txq' = Append(txq, i) /\ accepted' = Append(accepted, f)
        /\ i' = i + 1 /\ pc' = "loop"
        /\ UNCHANGED <<mem, wire, late>>
    BY <1>0, <1>4 DEF TransmitOk, Queue, Slot, TypeOK
  <2>2. f \in Frames /\ mem[i] \in Frames
    BY <1>0, <1>a, <1>b, <2>1 DEF Frames
  <2>3. mem[i] = f
    BY <2>1, <2>2 DEF HandedOver, Frames
  <2> HIDE DEF f
  <2>4. /\ Len(txq') = Len(txq) + 1
        /\ \A k \in 1..Len(txq) : txq'[k] = txq[k]
        /\ txq'[Len(txq) + 1] = i
        /\ \A k \in 1..Len(accepted) : accepted'[k] = accepted[k]
        /\ accepted'[Len(accepted) + 1] = f
    BY <2>1, <2>2, AppendProperties DEF TypeOK
  <2>5. ASSUME ~late, NEW k \in 1..Len(wire) PROVE accepted'[k] = wire[k]
    BY <1>0, <2>4, <2>5 DEF HandedOver
  <2>6. ASSUME ~late, NEW k \in 1..Len(txq')
        PROVE  txq'[k] < i' /\ accepted'[Len(wire) + k] = mem[txq'[k]]
    <3>1. CASE k \in 1..Len(txq)
      <4>1. txq[k] < i /\ accepted[Len(wire) + k] = mem[txq[k]]
        BY <2>6, <3>1 DEF HandedOver
      <4>2. Len(wire) + k \in 1..Len(accepted) /\ txq[k] \in Nat
        BY <1>0, <1>b, <3>1
      <4>3. QED
        BY <1>0, <2>1, <2>4, <3>1, <4>1, <4>2
    <3>2. CASE k = Len(txq) + 1
      <4>1. Len(wire) + k = Len(accepted) + 1
        BY <1>0, <3>2
      <4>2. QED
        BY <1>0, <2>1, <2>3, <2>4, <3>2, <4>1
    <3>3. QED
      BY <1>0, <2>4, <3>1, <3>2
  <2>7. QED
    BY <2>1, <2>5, <2>6 DEF HandedOver
<1>5. CASE TransmitFail
  BY <1>0, <1>5, <1>b DEF TransmitFail, HandedOver, driver, Count
<1>6. CASE EndRound
  BY <1>6 DEF EndRound, HandedOver, driver
<1>7. CASE NextRound
  <2>1. pc' = "loop" /\ UNCHANGED <<wire, txq, accepted, mem>>
    BY <1>7 DEF NextRound, driver
  <2>2. ~late' => ~late /\ txq = << >>
    BY <1>7 DEF NextRound
  <2>3. txq = << >> => Len(txq) = 0
    BY EmptySeq
  <2>4. QED
    BY <2>1, <2>2, <2>3 DEF HandedOver
<1>8. CASE Transmit
  <2>1. /\ txq # << >> /\ txq' = Tail(txq) /\ wire' = Append(wire, mem[Head(txq)])
        /\ UNCHANGED <<mem, accepted, i, pc, encoded, late>>
    BY <1>8 DEF Transmit, PutOnBus
  <2>2. /\ Len(txq) > 0 /\ Len(txq') = Len(txq) - 1 /\ Head(txq) = txq[1]
        /\ \A k \in 1..Len(txq') : txq'[k] = txq[k + 1]
    BY <1>0, <2>1, HeadTailProperties, EmptySeq DEF TypeOK
  <2>3. mem[Head(txq)] \in Frames
    BY <1>0, <1>b, <2>2
  <2>4. /\ Len(wire') = Len(wire) + 1
        /\ \A k \in 1..Len(wire) : wire'[k] = wire[k]
        /\ wire'[Len(wire) + 1] = mem[txq[1]]
    BY <2>1, <2>2, <2>3, AppendProperties DEF TypeOK
  <2>5. ASSUME ~late, NEW k \in 1..Len(wire') PROVE accepted[k] = wire'[k]
    <3>1. CASE k \in 1..Len(wire)
      BY <2>4, <2>5, <3>1 DEF HandedOver
    <3>2. CASE k = Len(wire) + 1
      <4>1. 1 \in 1..Len(txq)
        BY <1>0, <2>2
      <4>2. QED
        BY <2>4, <2>5, <3>2, <4>1 DEF HandedOver
    <3>3. QED
      BY <1>0, <2>4, <3>1, <3>2
  <2>6. ASSUME ~late, NEW k \in 1..Len(txq')
        PROVE  txq'[k] < i /\ accepted[Len(wire') + k] = mem[txq'[k]]
    <3>1. k + 1 \in 1..Len(txq) /\ Len(wire') + k = Len(wire) + (k + 1)
      BY <1>0, <2>2, <2>4
    <3>2. QED
      BY <2>2, <2>6, <3>1 DEF HandedOver
  <2>7. QED
    BY <2>1, <2>5, <2>6 DEF HandedOver, Count
<1>9. CASE UNCHANGED vars
  BY <1>9 DEF vars, driver, task, HandedOver, Count
<1>10. QED
  BY <1>1, <1>2, <1>3, <1>4, <1>5, <1>6, <1>7, <1>8, <1>9 DEF Next

\* While the driver's queue is empty when a round begins, every frame goes out as it
\* was handed in, whatever table, however long a round.
THEOREM FramesGoOutIntact == Spec => []FramesIntact
<1>1. TypeOK /\ HandedOver => FramesIntact
  <2> SUFFICES ASSUME TypeOK, HandedOver, ~late
               PROVE  wire \o [k \in 1..Len(txq) |-> mem[txq[k]]] = accepted
    BY DEF FramesIntact, Intact
  <2> DEFINE rest == [k \in 1..Len(txq) |-> mem[txq[k]]]
  <2>0. /\ Len(txq) \in Nat /\ Len(wire) \in Nat /\ Len(accepted) \in Nat
        /\ 1..NumMessages \subseteq Slots
        /\ wire \in Seq(Frames) /\ accepted \in Seq(Frames) /\ mem \in [Slots -> Frames]
        /\ Len(wire) + Len(txq) = Len(accepted)
    BY Bounds DEF TypeOK
  <2>1. \A k \in 1..Len(txq) : mem[txq[k]] \in Frames
    <3>1. \A k \in 1..Len(txq) : txq[k] \in 1..NumMessages
      BY ElementOfSeq DEF TypeOK
    <3>2. QED
      BY <2>0, <3>1
  <2>2. /\ rest \in Seq(Frames) /\ Len(rest) = Len(txq)
        /\ \A k \in 1..Len(txq) : rest[k] = mem[txq[k]]
    BY <2>0, <2>1
  <2> HIDE DEF rest
  <2>a. Len(rest) = Len(txq) /\ rest \in Seq(Frames) /\ wire \in Seq(Frames)
    BY <2>0, <2>2
  <2> DEFINE all == wire \o rest
  <2>b. /\ all \in Seq(Frames) /\ Len(all) = Len(wire) + Len(rest)
        /\ \A k \in 1..(Len(wire) + Len(rest)) :
              all[k] = IF k <= Len(wire) THEN wire[k] ELSE rest[k - Len(wire)]
    BY <2>a, Joined, Zenon
  <2> HIDE DEF all
  <2>3. /\ all \in Seq(Frames) /\ Len(all) = Len(wire) + Len(txq)
        /\ \A k \in 1..(Len(wire) + Len(txq)) :
              all[k] = IF k <= Len(wire) THEN wire[k] ELSE rest[k - Len(wire)]
    BY <2>a, <2>b
  <2>4. ASSUME NEW k \in 1..Len(accepted) PROVE all[k] = accepted[k]
    <3>1. CASE k <= Len(wire)
      <4>1. k \in 1..Len(wire)
        BY <2>0, <3>1
      <4>2. QED
        BY <2>0, <2>3, <3>1, <4>1 DEF HandedOver
    <3>2. CASE ~(k <= Len(wire))
      <4>1. k - Len(wire) \in 1..Len(txq) /\ Len(wire) + (k - Len(wire)) = k
        BY <2>0, <3>2
      <4>2. accepted[Len(wire) + (k - Len(wire))] = rest[k - Len(wire)]
        BY <2>2, <4>1 DEF HandedOver
      <4>3. QED
        BY <2>0, <2>3, <3>2, <4>1, <4>2
    <3>3. QED
      BY <3>1, <3>2
  <2>5. all = accepted
    BY <2>0, <2>3, <2>4, SeqEqual
  <2>6. QED
    BY <2>5 DEF all, rest
<1>2. QED
  BY <1>1, HandedOverInit, HandedOverStep, TypeCorrect, PTL DEF Spec

-----------------------------------------------------------------------------
(* Frames on a bus that does not.                                          *)

\* A buffer holds encodings of its own message only, its rest never newer than its
\* first part, and it has been complete once when the queue points to it.
Buffers ==
    /\ pc \in {"encode", "transmit"} => Count > 0
    /\ \A m \in 1..NumMessages :
         /\ mem[m].message \in {0, m}
         /\ mem[m].first <= Count /\ mem[m].rest <= mem[m].first
         /\ mem[m].first > 0 => encoded[mem[m].first].message = m
         /\ mem[m].rest > 0 => encoded[mem[m].rest].message = m
    /\ \A k \in 1..Len(txq) : mem[txq[k]].message = txq[k] /\ mem[txq[k]].rest > 0

\* What went out is no newer than what the buffer of its message holds now.
NotNewer ==
    \A k \in 1..Len(wire) :
        /\ wire[k].message \in 1..NumMessages
        /\ wire[k].first <= mem[wire[k].message].first
        /\ wire[k].rest <= mem[wire[k].message].rest

LEMMA BuffersInit == Init => Buffers /\ NotNewer /\ NeverOlder
<1> SUFFICES ASSUME Init PROVE Buffers /\ NotNewer /\ NeverOlder
  OBVIOUS
<1>1. Len(txq) = 0 /\ Len(wire) = 0 /\ Count = 0
  BY EmptySeq DEF Init, Count
<1>2. 1..NumMessages \subseteq Slots
  BY Tables DEF Init, NumMessages
<1>3. \A m \in 1..NumMessages : mem[m] = [message |-> 0, first |-> 0, rest |-> 0]
  BY <1>2 DEF Init
<1>4. Buffers
  BY <1>1, <1>3 DEF Init, Buffers
<1>5. QED
  BY <1>1, <1>4 DEF NotNewer, NeverOlder

\* Steps that leave the buffers, the queue and the bus alone.
LEMMA BuffersKept ==
    ASSUME Buffers, NotNewer, NeverOlder, UNCHANGED <<driver, bench, encoded>>,
           pc' \in {"encode", "transmit"} => pc \in {"encode", "transmit"}
    PROVE  Buffers' /\ NotNewer' /\ NeverOlder'
<1>1. UNCHANGED <<mem, txq, wire, bench, encoded, Count, NumMessages>>
  BY DEF driver, Count, NumMessages
<1>2. QED
  BY <1>1 DEF Buffers, NotNewer, NeverOlder

LEMMA BuffersStep ==
    /\ TypeOK /\ EncodedIsList /\ HandedOver /\ [Next]_vars
    /\ Buffers /\ NotNewer /\ NeverOlder
    => Buffers' /\ NotNewer' /\ NeverOlder'
<1> SUFFICES ASSUME TypeOK, EncodedIsList, HandedOver, [Next]_vars,
                    Buffers, NotNewer, NeverOlder
             PROVE  Buffers' /\ NotNewer' /\ NeverOlder'
  OBVIOUS
<1>0. /\ NumMessages \in Nat /\ i \in Nat /\ i >= 1
      /\ 1..NumMessages \subseteq Slots
      /\ Len(txq) \in Nat /\ Len(wire) \in Nat
  BY Bounds DEF TypeOK
<1>a. Count \in Nat
  BY ListGrows DEF Count, EncodedIsList
<1>b. /\ \A k \in 1..Len(txq) : txq[k] \in 1..NumMessages
      /\ \A k \in 1..Len(wire) : wire[k] \in Frames
      /\ mem \in [Slots -> Frames]
  BY ElementOfSeq DEF TypeOK
<1>c. \A m \in 1..NumMessages :
        mem[m] \in Frames /\ mem[m].first \in Nat /\ mem[m].rest \in Nat
  BY <1>0, <1>b DEF Frames
<1>d. \A k \in 1..Len(wire) : wire[k].first \in Nat /\ wire[k].rest \in Nat
  BY <1>b DEF Frames
<1>1. CASE Skip \/ TransmitFail \/ EndRound \/ NextRound
  BY <1>1, BuffersKept DEF Skip, TransmitFail, EndRound, NextRound, driver
<1>2. CASE EncodeFirst
  <2>1. /\ i <= NumMessages /\ i \in Slots /\ i \in 1..NumMessages
        /\ mem' = [mem EXCEPT ![i].first = Count + 1]
        /\ UNCHANGED <<txq, wire, bench>>
    BY <1>0, <1>2 DEF EncodeFirst, Slot
  <2>2. /\ Count' = Count + 1 /\ encoded'[Count + 1].message = i
        /\ \A k \in 1..Count : encoded'[k] = encoded[k]
    <3>1. PICK e : encoded' = Append(encoded, e) /\ e.message = i
      BY <1>2 DEF EncodeFirst
    <3>2. QED
      BY <3>1, ListGrows DEF Count, EncodedIsList
  <2>3. NumMessages' = NumMessages
    BY <2>1 DEF NumMessages
  <2>4. /\ mem'[i].first = Count + 1 /\ mem'[i].rest = mem[i].rest
        /\ mem'[i].message = mem[i].message
        /\ \A m \in 1..NumMessages : m # i => mem'[m] = mem[m]
    BY <1>0, <1>b, <2>1 DEF Frames
  <2>5. ASSUME NEW m \in 1..NumMessages
        PROVE  /\ mem'[m].message = mem[m].message
               /\ mem'[m].first >= mem[m].first /\ mem'[m].rest = mem[m].rest
               /\ mem'[m].first <= Count + 1 /\ mem'[m].rest <= mem'[m].first
               /\ mem'[m].first > 0 => encoded'[mem'[m].first].message = m
               /\ mem'[m].rest > 0 => encoded'[mem'[m].rest].message = m
    <3>1. /\ mem[m].first <= Count /\ mem[m].rest <= mem[m].first
          /\ mem[m].first \in Nat /\ mem[m].rest \in Nat
          /\ mem[m].first > 0 => encoded[mem[m].first].message = m
          /\ mem[m].rest > 0 => encoded[mem[m].rest].message = m
      BY <1>c DEF Buffers
    <3>2. /\ mem[m].first > 0 => encoded'[mem[m].first].message = m
          /\ mem[m].rest > 0 => encoded'[mem[m].rest].message = m
      BY <1>a, <2>2, <3>1
    <3>3. CASE m = i
      BY <1>a, <2>2, <2>4, <3>1, <3>2, <3>3
    <3>4. CASE m # i
      BY <1>a, <2>4, <3>1, <3>2, <3>4
    <3>5. QED
      BY <3>3, <3>4
  <2>6. Buffers'
    <3>1. \A k \in 1..Len(txq) : mem'[txq[k]].message = txq[k] /\ mem'[txq[k]].rest > 0
      BY <1>b, <2>5 DEF Buffers
    <3>2. \A m \in 1..NumMessages : mem'[m].message \in {0, m}
      BY <2>5 DEF Buffers
    <3>3. QED
      BY <1>a, <2>1, <2>2, <2>3, <2>5, <3>1, <3>2 DEF Buffers
  <2>7. NotNewer'
    <3> SUFFICES ASSUME NEW k \in 1..Len(wire)
                 PROVE  /\ wire[k].message \in 1..NumMessages
                        /\ wire[k].first <= mem'[wire[k].message].first
                        /\ wire[k].rest <= mem'[wire[k].message].rest
      BY <2>1, <2>3 DEF NotNewer
    <3> DEFINE m == wire[k].message
    <3>1. m \in 1..NumMessages /\ wire[k].first <= mem[m].first /\ wire[k].rest <= mem[m].rest
      BY DEF NotNewer
    <3> HIDE DEF m
    <3>2. mem'[m].first >= mem[m].first /\ mem'[m].rest = mem[m].rest /\ mem'[m].first \in Nat
      <4>1. mem'[m].first \in Nat
        BY <1>a, <1>c, <2>4, <3>1
      <4>2. QED
        BY <2>5, <3>1, <4>1
    <3>3. wire[k].first <= mem'[m].first /\ wire[k].rest <= mem'[m].rest
      BY <1>c, <1>d, <3>1, <3>2
    <3>4. QED
      BY <3>1, <3>3 DEF m
  <2>8. NeverOlder'
    BY <1>a, <1>d, <2>1, <2>2 DEF NeverOlder
  <2>9. QED
    BY <2>6, <2>7, <2>8
<1>3. CASE EncodeRest
  <2>1. /\ pc = "encode" /\ i <= NumMessages /\ i \in Slots /\ i \in 1..NumMessages
        /\ mem' = [mem EXCEPT ![i].rest = Count, ![i].message = i]
        /\ UNCHANGED <<txq, wire, bench, encoded>>
    BY <1>0, <1>3 DEF EncodeRest, Slot, TypeOK
  <2>2. Count' = Count /\ NumMessages' = NumMessages
    BY <2>1 DEF Count, NumMessages
  <2>3. /\ mem'[i].first = Count /\ mem'[i].rest = Count /\ mem'[i].message = i
        /\ mem[i].first = Count
        /\ \A m \in 1..NumMessages : m # i => mem'[m] = mem[m]
    BY <1>0, <1>b, <2>1 DEF HandedOver, Frames
  <2>4. ASSUME NEW m \in 1..NumMessages
        PROVE  /\ mem'[m].message \in {mem[m].message, m}
               /\ mem'[m].first = mem[m].first /\ mem'[m].rest >= mem[m].rest
               /\ mem'[m].first <= Count /\ mem'[m].rest <= mem'[m].first
               /\ mem'[m].rest \in Nat
               /\ mem'[m].rest > 0 => encoded[mem'[m].rest].message = m
    <3>1. /\ mem[m].first <= Count /\ mem[m].rest <= mem[m].first
          /\ mem[m].first \in Nat /\ mem[m].rest \in Nat
          /\ mem[m].first > 0 => encoded[mem[m].first].message = m
          /\ mem[m].rest > 0 => encoded[mem[m].rest].message = m
      BY <1>c DEF Buffers
    <3>2. CASE m = i
      BY <1>a, <2>3, <3>1, <3>2
    <3>3. CASE m # i
      BY <1>a, <2>3, <3>1, <3>3
    <3>4. QED
      BY <3>2, <3>3
  <2>5. Buffers'
    <3>1. \A m \in 1..NumMessages : mem'[m].message \in {0, m}
      BY <2>4 DEF Buffers
    <3>2. \A m \in 1..NumMessages : mem'[m].first > 0 => encoded[mem'[m].first].message = m
      BY <2>4 DEF Buffers
    <3>3. ASSUME NEW k \in 1..Len(txq)
          PROVE  mem'[txq[k]].message = txq[k] /\ mem'[txq[k]].rest > 0
      <4>1. txq[k] \in 1..NumMessages /\ mem[txq[k]].message = txq[k] /\ mem[txq[k]].rest > 0
        BY <1>b DEF Buffers
      <4>2. mem'[txq[k]].message = txq[k] /\ mem'[txq[k]].rest >= mem[txq[k]].rest
        BY <2>4, <4>1
      <4>3. QED
        BY <1>c, <2>4, <4>1, <4>2
    <3>4. Count > 0
      BY <2>1 DEF Buffers
    <3>5. \A m \in 1..NumMessages :
            /\ mem'[m].message \in {0, m}
            /\ mem'[m].first <= Count /\ mem'[m].rest <= mem'[m].first
            /\ mem'[m].first > 0 => encoded[mem'[m].first].message = m
            /\ mem'[m].rest > 0 => encoded[mem'[m].rest].message = m
      BY <2>4, <3>1, <3>2
    <3>6. UNCHANGED <<txq, encoded, Count, NumMessages>>
      BY <2>1, <2>2
    <3>7. QED
      BY <3>3, <3>4, <3>5, <3>6 DEF Buffers
  <2>6. NotNewer'
    <3> SUFFICES ASSUME NEW k \in 1..Len(wire)
                 PROVE  /\ wire[k].message \in 1..NumMessages
                        /\ wire[k].first <= mem'[wire[k].message].first
                        /\ wire[k].rest <= mem'[wire[k].message].rest
      BY <2>1, <2>2 DEF NotNewer
    <3> DEFINE m == wire[k].message
    <3>1. m \in 1..NumMessages /\ wire[k].first <= mem[m].first /\ wire[k].rest <= mem[m].rest
      BY DEF NotNewer
    <3> HIDE DEF m
    <3>2. mem'[m].first = mem[m].first /\ mem'[m].rest >= mem[m].rest /\ mem'[m].rest \in Nat
      BY <2>4, <3>1
    <3>3. wire[k].first <= mem'[m].first /\ wire[k].rest <= mem'[m].rest
      BY <1>c, <1>d, <3>1, <3>2
    <3>4. QED
      BY <3>1, <3>3 DEF m
  <2>7. NeverOlder'
    BY <2>1, <2>2 DEF NeverOlder
  <2>8. QED
    BY <2>5, <2>6, <2>7
<1>4. CASE TransmitOk
  <2>1. /\ pc = "transmit" /\ pc' = "loop" /\ i \in 1..NumMessages
        /\ txq' = Append(txq, i)
        /\ UNCHANGED <<mem, wire, bench, encoded>>
    BY <1>0, <1>4 DEF TransmitOk, Queue, Slot, TypeOK
  <2>2. Count' = Count /\ NumMessages' = NumMessages
    BY <2>1 DEF Count, NumMessages
  <2>3. mem[i].message = i /\ mem[i].rest = Count /\ Count > 0
    BY <2>1 DEF HandedOver, Buffers
  <2>4. /\ Len(txq') = Len(txq) + 1
        /\ \A k \in 1..Len(txq) : txq'[k] = txq[k]
        /\ txq'[Len(txq) + 1] = i
    BY <2>1, AppendProperties DEF TypeOK
  <2>5. ASSUME NEW k \in 1..Len(txq')
        PROVE  mem[txq'[k]].message = txq'[k] /\ mem[txq'[k]].rest > 0
    <3>1. CASE k \in 1..Len(txq)
      BY <2>4, <3>1 DEF Buffers
    <3>2. CASE k = Len(txq) + 1
      BY <1>a, <2>3, <2>4, <3>2
    <3>3. QED
      BY <1>0, <2>4, <3>1, <3>2
  <2>6. Buffers'
    BY <2>1, <2>2, <2>5 DEF Buffers
  <2>7. NotNewer' /\ NeverOlder'
    BY <2>1, <2>2 DEF NotNewer, NeverOlder
  <2>8. QED
    BY <2>6, <2>7
<1>5. CASE Transmit
  <2> DEFINE m == Head(txq)
             f == mem[m]
  <2>1. /\ txq # << >> /\ txq' = Tail(txq) /\ wire' = Append(wire, f)
        /\ UNCHANGED <<mem, pc, bench, encoded>>
    BY <1>5 DEF Transmit, PutOnBus
  <2>2. Count' = Count /\ NumMessages' = NumMessages
    BY <2>1 DEF Count, NumMessages
  <2>3. /\ Len(txq) > 0 /\ Len(txq') = Len(txq) - 1 /\ m = txq[1]
        /\ \A k \in 1..Len(txq') : txq'[k] = txq[k + 1]
    BY <1>0, <2>1, HeadTailProperties, EmptySeq DEF TypeOK
  <2>4. 1 \in 1..Len(txq) /\ \A k \in 1..Len(txq') : k + 1 \in 1..Len(txq)
    BY <1>0, <2>3
  <2>5. m \in 1..NumMessages /\ f \in Frames /\ f.message = m /\ f.rest > 0
    BY <1>b, <1>c, <2>3, <2>4 DEF Buffers
  <2>6. /\ f.first \in 1..Count /\ f.rest \in 1..f.first
        /\ encoded[f.first].message = m /\ encoded[f.rest].message = m
    <3>1. /\ f.first \in Nat /\ f.rest \in Nat
          /\ f.first <= Count /\ f.rest <= f.first
          /\ f.first > 0 => encoded[f.first].message = m
          /\ f.rest > 0 => encoded[f.rest].message = m
      BY <1>c, <2>5 DEF Buffers
    <3>2. QED
      BY <1>a, <2>5, <3>1
  <2> HIDE DEF f
  <2>7. /\ Len(wire') = Len(wire) + 1
        /\ \A k \in 1..Len(wire) : wire'[k] = wire[k]
        /\ wire'[Len(wire) + 1] = f
    BY <2>1, <2>5, AppendProperties DEF TypeOK
  <2>8. \A k \in 1..Len(wire') : k \in 1..Len(wire) \/ k = Len(wire) + 1
    BY <1>0, <2>7
  <2>9. Buffers'
    BY <2>1, <2>2, <2>3, <2>4 DEF Buffers
  <2>10. NotNewer'
    <3>1. f.first <= mem[f.message].first /\ f.rest <= mem[f.message].rest
      BY <1>c, <2>5 DEF f
    <3>2. ASSUME NEW k \in 1..Len(wire')
          PROVE  /\ wire'[k].message \in 1..NumMessages
                 /\ wire'[k].first <= mem[wire'[k].message].first
                 /\ wire'[k].rest <= mem[wire'[k].message].rest
      BY <2>5, <2>7, <2>8, <3>1 DEF NotNewer
    <3>3. QED
      BY <2>1, <2>2, <3>2 DEF NotNewer
  <2>11. ASSUME NEW k \in 1..Len(wire')
         PROVE  /\ wire'[k].first \in 1..Count
                /\ encoded[wire'[k].first].message = wire'[k].message
                /\ wire'[k].rest \in 1..wire'[k].first
                /\ encoded[wire'[k].rest].message = wire'[k].message
    <3>1. CASE k \in 1..Len(wire)
      BY <2>7, <3>1 DEF NeverOlder
    <3>2. CASE k = Len(wire) + 1
      BY <2>5, <2>6, <2>7, <3>2
    <3>3. QED
      BY <2>8, <3>1, <3>2
  <2>12. ASSUME NEW k \in 1..Len(wire'), NEW l \in 1..Len(wire'),
                k < l, wire'[k].message = wire'[l].message
         PROVE  wire'[k].first <= wire'[l].first /\ wire'[k].rest <= wire'[l].rest
    <3>1. k \in 1..Len(wire) /\ wire'[k] = wire[k]
      BY <1>0, <2>7, <2>12
    <3>2. CASE l \in 1..Len(wire)
      BY <2>7, <2>12, <3>1, <3>2 DEF NeverOlder
    <3>3. CASE l = Len(wire) + 1
      <4>1. wire'[l] = f /\ wire[k].message = m
        BY <2>5, <2>7, <2>12, <3>1, <3>3
      <4>2. wire[k].first <= mem[m].first /\ wire[k].rest <= mem[m].rest
        BY <3>1, <4>1 DEF NotNewer
      <4>3. QED
        BY <3>1, <4>1, <4>2 DEF f
    <3>4. QED
      BY <2>8, <3>2, <3>3
  <2>13. NeverOlder'
    BY <2>1, <2>2, <2>11, <2>12 DEF NeverOlder
  <2>14. QED
    BY <2>9, <2>10, <2>13
<1>6. CASE UNCHANGED vars
  BY <1>6, BuffersKept DEF vars, driver, task
<1>7. QED
  BY <1>1, <1>2, <1>3, <1>4, <1>5, <1>6 DEF Next

\* However busy the bus, what goes out as a message is that message's, and never older
\* than what went out before.
THEOREM NothingOlderGoesOut == Spec => []NeverOlder
BY BuffersInit, BuffersStep, HandedOverInit, HandedOverStep, TypeCorrect, PTL DEF Spec

-----------------------------------------------------------------------------
(* The output currents.                                                    *)

\* The bank of the output currents.
LEMMA CurrentsBank ==
    /\ Len(Currents) = 30
    /\ \A n \in 2..5 :
         /\ Banked(<<"PD", n>>)
         /\ BankOf(<<"PD", n>>) = [first |-> 2, last |-> 5, array |-> Currents, slice |-> 8]
<1>1. Len(Currents) = 30
  BY DEF Currents, Row
<1> HIDE DEF Currents
<1>2. ASSUME NEW n \in 2..5, NEW b \in Banks
      PROVE  InBank(<<"PD", n>>, b)
               <=> b = [first |-> 2, last |-> 5, array |-> Currents, slice |-> 8]
  BY DEF Banks, InBank
<1>3. [first |-> 2, last |-> 5, array |-> Currents, slice |-> 8] \in Banks
  BY DEF Banks
<1>4. QED
  BY <1>1, <1>2, <1>3 DEF Banked, BankOf

LEMMA PdMessages ==
    /\ Channels[<<"PD", 2>>] = Currents
    /\ \A n \in 1..5 : <<"PD", n>> \in Messages /\ PeriodTicks[<<"PD", n>>] = 5
<1>1. \A n \in 1..5 : <<"PD", n>> \in Messages
  BY DEF Messages, Named
<1>2. Channels[<<"PD", 2>>] = Currents
  BY <1>1, CurrentsBank DEF Channels
<1>3. \A n \in 1..5 : PeriodTicks[<<"PD", n>>] = 5
  BY <1>1 DEF PeriodTicks, PeriodMs, TickMs
<1>4. QED
  BY <1>1, <1>2, <1>3

LEMMA PutsOfBank ==
    ASSUME NEW m \in Messages, Banked(m)
    PROVE  Puts[m] = Slice(m, BankOf(m))
<1> DEFINE slice == Slice(m, BankOf(m))
<1>1. m[1] = "PD"
  BY DEF Banked, InBank
<1> HIDE DEF slice
<1>2. m # <<"PE", 1>> /\ m # <<"PE", 3>>
  BY <1>1
<1>3. Puts[m] = slice
  BY <1>2, Zenon DEF Puts, slice
<1>4. QED
  BY <1>3 DEF slice

\* What PD2 to PD5 send: eight currents each, the last of them six.
SliceLen(n) == IF n = 5 THEN 6 ELSE 8

LEMMA CurrentsPut ==
    ASSUME NEW n \in 2..5, NEW puts, puts = Puts[<<"PD", n>>]
    PROVE  /\ Len(puts) = SliceLen(n)
           /\ \A k \in 1..SliceLen(n) :
                puts[k].owner = <<"PD", 2>> /\ puts[k].channel = 8 * (n - 2) + k
<1> DEFINE b == [first |-> 2, last |-> 5, array |-> Currents, slice |-> 8]
           m == <<"PD", n>>
<1>1. b.slice = 8 /\ b.first = 2 /\ b.array = Currents /\ m[2] = n
  OBVIOUS
<1>2. puts = Slice(m, b)
  BY PutsOfBank, CurrentsBank, PdMessages
<1> HIDE DEF b, m
<1>3. /\ SliceLen(n) \in Nat /\ 8 * (n - 2) \in Nat
      /\ (IF 30 - 8 * (n - 2) < 8 THEN 30 - 8 * (n - 2) ELSE 8) = SliceLen(n)
  BY DEF SliceLen
<1>4. /\ b.slice \in Nat /\ m[2] \in Nat /\ b.first \in Nat /\ Len(b.array) \in Nat
      /\ 8 * (n - 2) = b.slice * (m[2] - b.first)
      /\ SliceLen(n) = IF Len(b.array) - 8 * (n - 2) < b.slice
                       THEN Len(b.array) - 8 * (n - 2) ELSE b.slice
  BY <1>1, <1>3, CurrentsBank
<1>5. PICK start, len : start = 8 * (n - 2) /\ len = SliceLen(n)
  OBVIOUS
<1>6. /\ start \in Nat /\ len \in Nat /\ start = b.slice * (m[2] - b.first)
      /\ len = IF Len(b.array) - start < b.slice THEN Len(b.array) - start ELSE b.slice
  BY <1>3, <1>4, <1>5
<1>7. /\ Len(Slice(m, b)) = len
      /\ \A k \in 1..len : /\ Slice(m, b)[k].owner = <<"PD", b.first>>
                            /\ Slice(m, b)[k].channel = start + k
  <2>1. Slice(m, b) = [k \in 1..len |->
                         [field |-> b.array[k], owner |-> <<"PD", b.first>>, channel |-> start + k]]
    BY <1>6, Zenon DEF Slice
  <2>2. QED
    BY <1>6, <2>1
<1>8. QED
  BY <1>1, <1>2, <1>5, <1>7

LEMMA TotalPut ==
    LET m == <<"PD", 1>>
    IN  /\ ~Banked(m) /\ Len(Channels[m]) = 5 /\ Channels[m][2].move = "sum"
        /\ Len(Puts[m]) = 5 /\ Puts[m][2].owner = m /\ Puts[m][2].channel = 2
<1>1. ~Banked(<<"PD", 1>>)
  BY DEF Banked, InBank, Banks
<1>2. Channels[<<"PD", 1>>] = Pd1
  BY <1>1, PdMessages DEF Channels
<1>3. Len(Pd1) = 5 /\ Pd1[2].move = "sum"
  BY DEF Pd1, Field
<1>4. QED
  BY <1>1, <1>2, <1>3, PdMessages DEF Puts

\* An encoder moves its own channels and no others.
LEMMA MovedCar ==
    ASSUME NEW c, NEW m \in Messages, NEW d
    PROVE  \A o \in Messages :
             Moved(c, m, d)[o] =
               IF o \in WalkedBy(m)
               THEN Fuelled(o, Walked(Channels[o], c[o], TotalCurrent(c), d)) ELSE c[o]
BY DEF Moved

LEMMA WalksItsOwn == \A m \in Messages : WalkedBy(m) \subseteq {m}
BY DEF WalkedBy

\* The messages of the currents send slices of one array, the whole of it together.
LEMMA SlicesOfCurrents ==
    ASSUME NEW c, NEW n \in 2..5
    PROVE  /\ DOMAIN Sent(c, <<"PD", n>>) = 1..SliceLen(n)
           /\ \A k \in 1..SliceLen(n) : Sent(c, <<"PD", n>>)[k] = c[<<"PD", 2>>][8 * (n - 2) + k]
<1> DEFINE puts == Puts[<<"PD", n>>]
<1>1. /\ Len(puts) = SliceLen(n)
      /\ \A k \in 1..SliceLen(n) :
           puts[k].owner = <<"PD", 2>> /\ puts[k].channel = 8 * (n - 2) + k
  BY CurrentsPut
<1>2. Sent(c, <<"PD", n>>) = [k \in 1..Len(puts) |-> c[puts[k].owner][puts[k].channel]]
  BY DEF Sent, Read
<1> HIDE DEF puts
<1>3. QED
  BY <1>1, <1>2

LEMMA SameSlices ==
    ASSUME NEW c, NEW e, c[<<"PD", 2>>] = e[<<"PD", 2>>], NEW n \in 2..5
    PROVE  Sent(c, <<"PD", n>>) = Sent(e, <<"PD", n>>)
<1> DEFINE s == Sent(c, <<"PD", n>>)
           t == Sent(e, <<"PD", n>>)
<1>1. DOMAIN s = 1..SliceLen(n) /\ \A k \in 1..SliceLen(n) : s[k] = c[<<"PD", 2>>][8 * (n - 2) + k]
  BY SlicesOfCurrents
<1>2. DOMAIN t = 1..SliceLen(n) /\ \A k \in 1..SliceLen(n) : t[k] = e[<<"PD", 2>>][8 * (n - 2) + k]
  BY SlicesOfCurrents
<1>3. s = [k \in DOMAIN s |-> s[k]] /\ t = [k \in DOMAIN t |-> t[k]]
  BY DEF Sent, Read
<1> HIDE DEF s, t
<1>4. s = t
  <2>1. DOMAIN s = DOMAIN t /\ \A k \in DOMAIN s : s[k] = t[k]
    BY <1>1, <1>2
  <2>2. QED
    BY <1>3, <2>1
<1>5. QED
  BY <1>4 DEF s, t

LEMMA SumOfSlice ==
    ASSUME NEW c, DOMAIN c[<<"PD", 2>>] = 1..30, NEW n \in 2..5
    PROVE  SumOf8(Sent(c, <<"PD", n>>), 0) = SumOf8(c[<<"PD", 2>>], 8 * (n - 2))
<1> DEFINE s == Sent(c, <<"PD", n>>)
           a == c[<<"PD", 2>>]
           from(k) == IF 0 + k \in DOMAIN s THEN s[0 + k] ELSE 0
           at(k) == IF 8 * (n - 2) + k \in DOMAIN a THEN a[8 * (n - 2) + k] ELSE 0
<1>1. DOMAIN s = 1..SliceLen(n) /\ \A k \in 1..SliceLen(n) : s[k] = a[8 * (n - 2) + k]
  BY SlicesOfCurrents
<1> HIDE DEF s, a
<1>2. DOMAIN a = 1..30
  BY DEF a
<1>3. ASSUME NEW k \in 1..8 PROVE from(k) = at(k)
  <2>1. /\ SliceLen(n) \in Nat /\ 0 + k = k
        /\ k \in 1..SliceLen(n) <=> 8 * (n - 2) + k \in 1..30
    BY DEF SliceLen
  <2>2. QED
    BY <1>1, <1>2, <2>1
<1>4. /\ SumOf8(s, 0) = from(1) + from(2) + from(3) + from(4) + from(5) + from(6) + from(7) + from(8)
      /\ SumOf8(a, 8 * (n - 2)) = at(1) + at(2) + at(3) + at(4) + at(5) + at(6) + at(7) + at(8)
  BY Zenon DEF SumOf8
<1> HIDE DEF from, at
<1>5. SumOf8(s, 0) = SumOf8(a, 8 * (n - 2))
  BY <1>3, <1>4
<1>6. QED
  BY <1>5 DEF s, a

LEMMA TotalSent ==
    ASSUME NEW c, NEW d
    PROVE  Sent(Moved(c, <<"PD", 1>>, d), <<"PD", 1>>)[2] = TotalCurrent(c)
<1> DEFINE m == <<"PD", 1>>
           new == Walked(Channels[m], c[m], TotalCurrent(c), d)
<1>1. m \in Messages /\ WalkedBy(m) = {m}
  BY PdMessages, TotalPut DEF WalkedBy
<1>2. Moved(c, m, d)[m] = Fuelled(m, new)
  BY <1>1, MovedCar
<1>3. Fuelled(m, new) = new
  BY DEF Fuelled
<1>4. new[2] = TotalCurrent(c)
  BY TotalPut DEF Walked
<1>5. Sent(Moved(c, m, d), m)[2] = Moved(c, m, d)[m][2]
  <2> DEFINE puts == Puts[m]
             e == Moved(c, m, d)
  <2>1. Len(puts) = 5 /\ puts[2].owner = m /\ puts[2].channel = 2
    BY TotalPut
  <2>2. Sent(e, m) = [k \in 1..Len(puts) |-> e[puts[k].owner][puts[k].channel]]
    BY DEF Sent, Read
  <2> HIDE DEF puts, e
  <2>3. Sent(e, m)[2] = e[m][2]
    BY <2>1, <2>2
  <2>4. QED
    BY <2>3 DEF e
<1>6. QED
  BY <1>2, <1>3, <1>4, <1>5

\* Message j has been encoded in this round, or will not be.
Done(j) == j < i \/ (j = i /\ pc \in {"encode", "transmit"})

\* The currents have been moved in this round, and message j has yet to send them.
Renewing(j) ==
    /\ tick % 5 = 0 /\ ~Done(j)
    /\ \E p \in 1..NumMessages : bench.table[p] = <<"PD", 2>> /\ Done(p)

\* What OneWalkPerCycle needs to be inductive: between the rounds, what PD2 to PD5
\* sent last is the array as it is.
OfOneMoment ==
    /\ pc = "delay" => i = NumMessages + 1
    /\ DOMAIN car[<<"PD", 2>>] = 1..30
    /\ \A e \in 1..Count : encoded[e].message \in 1..NumMessages
    /\ \A j \in 1..NumMessages, n \in 2..5, e \in 1..Count :
         /\ bench.table[j] = <<"PD", n>> /\ encoded[e].message = j
         /\ \A f \in 1..Count : encoded[f].message = j => f <= e
         => encoded[e].values = Sent(car, <<"PD", n>>) \/ Renewing(j)

LEMMA OneMomentInit == Init => OfOneMoment /\ OneWalkPerCycle
<1> SUFFICES ASSUME Init PROVE OfOneMoment /\ OneWalkPerCycle
  OBVIOUS
<1>1. Count = 0 /\ pc = "loop"
  BY EmptySeq DEF Init, Count
<1>2. \A n \in 1..5 : Encodings(n, Count) = {} /\ Latest(n, Count) = {}
  BY <1>1 DEF Encodings, Latest
<1>3. DOMAIN car[<<"PD", 2>>] = 1..30
  <2>1. PICK place \in Places : car = CarAt(place)
    BY DEF Init
  <2>2. DOMAIN CarAt(place)[<<"PD", 2>>] = 1..Len(Channels[<<"PD", 2>>])
    BY PdMessages DEF CarAt
  <2>3. QED
    BY <2>1, <2>2, PdMessages, CurrentsBank
<1>4. QED
  BY <1>1, <1>2, <1>3 DEF OfOneMoment, OneWalkPerCycle

\* What the table says about the messages of the PDM.
LEMMA PdInOrder ==
    TypeOK =>
      /\ bench.table \in Seq(Messages) /\ NumMessages \in Nat
      /\ \A j \in 1..NumMessages : bench.table[j] \in Messages
      /\ \A j, k \in 1..NumMessages : \A m, n \in 1..5 :
           bench.table[j] = <<"PD", m>> /\ bench.table[k] = <<"PD", n>> /\ m < n => j < k
      /\ \A j, k \in 1..NumMessages : bench.table[j] = bench.table[k] => j = k
<1> SUFFICES ASSUME TypeOK
             PROVE  /\ bench.table \in Seq(Messages) /\ NumMessages \in Nat
                    /\ \A j \in 1..NumMessages : bench.table[j] \in Messages
                    /\ \A j, k \in 1..NumMessages : \A m, n \in 1..5 :
                         bench.table[j] = <<"PD", m>> /\ bench.table[k] = <<"PD", n>> /\ m < n
                           => j < k
                    /\ \A j, k \in 1..NumMessages : bench.table[j] = bench.table[k] => j = k
  OBVIOUS
<1>1. bench.table \in Seq(Messages) /\ NumMessages \in Nat /\ InOrder(bench.table)
  BY Tables, EcuAssumption DEF TypeOK, NumMessages
<1>2. \A j \in 1..NumMessages : bench.table[j] \in Messages
  BY <1>1, ElementOfSeq DEF NumMessages
<1>3. ASSUME NEW j \in 1..NumMessages, NEW k \in 1..NumMessages, j < k
      PROVE  /\ bench.table[j] # bench.table[k]
             /\ bench.table[j][1] = "PD" /\ bench.table[k][1] = "PD"
                  => bench.table[j][2] < bench.table[k][2]
  BY <1>1, <1>3 DEF InOrder, NumMessages
<1>4. ASSUME NEW j \in 1..NumMessages, NEW k \in 1..NumMessages, NEW m \in 1..5, NEW n \in 1..5,
             bench.table[j] = <<"PD", m>>, bench.table[k] = <<"PD", n>>, m < n
      PROVE  j < k
  <2>1. j # k
    BY <1>4
  <2>2. ~(k < j)
    BY <1>3, <1>4
  <2>3. QED
    BY <1>1, <2>1, <2>2
<1>5. ASSUME NEW j \in 1..NumMessages, NEW k \in 1..NumMessages, bench.table[j] = bench.table[k]
      PROVE  j = k
  <2>1. ~(j < k) /\ ~(k < j)
    BY <1>3, <1>5
  <2>2. QED
    BY <1>1, <2>1
<1>6. QED
  BY <1>1, <1>2, <1>4, <1>5

\* Steps that encode nothing.
LEMMA OneMomentKept ==
    ASSUME OfOneMoment, OneWalkPerCycle, UNCHANGED <<bench, car, encoded>>,
           pc' = "delay" => i' = NumMessages + 1,
           \A j \in 1..NumMessages, n \in 2..5 :
               bench.table[j] = <<"PD", n>> /\ Renewing(j) => Renewing(j)'
    PROVE  OfOneMoment' /\ OneWalkPerCycle'
<1>1. Count' = Count /\ NumMessages' = NumMessages
  BY DEF Count, NumMessages
<1>2. OfOneMoment'
  BY <1>1 DEF OfOneMoment
<1>3. \A n : Encodings(1, n)' = Encodings(1, n) /\ \A k : Latest(k, n)' = Latest(k, n)
  BY DEF Latest, Encodings
<1>4. ASSUME NEW n \in Encodings(1, Count)' PROVE n \in Encodings(1, Count)
  BY <1>1, <1>4 DEF Encodings
<1>5. OneWalkPerCycle'
  BY <1>3, <1>4 DEF OneWalkPerCycle
<1>6. QED
  BY <1>2, <1>5

LEMMA OneMomentStep ==
    TypeOK /\ EncodedIsList /\ [Next]_vars /\ OfOneMoment /\ OneWalkPerCycle
      => OfOneMoment' /\ OneWalkPerCycle'
<1> SUFFICES ASSUME TypeOK, EncodedIsList, [Next]_vars, OfOneMoment, OneWalkPerCycle
             PROVE  OfOneMoment' /\ OneWalkPerCycle'
  OBVIOUS
<1>1. /\ NumMessages \in Nat /\ i \in Nat /\ i \in 1..(NumMessages + 1)
      /\ bench.table \in Seq(Messages)
      /\ \A j \in 1..NumMessages : bench.table[j] \in Messages
      /\ Count \in Nat
  BY Bounds, PdInOrder, ListGrows DEF TypeOK, Count, EncodedIsList
<1>2. \A j, k \in 1..NumMessages, m, n \in 1..5 :
        bench.table[j] = <<"PD", m>> /\ bench.table[k] = <<"PD", n>> /\ m < n => j < k
  BY PdInOrder
<1>3. CASE Skip
  <2>1. /\ i' = i + 1 /\ pc = "loop" /\ pc' = pc /\ tick' = tick /\ i \in 1..NumMessages
        /\ UNCHANGED <<bench, car, encoded>>
        /\ tick % PeriodTicks[bench.table[i]] # 0
    BY <1>1, <1>3 DEF Skip, Due
  <2>2. ASSUME NEW n \in 2..5, NEW j \in 1..NumMessages,
               bench.table[j] = <<"PD", n>>, Renewing(j)
        PROVE  Renewing(j)'
    <3>1. tick % 5 = 0 /\ j # i
      BY <2>1, <2>2, PdMessages DEF Renewing
    <3>2. \A p \in 1..NumMessages : p # i => (Done(p)' <=> Done(p))
      BY <1>1, <2>1 DEF Done
    <3>3. \A p \in 1..NumMessages : Done(p) => p # i
      BY <2>1 DEF Done
    <3>4. NumMessages' = NumMessages
      BY <2>1 DEF NumMessages
    <3>5. QED
      BY <2>1, <2>2, <3>1, <3>2, <3>3, <3>4 DEF Renewing
  <2>3. QED
    BY <2>1, <2>2, OneMomentKept
<1>4. CASE EncodeFirst
  <2>1. PICK m \in Messages :
          /\ m = bench.table[i] /\ tick % PeriodTicks[m] = 0
          /\ \E d \in bench.draws : car' = Moved(car, m, d)
          /\ encoded' = Append(encoded, [message |-> i, values |-> Sent(car', m)])
    BY <1>1, <1>4 DEF EncodeFirst, Due
  <2>2. PICK d : car' = Moved(car, m, d)
    BY <2>1
  <2>3. pc = "loop" /\ pc' = "encode" /\ i \in 1..NumMessages /\ UNCHANGED <<bench, tick, i>>
    BY <1>1, <1>4 DEF EncodeFirst
  <2>4. /\ Count' = Count + 1 /\ NumMessages' = NumMessages
        /\ \A e \in 1..Count : encoded'[e] = encoded[e]
        /\ encoded'[Count + 1].message = i /\ encoded'[Count + 1].values = Sent(car', m)
    BY <2>1, <2>3, ListGrows DEF Count, EncodedIsList, NumMessages
  <2>5. \A j \in 1..NumMessages : Done(j)' <=> Done(j) \/ j = i
    BY <1>1, <2>3 DEF Done
  <2>6. m # <<"PD", 2>> => car'[<<"PD", 2>>] = car[<<"PD", 2>>]
    BY <2>2, MovedCar, WalksItsOwn, PdMessages
  <2>7. \A j \in 1..NumMessages : Renewing(j) /\ j # i => Renewing(j)'
    BY <2>3, <2>4, <2>5 DEF Renewing
  <2>8. ASSUME NEW j \in 1..NumMessages, NEW n \in 2..5, NEW e \in 1..(Count + 1),
               bench.table[j] = <<"PD", n>>, encoded'[e].message = j,
               \A f \in 1..(Count + 1) : encoded'[f].message = j => f <= e
        PROVE  encoded'[e].values = Sent(car', <<"PD", n>>) \/ Renewing(j)'
    <3>1. CASE j = i
      <4>1. e = Count + 1
        BY <1>1, <2>4, <2>8, <3>1
      <4>2. QED
        BY <2>1, <2>4, <2>8, <3>1, <4>1
    <3>2. CASE j # i
      <4>1. e \in 1..Count /\ encoded'[e] = encoded[e]
        BY <1>1, <2>4, <2>8, <3>2
      <4>2. encoded[e].values = Sent(car, <<"PD", n>>) \/ Renewing(j)
        <5>1. \A f \in 1..Count : encoded[f].message = j => f <= e
          BY <1>1, <2>4, <2>8
        <5>2. QED
          BY <2>8, <4>1, <5>1 DEF OfOneMoment
      <4>3. CASE m = <<"PD", 2>>
        <5>1. bench.table[i] = <<"PD", 2>> /\ tick % 5 = 0
          BY <2>1, <4>3, PdMessages
        <5>2. n \in 1..5 /\ 2 \in 1..5 /\ 2 < n
          <6>1. n # 2
            BY <2>3, <2>8, <3>2, <5>1, PdInOrder
          <6>2. QED
            BY <6>1
        <5>3. i < j
          BY <1>2, <2>3, <2>8, <5>1, <5>2
        <5>4. ~Done(j)' /\ Done(i)'
          BY <1>1, <2>3, <2>5, <5>3 DEF Done
        <5>5. Renewing(j)'
          BY <2>3, <2>4, <5>1, <5>4 DEF Renewing
        <5>6. QED
          BY <5>5
      <4>4. CASE m # <<"PD", 2>>
        <5>1. Sent(car', <<"PD", n>>) = Sent(car, <<"PD", n>>)
          <6>1. PICK old, new : old = car /\ new = car'
            OBVIOUS
          <6>2. new[<<"PD", 2>>] = old[<<"PD", 2>>]
            BY <2>6, <4>4, <6>1
          <6>3. Sent(new, <<"PD", n>>) = Sent(old, <<"PD", n>>)
            BY <6>2, SameSlices
          <6>4. QED
            BY <6>1, <6>3
        <5>2. QED
          BY <2>7, <3>2, <4>1, <4>2, <5>1
      <4>5. QED
        BY <4>3, <4>4
    <3>3. QED
      BY <3>1, <3>2
  <2>9. DOMAIN car'[<<"PD", 2>>] = 1..30
    <3>1. CASE m # <<"PD", 2>>
      BY <2>6, <3>1 DEF OfOneMoment
    <3>2. CASE m = <<"PD", 2>> /\ m \in WalkedBy(m)
      <4>1. PICK new : new = Walked(Channels[m], car[m], TotalCurrent(car), d)
        OBVIOUS
      <4>2. car'[m] = Fuelled(m, new)
        BY <2>1, <2>2, <3>2, <4>1, MovedCar
      <4>3. Fuelled(m, new) = new
        BY <3>2 DEF Fuelled
      <4>4. DOMAIN new = 1..30
        BY <3>2, <4>1, PdMessages, CurrentsBank DEF Walked
      <4>5. car'[<<"PD", 2>>] = new
        BY <3>2, <4>2, <4>3
      <4>6. QED
        BY <4>4, <4>5
    <3>3. CASE m = <<"PD", 2>> /\ m \notin WalkedBy(m)
      <4>1. car'[m] = car[m]
        BY <2>1, <2>2, <3>3, MovedCar
      <4>2. QED
        BY <3>3, <4>1 DEF OfOneMoment
    <3>4. QED
      BY <3>1, <3>2, <3>3
  <2>10. OfOneMoment'
    <3>1. \A e \in 1..(Count + 1) : encoded'[e].message \in 1..NumMessages
      <4>1. \A e \in 1..(Count + 1) : e \in 1..Count \/ e = Count + 1
        BY <1>1
      <4>2. QED
        BY <2>3, <2>4, <4>1 DEF OfOneMoment
    <3>2. QED
      BY <2>3, <2>4, <2>8, <2>9, <3>1 DEF OfOneMoment
  <2>11. ASSUME m = <<"PD", 1>>, NEW n \in 2..5, NEW e \in Latest(n, Count)
         PROVE  SumOf8(encoded'[e].values, 0) = SumOf8(car[<<"PD", 2>>], 8 * (n - 2))
    <3>1. PICK j : j = encoded[e].message
      OBVIOUS
    <3>2. /\ e \in 1..Count /\ encoded'[e] = encoded[e]
          /\ j \in 1..NumMessages /\ bench.table[j] = <<"PD", n>>
          /\ \A f \in 1..Count : encoded[f].message = j => f <= e
      BY <2>4, <3>1 DEF Latest, Encodings, OfOneMoment
    <3>3. ASSUME NEW p \in 1..NumMessages, bench.table[p] = <<"PD", 2>> PROVE ~Done(p)
      <4>1. i < p
        <5>1. bench.table[i] = <<"PD", 1>> /\ 1 < 2 /\ 1 \in 1..5 /\ 2 \in 1..5
          BY <2>1, <2>11
        <5>2. QED
          BY <1>2, <2>3, <3>3, <5>1
      <4>2. QED
        BY <1>1, <2>3, <4>1 DEF Done
    <3>4. ~Renewing(j)
      BY <3>3 DEF Renewing
    <3>5. encoded'[e].values = Sent(car, <<"PD", n>>)
      BY <3>1, <3>2, <3>4 DEF OfOneMoment
    <3>6. QED
      BY <3>5, SumOfSlice DEF OfOneMoment
  <2>12. OneWalkPerCycle'
    <3> SUFFICES ASSUME NEW n \in Encodings(1, Count)',
                        NEW v \in Latest(2, n)', NEW w \in Latest(3, n)',
                        NEW x \in Latest(4, n)', NEW y \in Latest(5, n)'
                 PROVE  encoded'[n].values[2] =
                          SumOf8(encoded'[v].values, 0) + SumOf8(encoded'[w].values, 0)
                            + SumOf8(encoded'[x].values, 0) + SumOf8(encoded'[y].values, 0)
      BY DEF OneWalkPerCycle
    <3>1. n \in 1..(Count + 1) /\ bench.table[encoded'[n].message] = <<"PD", 1>>
      BY <2>3, <2>4 DEF Encodings
    <3>2. CASE n \in 1..Count
      <4>1. n \in Encodings(1, Count)
        BY <2>4, <3>1, <3>2 DEF Encodings
      <4>2. ASSUME NEW k \in 2..5, NEW e \in Latest(k, n)'
            PROVE  e \in 1..Count /\ e \in Latest(k, n)
        <5>1. \A f \in 1..n : f \in 1..Count /\ encoded'[f].message = encoded[f].message
          BY <1>1, <2>4, <3>2
        <5>2. QED
          BY <2>3, <4>2, <5>1 DEF Latest, Encodings
      <4>3. /\ v \in Latest(2, n) /\ w \in Latest(3, n) /\ x \in Latest(4, n)
            /\ y \in Latest(5, n)
        BY <4>2
      <4>4. v \in 1..Count /\ w \in 1..Count /\ x \in 1..Count /\ y \in 1..Count
        BY <4>2
      <4>5. QED
        BY <2>4, <3>2, <4>1, <4>3, <4>4 DEF OneWalkPerCycle
    <3>3. CASE n = Count + 1
      <4>1. m = <<"PD", 1>>
        BY <2>1, <2>4, <3>1, <3>3
      <4>2. ASSUME NEW k \in 2..5, NEW e \in Latest(k, n)' PROVE e \in Latest(k, Count)
        <5>1. /\ e \in 1..n /\ bench.table[encoded'[e].message] = <<"PD", k>>
              /\ \A f \in 1..n : bench.table[encoded'[f].message] = <<"PD", k>> => f <= e
          BY <2>3, <4>2 DEF Latest, Encodings
        <5>2. e \in 1..Count
          <6>1. e # Count + 1
            <7>1. <<"PD", 1>> # <<"PD", k>>
              OBVIOUS
            <7>2. bench.table[encoded'[Count + 1].message] = <<"PD", 1>>
              BY <2>1, <2>4, <4>1
            <7>3. QED
              BY <5>1, <7>1, <7>2
          <6>2. QED
            BY <1>1, <3>3, <5>1, <6>1
        <5>3. \A f \in 1..Count : f \in 1..n /\ encoded'[f] = encoded[f]
          BY <1>1, <2>4, <3>3
        <5>4. QED
          BY <5>1, <5>2, <5>3 DEF Latest, Encodings
      <4>3. /\ SumOf8(encoded'[v].values, 0) = SumOf8(car[<<"PD", 2>>], 8 * (2 - 2))
            /\ SumOf8(encoded'[w].values, 0) = SumOf8(car[<<"PD", 2>>], 8 * (3 - 2))
            /\ SumOf8(encoded'[x].values, 0) = SumOf8(car[<<"PD", 2>>], 8 * (4 - 2))
            /\ SumOf8(encoded'[y].values, 0) = SumOf8(car[<<"PD", 2>>], 8 * (5 - 2))
        BY <2>11, <4>1, <4>2
      <4>4. 8 * (2 - 2) = 0 /\ 8 * (3 - 2) = 8 /\ 8 * (4 - 2) = 16 /\ 8 * (5 - 2) = 24
        OBVIOUS
      <4>5. encoded'[n].values[2] = TotalCurrent(car)
        BY <2>2, <2>4, <3>3, <4>1, TotalSent
      <4>6. QED
        BY <4>3, <4>4, <4>5, Zenon DEF TotalCurrent
    <3>4. QED
      BY <1>1, <3>1, <3>2, <3>3
  <2>13. QED
    BY <2>10, <2>12
<1>5. CASE EncodeRest \/ Transmit \/ UNCHANGED vars
  <2>1. UNCHANGED <<bench, car, encoded, tick, i>>
    BY <1>5 DEF EncodeRest, Transmit, vars, task
  <2>2. pc' \in {"encode", "transmit"} <=> pc \in {"encode", "transmit"}
    BY <1>5 DEF EncodeRest, Transmit, vars, task
  <2>3. pc' = "delay" => i' = NumMessages + 1
    BY <1>5, <2>1 DEF EncodeRest, Transmit, vars, task, OfOneMoment
  <2>4. \A j : Renewing(j)' <=> Renewing(j)
    BY <2>1, <2>2 DEF Renewing, Done, NumMessages
  <2>5. QED
    BY <2>1, <2>3, <2>4, OneMomentKept
<1>6. CASE TransmitOk \/ TransmitFail
  <2>1. /\ UNCHANGED <<bench, car, encoded, tick>>
        /\ pc = "transmit" /\ pc' = "loop" /\ i' = i + 1
    BY <1>6 DEF TransmitOk, TransmitFail
  <2>2. \A j \in 1..NumMessages : Done(j)' <=> Done(j)
    BY <1>1, <2>1 DEF Done
  <2>3. \A j \in 1..NumMessages : Renewing(j) => Renewing(j)'
    BY <2>1, <2>2 DEF Renewing, NumMessages
  <2>4. QED
    BY <2>1, <2>3, OneMomentKept
<1>7. CASE EndRound \/ NextRound
  <2>1. /\ UNCHANGED <<bench, car, encoded>> /\ i = NumMessages + 1
        /\ pc' = "delay" => i' = i
    BY <1>1, <1>7 DEF EndRound, NextRound, OfOneMoment
  <2>2. \A j \in 1..NumMessages : ~Renewing(j)
    BY <1>1, <2>1 DEF Renewing, Done
  <2>3. QED
    BY <2>1, <2>2, OneMomentKept
<1>8. QED
  BY <1>3, <1>4, <1>5, <1>6, <1>7 DEF Next

\* "The walk happens exactly once per cycle regardless of how many messages read slices":
\* the total of the output currents is the sum of what the four messages last sent.
THEOREM OneWalk == Spec => []OneWalkPerCycle
BY OneMomentInit, OneMomentStep, TypeCorrect, PTL DEF Spec

-----------------------------------------------------------------------------
(* What the service decodes.                                               *)

LEMMA Powers ==
    /\ 10^0 = 1 /\ 10^1 = 10 /\ 10^2 = 100 /\ 10^3 = 1000
    /\ 256^0 = 1 /\ 256^1 = 256 /\ 256^2 = 65536 /\ 256^3 = 16777216
BY SMT

LEMMA Shifted256 ==
    \A k \in Int : /\ k * 256^(1 - 1) = k /\ k * 256^(2 - 1) = 256 * k
                   /\ k * 256^(3 - 1) = 65536 * k /\ k * 256^(4 - 1) = 16777216 * k
BY Powers, SMT

\* An integer, cut into bytes.
LEMMA Cut2 == \A n \in Int : n = (n % 256) + 256 * (n \div 256)
BY SMT

\* The bytes of an integer stand for it.
LEMMA OneByte ==
    ASSUME NEW s, Len(s) = 1, NEW n \in 0..255, s[1] = ByteOf(n, 0)
    PROVE  Unsigned(s) = n
<1>1. ByteOf(n, 0) = n
  BY Powers, SMT DEF ByteOf
<1>2. n * 256^(1 - 1) = n
  BY Powers, SMT
<1>3. QED
  BY <1>1, <1>2, SMT DEF Unsigned

LEMMA TwoBytes ==
    ASSUME NEW s, Len(s) = 2, NEW n \in Nat, n \div 256 < 256,
           s[1] = ByteOf(n, 0), s[2] = ByteOf(n, 1)
    PROVE  Unsigned(s) = n
<1>1. ByteOf(n, 0) = n % 256 /\ ByteOf(n, 1) = n \div 256
  BY Powers, SMT DEF ByteOf
<1>2. PICK a \in Int, b \in Int : a = s[1] /\ b = s[2] /\ n = a + 256 * b
  BY <1>1, Cut2
<1>3. Unsigned(s) = a * 256^(1 - 1) + b * 256^(2 - 1) + 0 + 0
  BY <1>2, SMT DEF Unsigned
<1>4. PICK x, y : x = a * 256^(1 - 1) /\ y = b * 256^(2 - 1)
  OBVIOUS
<1>5. Unsigned(s) = x + y + 0 + 0
  BY <1>3, <1>4, Zenon
<1>6. x = a /\ y = 256 * b
  BY <1>4, Shifted256
<1>7. QED
  BY <1>2, <1>5, <1>6

LEMMA FourSignedBytes ==
    ASSUME NEW S, NEW s \in Seq(S), Len(s) = 4, NEW n \in Int, n >= -MaxInt, n <= MaxInt,
           s[1] = ByteOf(n, 0), s[2] = ByteOf(n, 1), s[3] = ByteOf(n, 2), s[4] = ByteOf(n, 3)
    PROVE  Signed(s) = n
<1> DEFINE t == SubSeq(s, 1, 4 - 1)
           top == IF s[4] < 128 THEN s[4] ELSE s[4] - 256
<1>1. Len(t) = 3 /\ t[1] = s[1] /\ t[2] = s[2] /\ t[3] = s[3]
  OBVIOUS
<1>2. Signed(s) = Unsigned(t) + top * 256^(4 - 1)
  BY DEF Signed
<1>3. /\ s[1] = n % 256 /\ s[2] = (n \div 256) % 256
      /\ s[3] = (n \div 65536) % 256 /\ s[4] = (n \div 16777216) % 256
  BY Powers, SMT DEF ByteOf
<1>4. top = n \div 16777216
  BY <1>3, SMT DEF MaxInt
<1> HIDE DEF t, top
<1>5. PICK a \in Int, b \in Int, c \in Int, e \in Int :
        a = s[1] /\ b = s[2] /\ c = s[3] /\ e = top
  BY <1>3, <1>4, SMT
<1>6. n = a + 256 * b + 65536 * c + 16777216 * e
  <2>1. /\ a = n % 256 /\ b = (n \div 256) % 256 /\ c = (n \div 65536) % 256
        /\ e = n \div 16777216
    BY <1>3, <1>4, <1>5, SMT
  <2>2. QED
    BY <2>1, SMT
<1>7. Unsigned(t) = a * 256^(1 - 1) + b * 256^(2 - 1) + c * 256^(3 - 1) + 0
  BY <1>1, <1>5, SMT DEF Unsigned
<1>8. /\ a * 256^(1 - 1) = a /\ b * 256^(2 - 1) = 256 * b
      /\ c * 256^(3 - 1) = 65536 * c /\ e * 256^(4 - 1) = 16777216 * e
  BY Shifted256
<1>9. Signed(s) = (a * 256^(1 - 1) + b * 256^(2 - 1) + c * 256^(3 - 1) + 0) + e * 256^(4 - 1)
  <2>1. Signed(s) = Unsigned(t) + e * 256^(4 - 1)
    BY <1>2, <1>5, Zenon
  <2>2. QED
    BY <1>7, <2>1, Zenon
<1>10. QED
  BY <1>8, <1>6, <1>9, SMT

\* decodeRaw undoes what put_u8, put_u16 and put_i32 did.
LEMMA DecodedBytes ==
    ASSUME NEW S, NEW sig, NEW data \in Seq(S), NEW n \in Int,
           sig.at \in Nat, sig.at + sig.size <= Len(data),
           <<sig.size, sig.type>> \in {<<1, "Uint8">>, <<2, "Uint16">>, <<4, "Int32">>},
           IF sig.size = 4 THEN n >= -MaxInt /\ n <= MaxInt ELSE n >= 0 /\ n < 256^sig.size,
           \A j \in 0..(sig.size - 1) : data[sig.at + j + 1] = ByteOf(n, j)
    PROVE  DecodeRaw(sig, data) = n
<1> DEFINE s == SubSeq(data, sig.at + 1, sig.at + sig.size)
<1>1. sig.size \in {1, 2, 4}
  OBVIOUS
<1>2. /\ s \in Seq(S) /\ Len(s) = sig.size
      /\ \A k \in 1..sig.size : s[k] = data[sig.at + k]
  <2>1. PICK a \in Nat, z \in Nat : a = sig.at /\ z = sig.size
    BY <1>1
  <2>2. a + z <= Len(data)
    BY <2>1
  <2>3. /\ SubSeq(data, a + 1, a + z) \in Seq(S) /\ Len(SubSeq(data, a + 1, a + z)) = z
        /\ \A k \in 1..z : SubSeq(data, a + 1, a + z)[k] = data[a + k]
    BY <2>2, SMT
  <2>4. QED
    BY <2>1, <2>3
<1>3. \A k \in 1..sig.size : s[k] = ByteOf(n, k - 1)
  <2> TAKE k \in 1..sig.size
  <2>1. k - 1 \in 0..(sig.size - 1) /\ sig.at + (k - 1) + 1 = sig.at + k
    BY <1>1
  <2>2. data[sig.at + (k - 1) + 1] = ByteOf(n, k - 1)
    BY <2>1
  <2>3. QED
    BY <1>2, <2>1, <2>2
<1>4. CASE sig.size = 1 /\ sig.type = "Uint8"
  <2>1. Len(s) = 1 /\ s[1] = ByteOf(n, 0)
    <3> HIDE DEF s
    <3>1. QED
      BY <1>2, <1>3, <1>4
  <2>2. n \in 0..255
    BY <1>4, Powers, SMT
  <2>3. DecodeRaw(sig, data) = Unsigned(s)
    BY <1>4 DEF DecodeRaw
  <2> HIDE DEF s
  <2>4. QED
    BY <2>1, <2>2, <2>3, OneByte
<1>5. CASE sig.size = 2 /\ sig.type = "Uint16"
  <2>1. Len(s) = 2 /\ s[1] = ByteOf(n, 0) /\ s[2] = ByteOf(n, 1)
    <3> HIDE DEF s
    <3>1. QED
      BY <1>2, <1>3, <1>5
  <2>2. n \in Nat /\ n \div 256 < 256
    BY <1>5, Powers, SMT
  <2>3. DecodeRaw(sig, data) = Unsigned(s)
    BY <1>5 DEF DecodeRaw
  <2> HIDE DEF s
  <2>4. QED
    BY <2>1, <2>2, <2>3, TwoBytes
<1>6. CASE sig.size = 4 /\ sig.type = "Int32"
  <2>1. /\ s \in Seq(S) /\ Len(s) = 4 /\ s[1] = ByteOf(n, 0) /\ s[2] = ByteOf(n, 1)
        /\ s[3] = ByteOf(n, 2) /\ s[4] = ByteOf(n, 3)
    <3> HIDE DEF s
    <3>1. QED
      BY <1>2, <1>3, <1>6
  <2>2. DecodeRaw(sig, data) = Signed(s)
    BY <1>6 DEF DecodeRaw
  <2> HIDE DEF s
  <2>3. QED
    BY <1>6, <2>1, <2>2, FourSignedBytes
<1>7. QED
  BY <1>4, <1>5, <1>6

\* What the tables agree on, and a payload with its values.
LEMMA Agreed ==
    ASSUME NEW m \in Messages
    PROVE  LET n == Len(Puts[m])
               f(k) == Puts[m][k].field
           IN  /\ n \in Nat \ {0} /\ Dlc(m) \in 1..8
               /\ \A k \in 1..n : /\ FieldsAgree(m, k) /\ f(k).at \in Nat
                                  /\ f(k).size \in {0, 1, 2, 4} /\ (f(k).size = 0 <=> f(1).size = 0)
                                  /\ f(1).size # 0 => f(k).at + f(k).size <= Dlc(m)
                                  /\ f(1).size = 0 => f(k).at < 8 * Dlc(m)
               /\ \A k, l \in 1..n : k # l =>
                    /\ f(1).size = 0 => f(k).at # f(l).at
                    /\ f(1).size # 0 => \/ f(k).at + f(k).size <= f(l).at
                                        \/ f(l).at + f(l).size <= f(k).at
<1> DEFINE p == Puts[m]
           n == Len(p)
           f(k) == p[k].field
<1>1. Dlc(m) \in 1..8 /\ MessagesAgree(m)
  BY TableAssumption, TablesAssumption
<1>2. /\ n \in Nat \ {0}
      /\ \A k \in 1..n : FieldsAgree(m, k) /\ (f(k).size = 0 <=> f(1).size = 0)
      /\ \A k, l \in 1..n :
           k # l => f(k).at + Width(f(k)) <= f(l).at \/ f(l).at + Width(f(l)) <= f(k).at
      /\ \A k \in 1..n :
           /\ f(k).at \in Nat
           /\ f(k).at + Width(f(k)) <= (IF f(1).size = 0 THEN 8 * Dlc(m) ELSE Dlc(m))
  BY <1>1, Zenon DEF MessagesAgree
<1>3. \A k \in 1..n : f(k).size \in {0, 1, 2, 4}
  <2> TAKE k \in 1..n
  <2>1. FieldsAgree(m, k)
    BY <1>2
  <2>2. <<f(k).size, MessagesById[CanId[m]].signals[k].type>>
          \in {<<0, "Bit">>, <<1, "Uint8">>, <<2, "Uint16">>, <<4, "Int32">>}
    BY <2>1, Zenon DEF FieldsAgree, SameField
  <2> HIDE DEF p
  <2>3. QED
    BY <2>2
<1> HIDE DEF p
<1>4. \A k \in 1..n : Width(f(k)) = IF f(1).size = 0 THEN 1 ELSE f(k).size
  BY <1>2 DEF Width
<1>5. \A k \in 1..n : /\ f(1).size # 0 => f(k).at + f(k).size <= Dlc(m)
                      /\ f(1).size = 0 => f(k).at < 8 * Dlc(m)
  BY <1>1, <1>2, <1>3, <1>4
<1>6. ASSUME NEW k \in 1..n, NEW l \in 1..n, k # l
      PROVE  /\ f(1).size = 0 => f(k).at # f(l).at
             /\ f(1).size # 0 => \/ f(k).at + f(k).size <= f(l).at
                                 \/ f(l).at + f(l).size <= f(k).at
  BY <1>2, <1>3, <1>4, <1>6
<1>7. QED
  BY <1>1, <1>2, <1>3, <1>5, <1>6 DEF p

\* Which of n puts write byte b.
Covering(p, n, b) ==
    {l \in 1..n : p[l].field.at <= b /\ b < p[l].field.at + p[l].field.size}

\* Fields of bytes that do not overlap.
Apart(p, n) ==
    /\ \A l \in 1..n : p[l].field.at \in Nat /\ p[l].field.size \in Nat
    /\ \A l, o \in 1..n : l # o => \/ p[l].field.at + p[l].field.size <= p[o].field.at
                                   \/ p[o].field.at + p[o].field.size <= p[l].field.at

CoveredBy(p, n, k, b) == Covering(p, n, b) = {k}

\* Byte b of a payload is byte j of field k.
ByteOfField(p, k, j, b) ==
    p[k].field.at + j = b /\ j \in 0..(p[k].field.size - 1)

\* A byte that one field covers is that field's.
LEMMA OneCovers ==
    ASSUME NEW p, NEW n \in Nat, Apart(p, n), NEW k \in 1..n,
           NEW b, NEW j, ByteOfField(p, k, j, b)
    PROVE  CoveredBy(p, n, k, b)
<1>1. PICK a \in Nat, z \in Nat : a = p[k].field.at /\ z = p[k].field.size
  BY DEF Apart
<1>2. a + j = b /\ j \in 0..(z - 1)
  BY <1>1 DEF ByteOfField
<1>3. b \in Nat /\ a <= b /\ b < a + z /\ b - a = j
  BY <1>1, <1>2
<1>4. ASSUME NEW l \in 1..n, l # k
      PROVE  ~(p[l].field.at <= b /\ b < p[l].field.at + p[l].field.size)
  <2>1. PICK c \in Nat, y \in Nat :
          /\ c = p[l].field.at /\ y = p[l].field.size
          /\ a + z <= c \/ c + y <= a
    BY <1>1, <1>4 DEF Apart
  <2>2. QED
    BY <1>3, <2>1
<1>5. QED
  BY <1>1, <1>3, <1>4 DEF Covering, CoveredBy

LEMMA ByteIs ==
    ASSUME NEW p, NEW values, NEW k \in Int, NEW b, Covering(p, Len(values), b) = {k}
    PROVE  BytePut(p, values, b) = ByteOf(Raw(p[k].field, values[k]), b - p[k].field.at)
<1> DEFINE covering == Covering(p, Len(values), b)
           last == CHOOSE l \in covering : \A o \in covering : o <= l
<1>1. last = k
  BY SMT
<1>2. covering # {}
  OBVIOUS
<1>3. BytePut(p, values, b) = IF covering = {} THEN 0
                              ELSE ByteOf(Raw(p[last].field, values[last]), b - p[last].field.at)
  BY Zenon DEF BytePut, Covering
<1> HIDE DEF covering, last
<1>4. QED
  BY <1>1, <1>2, <1>3

\* The byte b that is put is byte j of the value of field k.
PutByByte(p, values, k, j, b) == BytePut(p, values, b) = ByteOf(Raw(p[k].field, values[k]), j)

LenIs(s, n) == n = Len(s)

LEMMA FieldIsPut ==
    ASSUME NEW p, NEW values, NEW n \in Nat, LenIs(values, n), Apart(p, n), NEW k \in 1..n,
           NEW b, NEW j, ByteOfField(p, k, j, b)
    PROVE  PutByByte(p, values, k, j, b)
<1>1. CoveredBy(p, n, k, b)
  BY OneCovers, Zenon
<1>2. BytePut(p, values, b) = ByteOf(Raw(p[k].field, values[k]), b - p[k].field.at)
  <2>1. k \in Int /\ Covering(p, Len(values), b) = {k}
    BY <1>1 DEF LenIs, CoveredBy
  <2>2. QED
    BY <2>1, ByteIs, Zenon
<1>3. b - p[k].field.at = j
  <2>1. PICK a \in Nat, z \in Nat : a = p[k].field.at /\ z = p[k].field.size
    BY DEF Apart
  <2>2. a + j = b /\ j \in 0..(z - 1)
    BY <2>1 DEF ByteOfField
  <2>3. QED
    BY <2>1, <2>2
<1>4. QED
  BY <1>2, <1>3, Zenon DEF PutByByte

ByteSent(m, values, k, j, b) ==
    Payload(m, values)[b + 1] = ByteOf(Raw(Puts[m][k].field, values[k]), j)

\* The payload of a message whose fields are bytes.
LEMMA PayloadBytes ==
    ASSUME NEW m \in Messages, NEW values, NEW n \in Nat, LenIs(values, n), LenIs(Puts[m], n),
           Puts[m][1].field.size # 0, NEW k \in 1..n, NEW b, NEW j, ByteOfField(Puts[m], k, j, b)
    PROVE  ByteSent(m, values, k, j, b)
<1> DEFINE p == Puts[m]
<1>1. /\ Dlc(m) \in 1..8
      /\ \A l \in 1..n : /\ p[l].field.at \in Nat /\ p[l].field.size \in {0, 1, 2, 4}
                         /\ p[l].field.at + p[l].field.size <= Dlc(m)
      /\ \A l, o \in 1..n : l # o => \/ p[l].field.at + p[l].field.size <= p[o].field.at
                                     \/ p[o].field.at + p[o].field.size <= p[l].field.at
  BY Agreed DEF LenIs
<1>2. \A b1 \in 1..Dlc(m) : Payload(m, values)[b1] = BytePut(p, values, b1 - 1)
  BY DEF Payload, Written
<1>3. ByteOfField(p, k, j, b)
  OBVIOUS
<1> HIDE DEF p
<1>4. Apart(p, n)
  BY <1>1 DEF Apart
<1>5. PutByByte(p, values, k, j, b)
  BY <1>3, <1>4, FieldIsPut, Zenon
<1>6. b \in Nat /\ b < Dlc(m)
  <2>1. PICK a \in Nat, z \in Nat, d \in Nat :
          a = p[k].field.at /\ z = p[k].field.size /\ d = Dlc(m) /\ a + z <= d
    BY <1>1
  <2>2. a + j = b /\ j \in 0..(z - 1)
    BY <1>3, <2>1 DEF ByteOfField
  <2>3. QED
    BY <2>1, <2>2
<1>7. Payload(m, values)[b + 1] = BytePut(p, values, b)
  <2>1. PICK c \in Nat : c = b + 1
    BY <1>6
  <2>2. c \in 1..Dlc(m) /\ c - 1 = b
    BY <1>1, <1>6, <2>1
  <2>3. Payload(m, values)[c] = BytePut(p, values, c - 1)
    BY <1>2, <2>2
  <2>4. QED
    BY <2>1, <2>2, <2>3
<1>8. QED
  BY <1>5, <1>7 DEF p, PutByByte, ByteSent

-----------------------------------------------------------------------------
(* A signal that arrives.                                                  *)

\* (value + off) / res, cut off, as an integer of the decoder again.
CutOff(v, off, L, got) == got = ((v + off) \div L) * L - off

LEMMA CutOffIs ==
    ASSUME NEW v \in Int, NEW off \in Int, NEW L \in Nat \ {0}
    PROVE  \E got \in Int : CutOff(v, off, L, got)
<1>1. PICK n \in Int : n = (v + off) \div L
  OBVIOUS
<1>2. n * L - off \in Int
  OBVIOUS
<1>3. QED
  BY <1>1, <1>2 DEF CutOff

LEMMA CutOffLoses ==
    ASSUME NEW v \in Int, NEW off \in Int, NEW L \in Nat \ {0}, NEW got \in Int,
           CutOff(v, off, L, got), NEW min \in Int, min <= v, (min + off) % L = 0
    PROVE  v - got \in 0..(L - 1) /\ min <= got
BY DEF CutOff

\* roundToDecimals leaves a value of that many decimals as it is.
LEMMA Rounded ==
    ASSUME NEW x \in Int, NEW p \in {1, 10, 100, 1000}, x % p = 0
    PROVE  ((x + p \div 2) \div p) * p = x
OBVIOUS

LEMMA Scales ==
    ASSUME NEW size \in {0, 1, 2}, NEW res \in {One, Deci, Fifth, Centi, Milli}
    PROVE  /\ Decimals(size, res) = 3
           /\ 10^(3 - res[2]) \in {1, 10, 100, 1000}
           /\ Lsb(size, res) \in {10^(3 - res[2]), 2 * 10^(3 - res[2])}
           /\ res = One => 10^(3 - res[2]) = 1000 /\ Lsb(size, res) = 1000
<1>1. CASE res = One
  BY <1>1, Powers DEF One, Decimals, Lsb
<1>2. CASE res = Deci
  BY <1>2, Powers DEF One, Deci, Decimals, Lsb
<1>3. CASE res = Fifth
  BY <1>3, Powers DEF One, Fifth, Decimals, Lsb
<1>4. CASE res = Centi
  BY <1>4, Powers DEF One, Centi, Decimals, Lsb
<1>5. CASE res = Milli
  BY <1>5, Powers DEF One, Milli, Decimals, Lsb
<1>6. QED
  BY <1>1, <1>2, <1>3, <1>4, <1>5

LEMMA SameFieldIs ==
    ASSUME NEW f, NEW sig, NEW lo, NEW hi, SameField(f, sig, lo, hi)
    PROVE  /\ f.off \in Int /\ lo \in Int /\ hi \in Int /\ sig.min \in Int /\ sig.max \in Int
           /\ f.size \in {0, 1, 2, 4} /\ f.size = sig.size /\ f.res = sig.scale
           /\ sig.bias = -f.off /\ f.at = sig.at
           /\ f.size = 0 => sig.type = "Bit" /\ f.res = One /\ f.off = 0 /\ f.move = "flip"
           /\ f.size = 1 => sig.type = "Uint8"
           /\ f.size = 2 => sig.type = "Uint16"
           /\ f.size = 4 => sig.type = "Int32" /\ f.off = 0 /\ f.res \in {One, Deg7}
           /\ f.size # 4 => f.res \in {One, Deci, Fifth, Centi, Milli}
<1>1. <<f.size, sig.type>> \in {<<0, "Bit">>, <<1, "Uint8">>, <<2, "Uint16">>, <<4, "Int32">>}
  BY DEF SameField
<1>2. /\ f.size \in {0, 1, 2, 4}
      /\ f.size = 0 => sig.type = "Bit"
      /\ f.size = 1 => sig.type = "Uint8"
      /\ f.size = 2 => sig.type = "Uint16"
      /\ f.size = 4 => sig.type = "Int32"
  BY <1>1
<1>3. QED
  BY <1>2 DEF SameField

\* A value that fits the field it is put as.
Switched(f, v) == f.move = "flip" => v \in {0, 1000}
MayHold(f, sig, v) ==
    \E lo, hi : SameField(f, sig, lo, hi) /\ v \in lo..hi /\ Switched(f, v)

Decoded(sig, data, f, v) == DecodeRaw(sig, data) = Raw(f, v)

\* A raw value that is decoded as it was written stands for the value sent, cut off.
LEMMA SignalArrives ==
    ASSUME NEW f, NEW sig, NEW v, MayHold(f, sig, v), NEW data, Decoded(sig, data, f, v)
    PROVE  Arrives(v, f, sig, Value(sig, data))
<1> DEFINE L == Lsb(f.size, f.res)
           p == 10^(3 - f.res[2])
<1>1. PICK lo, hi : SameField(f, sig, lo, hi) /\ v \in lo..hi /\ Switched(f, v)
  BY Zenon DEF MayHold
<1>2. /\ f.off \in Int /\ lo \in Int /\ hi \in Int /\ sig.min \in Int /\ sig.max \in Int
      /\ f.size \in {0, 1, 2, 4} /\ f.size = sig.size /\ f.res = sig.scale
      /\ sig.bias = -f.off
      /\ f.size = 0 => f.res = One /\ f.off = 0
      /\ f.size = 4 => f.off = 0 /\ f.res \in {One, Deg7}
      /\ f.size # 4 => f.res \in {One, Deci, Fifth, Centi, Milli}
  BY <1>1, SameFieldIs
<1>3. PICK off \in Int, min \in Int, max \in Int, w \in Int :
        off = f.off /\ min = sig.min /\ max = sig.max /\ w = v
  BY <1>1, <1>2
<1>4. /\ min <= lo /\ (min + off) % L = 0 /\ lo <= w /\ w <= hi
      /\ hi <= max \/ f.move = "sum"
      /\ ValueKind(sig) = "bool" =>
           f.res = One /\ off = 0 /\ (f.move = "flip" \/ (lo = hi /\ lo \in {0, 1000}))
  BY <1>1, <1>2, <1>3 DEF SameField
<1>5. Value(sig, data) =
        RoundToDecimals(((w + off) \div L) * L - off, Decimals(f.size, f.res), f.res[2])
  BY <1>2, <1>3 DEF Decoded, Value, Raw, DecimalPlaces
<1>6. CASE f.size = 4
  <2>1. L = 1 /\ off = 0 /\ Decimals(f.size, f.res) = f.res[2] /\ f.res[2] \in {0, 7}
    BY <1>2, <1>3, <1>6 DEF Lsb, Decimals, One, Deg7
  <2>2. Value(sig, data) = w
    <3>1. Decimals(f.size, f.res) - f.res[2] = 0 /\ ((w + off) \div L) * L - off = w
      BY <2>1
    <3>2. 10^(Decimals(f.size, f.res) - f.res[2]) = 1
      <4>1. 10^0 = 1
        BY SMT
      <4>2. QED
        BY <3>1, <4>1, Zenon
    <3>3. Value(sig, data) = ((w + 1 \div 2) \div 1) * 1
      BY <1>5, <3>1, <3>2, Zenon DEF RoundToDecimals
    <3>4. QED
      BY <3>3
  <2>3. ValueKind(sig) = "bool" => w \in {0, 1000}
    BY <1>1, <1>2, <1>3, <1>4 DEF Switched
  <2>4. w \in min..max \/ f.move = "sum"
    BY <1>2, <1>4
  <2>5. Arrives(v, f, sig, w)
    BY <1>2, <1>3, <1>6, <2>1, <2>3, <2>4 DEF Arrives
  <2>6. QED
    BY <2>2, <2>5
<1>7. CASE f.size # 4
  <2>1. /\ Decimals(f.size, f.res) = 3 /\ p \in {1, 10, 100, 1000} /\ L \in {p, 2 * p}
        /\ f.res = One => p = 1000 /\ L = 1000
    BY <1>2, <1>7, Scales
  <2>2. f.off = 0 \/ f.off % p = 0
    BY <1>1, <1>2, <1>7 DEF SameField
  <2> HIDE DEF L, p
  <2>3. PICK q \in {1, 10, 100, 1000}, l \in Nat \ {0} : q = p /\ l = L /\ l \in {q, 2 * q}
    BY <2>1
  <2>4. PICK got \in Int : CutOff(w, off, l, got)
    BY CutOffIs
  <2>5. off % q = 0 /\ got % q = 0
    <3>1. off % q = 0
      BY <1>3, <2>2, <2>3
    <3>2. QED
      BY <2>3, <2>4, <3>1 DEF CutOff
  <2>6. Value(sig, data) = got
    <3>1. Value(sig, data) = ((got + q \div 2) \div q) * q
      BY <1>5, <2>1, <2>3, <2>4 DEF RoundToDecimals, CutOff, p
    <3>2. ((got + q \div 2) \div q) * q = got
      BY <2>3, <2>5, Rounded
    <3>3. QED
      BY <3>1, <3>2
  <2>7. w - got \in 0..(l - 1) /\ min <= got
    <3>1. min <= w /\ (min + off) % l = 0
      BY <1>2, <1>4, <2>3
    <3>2. QED
      BY <2>4, <3>1, CutOffLoses
  <2>8. got \in min..max \/ f.move = "sum"
    BY <1>2, <1>4, <2>7
  <2>9. ValueKind(sig) = "bool" => got \in {0, 1000}
    <3> SUFFICES ASSUME ValueKind(sig) = "bool" PROVE got \in {0, 1000}
      OBVIOUS
    <3>1. l = 1000 /\ off = 0 /\ w \in {0, 1000}
      BY <1>1, <1>2, <1>3, <1>4, <2>1, <2>3 DEF Switched
    <3>2. QED
      BY <2>4, <3>1 DEF CutOff
  <2>10. ValueKind(sig) = "int" => got % 1000 = 0
    <3> SUFFICES ASSUME ValueKind(sig) = "int" PROVE got % 1000 = 0
      OBVIOUS
    <3>1. q = 1000
      BY <1>2, <2>1, <2>3 DEF ValueKind
    <3>2. QED
      BY <2>5, <3>1
  <2>11. QED
    BY <1>2, <1>3, <2>3, <2>6, <2>7, <2>8, <2>9, <2>10 DEF Arrives, L
<1>8. QED
  BY <1>6, <1>7

LEMMA DivGrows ==
    ASSUME NEW L \in {1, 2, 10, 20, 100, 200, 1000, 2000},
           NEW a \in Int, NEW b \in Int, a >= 0, a <= b
    PROVE  a \div L \in Nat /\ a \div L <= b \div L
OBVIOUS

\* The integers that are put fit into their bytes.
LEMMA RawFits ==
    ASSUME NEW f, NEW sig, NEW lo, NEW hi, SameField(f, sig, lo, hi), NEW v \in lo..hi
    PROVE  /\ Raw(f, v) \in Int
           /\ f.size = 4 => Raw(f, v) >= -MaxInt /\ Raw(f, v) <= MaxInt
           /\ f.size \in {1, 2} => Raw(f, v) >= 0 /\ Raw(f, v) < 256^f.size
<1>1. /\ f.off \in Int /\ lo \in Int /\ hi \in Int /\ f.size \in {0, 1, 2, 4}
      /\ f.size = 4 => f.off = 0 /\ f.res \in {One, Deg7}
      /\ f.size # 4 => f.res \in {One, Deci, Fifth, Centi, Milli}
  BY SameFieldIs
<1>2. CASE f.size = 4
  <2>1. Lsb(f.size, f.res) = 1
    BY <1>1, <1>2 DEF Lsb, One, Deg7
  <2>2. Raw(f, v) = v
    BY <1>1, <1>2, <2>1 DEF Raw
  <2>3. lo >= -MaxInt /\ hi <= MaxInt
    BY <1>2 DEF SameField
  <2>4. QED
    BY <1>1, <1>2, <2>2, <2>3, SMT DEF MaxInt
<1>3. CASE f.size # 4
  <2>1. lo + f.off >= 0 /\ (hi + f.off) \div Lsb(f.size, f.res) < 256^Width(f)
    BY <1>3, Zenon DEF SameField
  <2>2. PICK L \in {1, 2, 10, 20, 100, 200, 1000, 2000} : L = Lsb(f.size, f.res)
    BY <1>1, <1>3, Scales
  <2>3. Raw(f, v) = (v + f.off) \div L
    BY <2>2 DEF Raw
  <2>4. PICK off \in Int : off = f.off
    BY <1>1
  <2>5. (v + off) \div L \in Nat /\ (v + off) \div L <= (hi + off) \div L
    <3>1. v + off >= 0 /\ v + off <= hi + off /\ v + off \in Int /\ hi + off \in Int
      BY <1>1, <2>1, <2>4
    <3>2. QED
      BY <3>1, DivGrows
  <2>6. f.size \in {1, 2} => 256^f.size \in Int /\ Width(f) = f.size
    BY Powers DEF Width
  <2>7. QED
    BY <1>1, <1>3, <2>1, <2>2, <2>3, <2>4, <2>5, <2>6
<1>4. QED
  BY <1>2, <1>3

LEMMA PayloadIs ==
    ASSUME NEW m \in Messages, NEW values
    PROVE  /\ Dlc(m) \in 1..8 /\ Len(Payload(m, values)) = Dlc(m)
           /\ \E S : Payload(m, values) \in Seq(S)
<1> DEFINE data == Payload(m, values)
           S == {data[b] : b \in 1..Dlc(m)}
<1>1. Dlc(m) \in 1..8
  BY TableAssumption
<1>2. data = [b \in 1..Dlc(m) |-> data[b]]
  BY DEF Payload, Written
<1> HIDE DEF data
<1>3. data \in [1..Dlc(m) -> S]
  BY <1>2
<1> HIDE DEF S
<1>4. data \in Seq(S) /\ Len(data) = Dlc(m)
  BY <1>1, <1>3
<1>5. QED
  BY <1>1, <1>4 DEF data

\* A field of bytes is decoded as it was put.
LEMMA BytesDecoded ==
    ASSUME NEW m \in Messages, NEW values, NEW n \in Nat, LenIs(values, n), LenIs(Puts[m], n),
           Puts[m][1].field.size # 0, NEW k \in 1..n, NEW sig,
           MayHold(Puts[m][k].field, sig, values[k])
    PROVE  Decoded(sig, Payload(m, values), Puts[m][k].field, values[k])
<1> DEFINE f == Puts[m][k].field
           data == Payload(m, values)
<1>1. PICK lo, hi : SameField(Puts[m][k].field, sig, lo, hi) /\ values[k] \in lo..hi
  BY Zenon DEF MayHold
<1>2. /\ f.at \in Nat /\ f.size \in {1, 2, 4} /\ f.at + f.size <= Dlc(m)
  BY Agreed DEF LenIs
<1>3. \A j \in 0..(f.size - 1) : data[f.at + j + 1] = ByteOf(Raw(f, values[k]), j)
  <2> TAKE j \in 0..(f.size - 1)
  <2>1. PICK b : ByteOfField(Puts[m], k, j, b)
    BY DEF ByteOfField
  <2>2. ByteSent(m, values, k, j, b)
    BY <2>1, PayloadBytes, Zenon
  <2>3. QED
    BY <2>1, <2>2 DEF ByteOfField, ByteSent
<1> HIDE DEF f
<1>4. PICK v \in lo..hi : v = values[k]
  BY <1>1
<1>5. SameField(f, sig, lo, hi)
  BY <1>1 DEF f
<1>6. PICK raw \in Int :
        /\ raw = Raw(f, v)
        /\ f.size = 4 => raw >= -MaxInt /\ raw <= MaxInt
        /\ f.size \in {1, 2} => raw >= 0 /\ raw < 256^f.size
  BY <1>5, RawFits
<1>7. /\ f.at = sig.at /\ f.size = sig.size
      /\ <<sig.size, sig.type>> \in {<<1, "Uint8">>, <<2, "Uint16">>, <<4, "Int32">>}
  BY <1>2, <1>5, SameFieldIs
<1>8. PICK S : data \in Seq(S) /\ Len(data) = Dlc(m)
  BY PayloadIs
<1> HIDE DEF data
<1>9. DecodeRaw(sig, data) = raw
  <2>1. \A j \in 0..(sig.size - 1) : data[sig.at + j + 1] = ByteOf(raw, j)
    BY <1>3, <1>4, <1>6, <1>7
  <2>2. IF sig.size = 4 THEN raw >= -MaxInt /\ raw <= MaxInt ELSE raw >= 0 /\ raw < 256^sig.size
    BY <1>2, <1>6, <1>7
  <2>3. sig.at \in Nat /\ sig.at + sig.size <= Len(data)
    BY <1>2, <1>7, <1>8
  <2>4. QED
    BY <1>7, <1>8, <2>1, <2>2, <2>3, DecodedBytes
<1>10. QED
  BY <1>4, <1>6, <1>9 DEF f, data, Decoded

\* The eight binary digits of a byte.
Digit(n, q, x) == (n \div 2^q) % 2 = x

IsBinary(n, a, b, c, d, e, f, g, h) ==
    n = a + 2 * b + 4 * c + 8 * d + 16 * e + 32 * f + 64 * g + 128 * h

LEMMA Digits ==
    ASSUME NEW a \in {0, 1}, NEW b \in {0, 1}, NEW c \in {0, 1}, NEW d \in {0, 1},
           NEW e \in {0, 1}, NEW f \in {0, 1}, NEW g \in {0, 1}, NEW h \in {0, 1},
           NEW n, IsBinary(n, a, b, c, d, e, f, g, h)
    PROVE  /\ Digit(n, 0, a) /\ Digit(n, 1, b) /\ Digit(n, 2, c) /\ Digit(n, 3, d)
           /\ Digit(n, 4, e) /\ Digit(n, 5, f) /\ Digit(n, 6, g) /\ Digit(n, 7, h)
<1>1. Digit(n, 0, a)
  <2>1. 2^0 = 1
    BY SMT
  <2>2. (n \div 1) % 2 = a
    BY SMT DEF IsBinary
  <2>3. QED
    BY <2>1, <2>2, Zenon DEF Digit
<1>2. Digit(n, 1, b)
  <2>1. 2^1 = 2
    BY SMT
  <2>2. (n \div 2) % 2 = b
    BY SMT DEF IsBinary
  <2>3. QED
    BY <2>1, <2>2, Zenon DEF Digit
<1>3. Digit(n, 2, c)
  <2>1. 2^2 = 4
    BY SMT
  <2>2. (n \div 4) % 2 = c
    BY SMT DEF IsBinary
  <2>3. QED
    BY <2>1, <2>2, Zenon DEF Digit
<1>4. Digit(n, 3, d)
  <2>1. 2^3 = 8
    BY SMT
  <2>2. (n \div 8) % 2 = d
    BY SMT DEF IsBinary
  <2>3. QED
    BY <2>1, <2>2, Zenon DEF Digit
<1>5. Digit(n, 4, e)
  <2>1. 2^4 = 16
    BY SMT
  <2>2. (n \div 16) % 2 = e
    BY SMT DEF IsBinary
  <2>3. QED
    BY <2>1, <2>2, Zenon DEF Digit
<1>6. Digit(n, 5, f)
  <2>1. 2^5 = 32
    BY SMT
  <2>2. (n \div 32) % 2 = f
    BY SMT DEF IsBinary
  <2>3. QED
    BY <2>1, <2>2, Zenon DEF Digit
<1>7. Digit(n, 6, g)
  <2>1. 2^6 = 64
    BY SMT
  <2>2. (n \div 64) % 2 = g
    BY SMT DEF IsBinary
  <2>3. QED
    BY <2>1, <2>2, Zenon DEF Digit
<1>8. Digit(n, 7, h)
  <2>1. 2^7 = 128
    BY SMT
  <2>2. (n \div 128) % 2 = h
    BY SMT DEF IsBinary
  <2>3. QED
    BY <2>1, <2>2, Zenon DEF Digit
<1>9. QED
  BY <1>1, <1>2, <1>3, <1>4, <1>5, <1>6, <1>7, <1>8

\* A bit of the byte that is put is the bit that was put.
LEMMA BitOfByte ==
    ASSUME NEW p, NEW values, NEW at \in Nat
    PROVE  Digit(EightBitsPut(p, values, 8 * (at \div 8)), at % 8, BitPut(p, values, at))
<1> DEFINE x(q) == BitPut(p, values, 8 * (at \div 8) + q)
           n == EightBitsPut(p, values, 8 * (at \div 8))
<1>1. \A q : x(q) \in {0, 1}
  BY DEF BitPut
<1>2. n = x(0) + 2 * x(1) + 4 * x(2) + 8 * x(3) + 16 * x(4) + 32 * x(5) + 64 * x(6) + 128 * x(7)
  BY Zenon DEF EightBitsPut
<1>3. PICK q \in 0..7 : q = at % 8 /\ 8 * (at \div 8) + q = at
  OBVIOUS
<1> HIDE DEF x, n
<1>4. PICK a \in {0, 1}, b \in {0, 1}, c \in {0, 1}, d \in {0, 1},
           e \in {0, 1}, f \in {0, 1}, g \in {0, 1}, h \in {0, 1} :
        /\ a = x(0) /\ b = x(1) /\ c = x(2) /\ d = x(3)
        /\ e = x(4) /\ f = x(5) /\ g = x(6) /\ h = x(7)
  BY <1>1
<1>5. IsBinary(n, a, b, c, d, e, f, g, h)
  BY <1>2, <1>4, Zenon DEF IsBinary
<1>6. /\ Digit(n, 0, a) /\ Digit(n, 1, b) /\ Digit(n, 2, c) /\ Digit(n, 3, d)
      /\ Digit(n, 4, e) /\ Digit(n, 5, f) /\ Digit(n, 6, g) /\ Digit(n, 7, h)
  BY <1>5, Digits
<1>7. Digit(n, q, x(q))
  BY <1>4, <1>6
<1>8. QED
  BY <1>3, <1>7 DEF x, n

\* A bit is decoded as it was put.
LEMMA BitsDecoded ==
    ASSUME NEW m \in Messages, NEW values, NEW n \in Nat, LenIs(values, n), LenIs(Puts[m], n),
           Puts[m][1].field.size = 0, NEW k \in 1..n, NEW sig,
           MayHold(Puts[m][k].field, sig, values[k])
    PROVE  Decoded(sig, Payload(m, values), Puts[m][k].field, values[k])
<1> DEFINE p == Puts[m]
<1>1. /\ p[k].field.size = 0 /\ p[k].field.at \in Nat /\ p[k].field.at < 8 * Dlc(m)
      /\ Dlc(m) \in 1..8
      /\ \A l \in 1..n : l # k => p[l].field.at # p[k].field.at
  BY Agreed DEF LenIs
<1>2. PICK f : f = p[k].field
  OBVIOUS
<1>3. PICK at \in Nat : f = p[k].field /\ at = f.at
  BY <1>1, <1>2
<1>4. PICK lo, hi : SameField(f, sig, lo, hi) /\ Switched(f, values[k])
  BY <1>2, Zenon DEF MayHold
<1>5. /\ sig.type = "Bit" /\ sig.at = at /\ f.res = One /\ f.off = 0
      /\ values[k] \in {0, 1000}
  BY <1>4, <1>1, <1>3, SameFieldIs DEF Switched
<1>6. \A b1 \in 1..Dlc(m) : Payload(m, values)[b1] = EightBitsPut(p, values, 8 * (b1 - 1))
  BY DEF Payload, Written
<1> HIDE DEF p
<1>7. Payload(m, values)[at \div 8 + 1] = EightBitsPut(p, values, 8 * (at \div 8))
  <2>1. PICK b \in 1..Dlc(m) : b = at \div 8 + 1 /\ b - 1 = at \div 8
    <3>1. at \div 8 \in Nat /\ at \div 8 < Dlc(m)
      BY <1>1, <1>3
    <3>2. QED
      BY <1>1, <3>1
  <2>2. Payload(m, values)[b] = EightBitsPut(p, values, 8 * (b - 1))
    BY <1>6
  <2>3. QED
    BY <2>1, <2>2
<1>8. DecodeRaw(sig, Payload(m, values)) = BitPut(p, values, at)
  <2>1. Digit(EightBitsPut(p, values, 8 * (at \div 8)), at % 8, BitPut(p, values, at))
    BY BitOfByte
  <2>2. DecodeRaw(sig, Payload(m, values)) = (Payload(m, values)[at \div 8 + 1] \div 2^(at % 8)) % 2
    BY <1>5 DEF DecodeRaw
  <2>3. QED
    BY <1>7, <2>1, <2>2, Zenon DEF Digit
<1>9. BitPut(p, values, at) = IF values[k] # 0 THEN 1 ELSE 0
  BY <1>1, <1>3 DEF BitPut, LenIs
<1>10. Raw(f, values[k]) = IF values[k] # 0 THEN 1 ELSE 0
  <2>1. Lsb(f.size, f.res) = 1000
    BY <1>1, <1>3, <1>5, Scales
  <2>2. QED
    BY <1>5, <2>1 DEF Raw
<1>11. QED
  BY <1>3, <1>8, <1>9, <1>10 DEF p, Decoded

\* What a channel may hold when it is sent.
InRange(o, c, v) ==
    /\ v \in Least(o, c)..Most(o, c)
    /\ Switched(Channels[o][c], v)

Sendable(m, values) ==
    /\ Len(values) = Len(Puts[m])
    /\ \A k \in 1..Len(Puts[m]) : InRange(Puts[m][k].owner, Puts[m][k].channel, values[k])

SignalOf(sig, m, k) == sig = MessagesById[CanId[m]].signals[k]

\* A signal of a message arrives.
LEMMA FieldArrives ==
    ASSUME NEW m \in Messages, NEW values, Sendable(m, values), NEW k \in 1..Len(Puts[m]),
           NEW sig, SignalOf(sig, m, k)
    PROVE  /\ ~Exceeds(sig, Payload(m, values))
           /\ Arrives(values[k], Puts[m][k].field, sig, Value(sig, Payload(m, values)))
<1>1. /\ Len(Puts[m]) \in Nat /\ FieldsAgree(m, k)
      /\ Puts[m][k].field.size = 0 <=> Puts[m][1].field.size = 0
      /\ Puts[m][1].field.size # 0 => Puts[m][k].field.at + Puts[m][k].field.size <= Dlc(m)
      /\ Puts[m][1].field.size = 0 => Puts[m][k].field.at < 8 * Dlc(m)
      /\ Puts[m][k].field.at \in Nat
  BY Agreed
<1>2. PICK lo, hi : /\ lo = Least(Puts[m][k].owner, Puts[m][k].channel)
                    /\ hi = Most(Puts[m][k].owner, Puts[m][k].channel)
  OBVIOUS
<1>3. /\ SameField(Puts[m][k].field, sig, lo, hi)
      /\ Puts[m][k].field.move = Channels[Puts[m][k].owner][Puts[m][k].channel].move
  BY <1>1, <1>2, Zenon DEF FieldsAgree, SignalOf
<1>4. InRange(Puts[m][k].owner, Puts[m][k].channel, values[k])
  BY DEF Sendable
<1>5. values[k] \in lo..hi /\ Switched(Puts[m][k].field, values[k])
  <2>1. values[k] \in lo..hi
    BY <1>2, <1>4 DEF InRange
  <2>2. Switched(Puts[m][k].field, values[k])
    BY <1>3, <1>4 DEF InRange, Switched
  <2>3. QED
    BY <2>1, <2>2
<1>6. MayHold(Puts[m][k].field, sig, values[k])
  BY <1>3, <1>5 DEF MayHold
<1>7. PICK n \in Nat : LenIs(values, n) /\ LenIs(Puts[m], n) /\ k \in 1..n
  BY <1>1 DEF Sendable, LenIs
<1>8. Decoded(sig, Payload(m, values), Puts[m][k].field, values[k])
  <2>1. CASE Puts[m][1].field.size = 0
    BY <1>6, <1>7, <2>1, BitsDecoded, Zenon
  <2>2. CASE Puts[m][1].field.size # 0
    BY <1>6, <1>7, <2>2, BytesDecoded, Zenon
  <2>3. QED
    BY <2>1, <2>2
<1>9. Arrives(values[k], Puts[m][k].field, sig, Value(sig, Payload(m, values)))
  BY <1>6, <1>8, SignalArrives
<1>10. ~Exceeds(sig, Payload(m, values))
  <2>1. PICK f : f = Puts[m][k].field
    OBVIOUS
  <2>2. Dlc(m) \in Nat /\ Dlc(m) = Len(Payload(m, values))
    BY PayloadIs
  <2>3. PICK at \in Nat, d \in Nat :
          /\ at = f.at /\ d = Dlc(m)
          /\ f.size # 0 => at + f.size <= d
          /\ f.size = 0 => at < 8 * d
    BY <1>1, <2>1, <2>2
  <2>4. /\ sig.at = at /\ f.size = sig.size /\ f.size \in {0, 1, 2, 4}
        /\ sig.type = "Bit" <=> f.size = 0
    BY <1>3, <2>1, <2>3, SameFieldIs
  <2>5. f.size = 0 => ~(at \div 8 >= d)
    BY <2>3
  <2>6. QED
    BY <2>2, <2>3, <2>4, <2>5 DEF Exceeds
<1>11. QED
  BY <1>9, <1>10

\* A frame whose payload the encode functions made of values within their ranges is
\* known to the signal decoder, is long enough for each of its signals, and decodes to
\* those values, each cut off to the resolution of its channel.
THEOREM SentArrives ==
    ASSUME NEW m \in Messages, NEW values, Sendable(m, values)
    PROVE  /\ Decodes(CanId[m], Payload(m, values))
           /\ AllArrive(Puts[m], values, MessagesById[CanId[m]], Payload(m, values))
<1> DEFINE msg == MessagesById[CanId[m]]
           data == Payload(m, values)
<1>1. /\ CanId[m] \in DOMAIN MessagesById /\ Len(Puts[m]) \in Nat
      /\ Len(msg.signals) = Len(Puts[m]) /\ msg.dlc <= Dlc(m)
  BY TablesAssumption, Zenon DEF MessagesAgree
<1>2. Len(values) = Len(Puts[m]) /\ Len(data) = Dlc(m)
  BY PayloadIs DEF Sendable
<1>3. ASSUME NEW k \in 1..Len(Puts[m])
      PROVE  /\ ~Exceeds(msg.signals[k], data)
             /\ Arrives(values[k], Puts[m][k].field, msg.signals[k], Value(msg.signals[k], data))
  <2>1. PICK sig : SignalOf(sig, m, k)
    BY DEF SignalOf
  <2>2. /\ ~Exceeds(sig, data)
        /\ Arrives(values[k], Puts[m][k].field, sig, Value(sig, data))
    BY <2>1, FieldArrives
  <2>3. sig = msg.signals[k]
    BY <2>1 DEF SignalOf
  <2>4. QED
    BY <2>2, <2>3
<1> HIDE DEF msg, data
<1>4. Decodes(CanId[m], data)
  <2>1. Fits(msg, data)
    BY <1>1, <1>2, <1>3 DEF Fits
  <2>2. QED
    BY <1>1, <2>1 DEF Decodes, msg
<1>5. AllArrive(Puts[m], values, msg, data)
  <2>1. \A k \in 1..Len(Puts[m]) : DecodeSignals(msg, data)[k] = Value(msg.signals[k], data)
    BY <1>1 DEF DecodeSignals
  <2>2. QED
    BY <1>1, <1>2, <1>3, <2>1 DEF AllArrive
<1>6. QED
  BY <1>4, <1>5 DEF msg, data

-----------------------------------------------------------------------------
(* The simulated car keeps to its ranges.                                  *)

\* A value that the walk of its channel has left there; the counters have limits.
Fresh(o, c, v, limit) ==
    /\ Switched(Channels[o][c], v)
    /\ CASE Channels[o][c].move = "steady"            -> v = SimStateInit(o)[c]
         [] Channels[o][c].move \in {"burn", "count"} -> v \in 0..limit
         [] OTHER -> v \in Channels[o][c].lo..Channels[o][c].hi

\* The same, or the value the channel began with.
Kept(o, c, v, limit) == Fresh(o, c, v, limit) \/ v = SimStateInit(o)[c]

LEMMA LimitsAre ==
    /\ MaxCounter \in Nat /\ MaxInt \in Nat
    /\ MaxCounter + 281 * (MaxRounds + 1) <= MaxInt
BY SMT DEF MaxCounter, MaxInt, MaxRounds

LEMMA ChannelIs ==
    ASSUME NEW o \in Messages, NEW c \in 1..Len(Channels[o])
    PROVE  /\ Channels[o][c].step \in Int /\ Channels[o][c].lo \in Int
           /\ Channels[o][c].hi \in Int /\ Channels[o][c].lo <= Channels[o][c].hi
           /\ SimStateInit(o)[c] \in Int /\ Switched(Channels[o][c], SimStateInit(o)[c])
           /\ Channels[o][c].move \in
                {"walk", "wrap", "shift", "flip", "sum", "count", "burn", "steady"}
           /\ Channels[o][c].move = "flip" => Channels[o][c].lo = 0 /\ Channels[o][c].hi = 1000
           /\ Channels[o][c].move = "wrap" => Channels[o][c].lo = 0 /\ Channels[o][c].hi = 359999
           /\ Channels[o][c].move = "sum" => Channels[o][c].lo = 0 /\ Channels[o][c].hi = 600000
           /\ Channels[o][c].move \in {"burn", "count"} =>
                /\ SimStateInit(o)[c] \in 0..MaxCounter
                /\ Channels[o][c].lo = 0 /\ Channels[o][c].hi = MaxCounter
<1>1. ChannelsHold(o)
  BY TablesAssumption
<1>2. QED
  BY <1>1 DEF ChannelsHold, Switched

LEMMA FreshInRange ==
    ASSUME NEW o \in Messages, NEW c \in 1..Len(Channels[o]), NEW v, NEW limit \in Nat,
           Fresh(o, c, v, limit), limit <= MaxInt
    PROVE  InRange(o, c, v)
<1>1. PICK f : f = Channels[o][c]
  OBVIOUS
<1>2. SimStateInit(o)[c] \in Int /\ f.move \in {"burn", "count"} => f.lo = 0
  BY <1>1, ChannelIs
<1>3. QED
  BY <1>1, <1>2, ChannelIs, LimitsAre DEF Fresh, InRange, Least, Most

\* What random_walk_f and random_walk_d return.
LEMMA WalkIn ==
    ASSUME NEW f, f.step \in Int, f.lo \in Int, f.hi \in Int, f.lo <= f.hi,
           NEW v \in Int, NEW d \in Int
    PROVE  RandomWalk(v, f, d) \in f.lo..f.hi
<1>1. PICK n \in Int : n = v + (f.step * d) \div 7
  <2>1. PICK s \in Int : s = f.step * d
    OBVIOUS
  <2>2. v + s \div 7 \in Int
    OBVIOUS
  <2>3. QED
    BY <2>1, <2>2
<1>2. RandomWalk(v, f, d) = CASE n < f.lo -> f.lo [] n > f.hi -> f.hi [] OTHER -> n
  BY <1>1, Zenon DEF RandomWalk
<1>3. CASE n < f.lo
  <2>1. ~(n > f.hi)
    BY <1>3
  <2>2. RandomWalk(v, f, d) = f.lo
    BY <1>2, <1>3, <2>1, Zenon
  <2>3. QED
    BY <2>2
<1>4. CASE n > f.hi
  <2>1. ~(n < f.lo)
    BY <1>4
  <2>2. RandomWalk(v, f, d) = f.hi
    BY <1>2, <1>4, <2>1, Zenon
  <2>3. QED
    BY <2>2
<1>5. CASE ~(n < f.lo) /\ ~(n > f.hi)
  <2>1. RandomWalk(v, f, d) = n
    BY <1>2, <1>5, Zenon
  <2>2. QED
    BY <1>5, <2>1
<1>6. QED
  BY <1>3, <1>4, <1>5

LEMMA KeptIs ==
    ASSUME NEW o \in Messages, NEW c \in 1..Len(Channels[o]), NEW v, NEW limit \in Nat,
           limit >= MaxCounter, Kept(o, c, v, limit)
    PROVE  /\ v \in Int /\ Switched(Channels[o][c], v)
           /\ Channels[o][c].move = "steady" => v = SimStateInit(o)[c]
           /\ Channels[o][c].move \in {"burn", "count"} => v \in 0..limit
<1>1. CASE v = SimStateInit(o)[c]
  <2>1. /\ SimStateInit(o)[c] \in Int /\ Switched(Channels[o][c], SimStateInit(o)[c])
        /\ Channels[o][c].move \in {"burn", "count"} => SimStateInit(o)[c] \in 0..MaxCounter
    BY ChannelIs
  <2>2. QED
    BY <1>1, <2>1, LimitsAre
<1>2. CASE Fresh(o, c, v, limit)
  BY <1>2, ChannelIs DEF Fresh
<1>3. QED
  BY <1>1, <1>2 DEF Kept

LEMMA WalkedIs ==
    ASSUME NEW ch, NEW old, NEW total, NEW d, NEW c \in 1..Len(ch)
    PROVE  LET new == Walked(ch, old, total, d)[c]
           IN  /\ ch[c].move = "walk" => new = RandomWalk(old[c], ch[c], d)
               /\ ch[c].move = "wrap" => new = RandomWalkWrap360(old[c], ch[c], d)
               /\ ch[c].move = "shift" => new = Shift(old[c], ch[c], d)
               /\ ch[c].move = "flip" => new = IF c = d THEN 1000 - old[c] ELSE old[c]
               /\ ch[c].move = "sum" => new = total
               /\ ch[c].move = "count" => new = old[c] + 1
               /\ ch[c].move \in {"burn", "steady"} => new = old[c]
<1>1. Walked(ch, old, total, d)[c] =
        CASE ch[c].move = "walk"  -> RandomWalk(old[c], ch[c], d)
          [] ch[c].move = "wrap"  -> RandomWalkWrap360(old[c], ch[c], d)
          [] ch[c].move = "shift" -> Shift(old[c], ch[c], d)
          [] ch[c].move = "flip"  -> IF c = d THEN 1000 - old[c] ELSE old[c]
          [] ch[c].move = "sum"   -> total
          [] ch[c].move = "count" -> old[c] + 1
          [] OTHER                -> old[c]
  BY DEF Walked
<1>2. QED
  BY <1>1

LEMMA ShiftIs ==
    ASSUME NEW v, NEW f, NEW d \in Int
    PROVE  \E e \in Int : Shift(v, f, d) = RandomWalk(v, f, e)
<1>1. CASE d < 0
  <2>1. ~(d = 0) /\ ~(d > 0) /\ -7 \in Int
    BY <1>1
  <2>2. Shift(v, f, d) = RandomWalk(v, f, -7)
    BY <1>1, <2>1, Zenon DEF Shift
  <2>3. QED
    BY <2>1, <2>2, Zenon
<1>2. CASE d = 0
  <2>1. ~(d < 0) /\ ~(d > 0) /\ 0 \in Int
    BY <1>2
  <2>2. Shift(v, f, d) = RandomWalk(v, f, 0)
    BY <1>2, <2>1, Zenon DEF Shift
  <2>3. QED
    BY <2>1, <2>2, Zenon
<1>3. CASE d > 0
  <2>1. ~(d < 0) /\ ~(d = 0) /\ 7 \in Int
    BY <1>3
  <2>2. Shift(v, f, d) = RandomWalk(v, f, 7)
    BY <1>3, <2>1, Zenon DEF Shift
  <2>3. QED
    BY <2>1, <2>2, Zenon
<1>4. QED
  BY <1>1, <1>2, <1>3

IsTotal(total) == total \in Int /\ 0 <= total /\ total <= 600000

\* What an encoder moves is within its range afterwards.
LEMMA WalkedFresh ==
    ASSUME NEW o \in Messages, NEW c \in 1..Len(Channels[o]), NEW old, NEW limit \in Nat,
           limit >= MaxCounter, Kept(o, c, old[c], limit), NEW total, IsTotal(total), NEW d \in Int
    PROVE  Fresh(o, c, Walked(Channels[o], old, total, d)[c], limit + 1)
<1>1. PICK f : f = Channels[o][c]
  OBVIOUS
<1>2. PICK v \in Int : v = old[c]
  BY KeptIs
<1>3. PICK new : new = Walked(Channels[o], old, total, d)[c]
  OBVIOUS
<1>4. /\ f.step \in Int /\ f.lo \in Int /\ f.hi \in Int /\ f.lo <= f.hi
      /\ f.move \in {"walk", "wrap", "shift", "flip", "sum", "count", "burn", "steady"}
  BY <1>1, ChannelIs
<1>5. CASE f.move = "walk" \/ f.move = "shift"
  <2>1. new \in f.lo..f.hi
    <3>1. CASE f.move = "walk"
      <4>1. new = RandomWalk(v, f, d)
        BY <1>1, <1>2, <1>3, <3>1, WalkedIs
      <4>2. QED
        BY <1>4, <4>1, WalkIn
    <3>2. CASE f.move = "shift"
      <4>1. new = Shift(v, f, d)
        BY <1>1, <1>2, <1>3, <3>2, WalkedIs
      <4>2. PICK e \in Int : Shift(v, f, d) = RandomWalk(v, f, e)
        BY ShiftIs
      <4>3. QED
        BY <1>4, <4>1, <4>2, WalkIn
    <3>3. QED
      BY <1>5, <3>1, <3>2
  <2>2. QED
    BY <1>1, <1>3, <1>5, <2>1 DEF Fresh, Switched
<1>6. CASE f.move = "wrap"
  <2>1. new = RandomWalkWrap360(v, f, d) /\ f.lo = 0 /\ f.hi = 359999
    BY <1>1, <1>2, <1>3, <1>6, WalkedIs, ChannelIs, SMT
  <2>2. PICK n \in Int : n = (f.step * d) \div 7
    BY <1>4
  <2>3. new = (v + n) % 360000 /\ v + n \in Int
    BY <2>1, <2>2, SMT DEF RandomWalkWrap360
  <2>4. new \in f.lo..f.hi
    <3>1. PICK k \in Int : k = v + n
      BY <2>3
    <3>2. k % 360000 \in Int /\ k % 360000 >= 0 /\ k % 360000 < 360000
      BY SMT
    <3>3. new \in Int /\ f.lo <= new /\ new <= f.hi
      BY <2>1, <2>3, <3>1, <3>2, SMT
    <3>4. QED
      BY <1>4, <3>3
  <2>5. QED
    BY <1>1, <1>3, <1>6, <2>4 DEF Fresh, Switched
<1>7. CASE f.move = "flip"
  <2>1. v \in {0, 1000} /\ f.lo = 0 /\ f.hi = 1000
    BY <1>1, <1>2, <1>7, KeptIs, ChannelIs, SMT DEF Switched
  <2>2. new = IF c = d THEN 1000 - v ELSE v
    BY <1>1, <1>2, <1>3, <1>7, WalkedIs, SMT
  <2>3. new \in {0, 1000}
    BY <2>1, <2>2
  <2>4. QED
    BY <1>1, <1>3, <1>7, <2>1, <2>3 DEF Fresh, Switched
<1>8. CASE f.move = "sum"
  <2>1. new = total /\ f.lo = 0 /\ f.hi = 600000
    BY <1>1, <1>3, <1>8, WalkedIs, ChannelIs, SMT
  <2>2. new \in Int /\ f.lo <= new /\ new <= f.hi
    BY <2>1, SMT DEF IsTotal
  <2>3. new \in f.lo..f.hi
    BY <1>4, <2>2
  <2>4. QED
    BY <1>1, <1>3, <1>8, <2>3 DEF Fresh, Switched
<1>9. CASE f.move = "count"
  <2>1. new = v + 1 /\ v \in 0..limit
    BY <1>1, <1>2, <1>3, <1>9, WalkedIs, KeptIs
  <2>2. QED
    BY <1>1, <1>3, <1>9, <2>1 DEF Fresh, Switched
<1>10. CASE f.move = "burn"
  <2>1. new = v /\ v \in 0..limit
    BY <1>1, <1>2, <1>3, <1>10, WalkedIs, KeptIs
  <2>2. QED
    BY <1>1, <1>3, <1>10, <2>1 DEF Fresh, Switched
<1>11. CASE f.move = "steady"
  <2>1. new = v /\ v = SimStateInit(o)[c]
    BY <1>1, <1>2, <1>3, <1>11, WalkedIs, KeptIs
  <2>2. QED
    BY <1>1, <1>3, <1>11, <2>1 DEF Fresh, Switched
<1>12. QED
  BY <1>4, <1>5, <1>6, <1>7, <1>8, <1>9, <1>10, <1>11

LEMMA KeptGrows ==
    ASSUME NEW o \in Messages, NEW c \in 1..Len(Channels[o]), NEW v,
           NEW limit \in Nat, NEW more \in Nat, limit <= more
    PROVE  /\ Fresh(o, c, v, limit) => Fresh(o, c, v, more)
           /\ Kept(o, c, v, limit) => Kept(o, c, v, more)
<1>1. v \in 0..limit => v \in 0..more
  OBVIOUS
<1>2. Fresh(o, c, v, limit) => Fresh(o, c, v, more)
  BY <1>1, Zenon DEF Fresh
<1>3. QED
  BY <1>2 DEF Kept

\* What encode_pe1 burns in a round.
Revs(rpm) == rpm \in Int /\ 0 <= rpm /\ rpm <= 14000000
Pedal(throttle) == throttle \in Int /\ 0 <= throttle /\ throttle <= 100000

LEMMA BurntIs ==
    ASSUME NEW rpm, Revs(rpm), NEW throttle, Pedal(throttle)
    PROVE  Burnt(rpm, throttle) \in Nat /\ Burnt(rpm, throttle) <= 280
<1>1. PICK a \in Nat : a = rpm \div 10 /\ a <= 1400000
  BY SMT DEF Revs
<1>2. PICK b \in Nat : b = throttle \div 100 /\ b <= 1000
  BY SMT DEF Pedal
<1>3. PICK p \in Nat : p = a * b /\ p <= 1400000 * 1000
  <2>1. a * b <= 1400000 * b
    <3>1. PICK r \in Nat : r = 1400000 - a
      BY <1>1, SMT
    <3>2. r * b >= 0
      BY SMT
    <3>3. (a + r) * b = a * b + r * b
      BY SMT
    <3>4. a + r = 1400000
      BY <3>1, SMT
    <3>5. QED
      BY <3>2, <3>3, <3>4, SMT
  <2>2. QED
    BY <1>2, <2>1, SMT
<1>4. p \div 5000000 \in Nat /\ p \div 5000000 <= 280
  BY <1>3, SMT
<1>5. Burnt(rpm, throttle) = p \div 5000000
  BY <1>1, <1>2, <1>3, SMT DEF Burnt, Revs, Pedal
<1>6. QED
  BY <1>4, <1>5, SMT

LEMMA EngineIs ==
    LET ch == Channels[<<"PE", 1>>]
    IN  /\ <<"PE", 1>> \in Messages /\ Len(ch) = 6
        /\ ch[1].move = "walk" /\ 0 <= ch[1].lo /\ ch[1].hi <= 14000000
        /\ ch[2].move = "walk" /\ 0 <= ch[2].lo /\ ch[2].hi <= 100000
        /\ ch[6].move = "burn"
<1>1. <<"PE", 1>> \in Messages
  BY DEF Messages, Named
<1>2. ~Banked(<<"PE", 1>>)
  BY DEF Banked, InBank
<1>3. Channels[<<"PE", 1>>] = Append(Pe[1], Pe[3][2])
  <2>1. /\ <<"PE", 1>>[1] # "CD" /\ <<"PE", 1>>[1] # "TTU" /\ <<"PE", 1>> # <<"PE", 3>>
        /\ <<"PE", 1>>[1] # "GPS" /\ <<"PE", 1>>[1] # "EC" /\ <<"PE", 1>>[1] # "PD"
        /\ <<"PE", 1>>[1] # "DA" /\ <<"PE", 1>>[2] = 1
    OBVIOUS
  <2>2. QED
    BY <1>1, <1>2, <2>1, Zenon DEF Channels
<1>4. LET ch == Append(Pe[1], Pe[3][2])
      IN  Len(ch) = 6 /\ ch[1] = Pe[1][1] /\ ch[2] = Pe[1][2] /\ ch[6] = Pe[3][2]
  BY SMT DEF Pe
<1>5. /\ Pe[3][2].move = "burn"
      /\ Pe[1][1].move = "walk" /\ Pe[1][1].lo = 800000 /\ Pe[1][1].hi = 14000000
      /\ Pe[1][2].move = "walk" /\ Pe[1][2].lo = 0 /\ Pe[1][2].hi = 100000
  BY SMT DEF Pe, U16, U8, Field
<1>6. QED
  BY <1>1, <1>3, <1>4, <1>5, SMT

\* The channels of o, each kept.
CarKept(o, values, limit) ==
    /\ DOMAIN values = 1..Len(Channels[o])
    /\ \A c \in 1..Len(Channels[o]) : Kept(o, c, values[c], limit)

\* After the encoder of its message every channel is within its range.
LEMMA FuelledFresh ==
    ASSUME NEW o \in Messages, NEW old, NEW limit \in Nat, limit >= MaxCounter,
           CarKept(o, old, limit), NEW total, IsTotal(total), NEW d \in Int
    PROVE  LET new == Fuelled(o, Walked(Channels[o], old, total, d))
           IN  /\ DOMAIN new = 1..Len(Channels[o])
               /\ \A c \in 1..Len(Channels[o]) : Fresh(o, c, new[c], limit + 281)
<1>1. PICK w : w = Walked(Channels[o], old, total, d)
  OBVIOUS
<1>2. DOMAIN w = 1..Len(Channels[o])
  BY <1>1 DEF Walked
<1>3. PICK more \in Nat : more = limit + 281 /\ limit + 1 \in Nat /\ limit + 1 <= more
  OBVIOUS
<1>4. \A c \in 1..Len(Channels[o]) : Fresh(o, c, w[c], limit + 1)
  BY <1>1, WalkedFresh DEF CarKept
<1>5. \A c \in 1..Len(Channels[o]) : Fresh(o, c, w[c], more)
  BY <1>3, <1>4, KeptGrows
<1>6. CASE o # <<"PE", 1>>
  BY <1>1, <1>2, <1>3, <1>5, <1>6 DEF Fuelled
<1>7. CASE o = <<"PE", 1>>
  <2>1. PICK ch : ch = Channels[o]
    OBVIOUS
  <2>2. /\ Len(ch) = 6
        /\ ch[1].move = "walk" /\ 0 <= ch[1].lo /\ ch[1].hi <= 14000000
        /\ ch[2].move = "walk" /\ 0 <= ch[2].lo /\ ch[2].hi <= 100000
        /\ ch[6].move = "burn"
    BY <1>7, <2>1, EngineIs, SMT
  <2>3. Fresh(o, 1, w[1], limit + 1) /\ Fresh(o, 2, w[2], limit + 1) /\ Fresh(o, 6, w[6], limit + 1)
    <3>1. 1 \in 1..Len(ch) /\ 2 \in 1..Len(ch) /\ 6 \in 1..Len(ch)
      BY <2>2, SMT
    <3>2. QED
      BY <1>4, <2>1, <3>1, Zenon
  <2>4. w[1] \in ch[1].lo..ch[1].hi /\ w[2] \in ch[2].lo..ch[2].hi /\ w[6] \in 0..(limit + 1)
    <3>1. ch[1].move = "walk" /\ ch[2].move = "walk" /\ ch[6].move = "burn"
      BY <2>2, SMT
    <3>2. QED
      BY <2>1, <2>3, <3>1 DEF Fresh
  <2>5. PICK b \in Nat : b = Burnt(w[1], w[2]) /\ b <= 280
    <3>1. PICK x, y : x = w[1] /\ y = w[2]
      OBVIOUS
    <3>2. ch[1].lo \in Int /\ ch[1].hi \in Int /\ ch[2].lo \in Int /\ ch[2].hi \in Int
      BY <2>1, <2>2, ChannelIs, SMT
    <3>3. x \in Int /\ ch[1].lo <= x /\ x <= ch[1].hi /\ y \in Int /\ ch[2].lo <= y /\ y <= ch[2].hi
      BY <2>4, <3>1, <3>2
    <3>4. Revs(x) /\ Pedal(y)
      BY <2>2, <3>2, <3>3, SMT DEF Revs, Pedal
    <3>5. Burnt(x, y) \in Nat /\ Burnt(x, y) <= 280
      BY <3>4, BurntIs
    <3>6. QED
      BY <3>1, <3>5, SMT
  <2>6. PICK new : new = [w EXCEPT ![6] = @ + Burnt(w[1], w[2])]
    OBVIOUS
  <2>7. DOMAIN new = DOMAIN w /\ \A c \in DOMAIN w : new[c] = IF c = 6 THEN w[6] + b ELSE w[c]
    BY <2>5, <2>6
  <2>8. w[6] + b \in 0..more
    BY <1>3, <2>4, <2>5
  <2>9. Fresh(o, 6, w[6] + b, more)
    BY <2>1, <2>2, <2>8 DEF Fresh, Switched
  <2>10. \A c \in 1..Len(Channels[o]) : Fresh(o, c, new[c], more)
    BY <1>2, <1>5, <2>7, <2>9
  <2>11. Fuelled(o, w) = new
    BY <1>7, <2>6 DEF Fuelled
  <2>12. QED
    BY <1>1, <1>2, <1>3, <2>7, <2>10, <2>11
<1>8. QED
  BY <1>6, <1>7

\* A current, and what there is beyond the last of them.
LEMMA CurrentIs ==
    ASSUME NEW limit, NEW k \in 1..30, NEW v, Kept(<<"PD", 2>>, k, v, limit)
    PROVE  v \in Int /\ 0 <= v /\ v <= 20000
<1>1. /\ Channels[<<"PD", 2>>][k].move = "walk" /\ Channels[<<"PD", 2>>][k].lo = 0
      /\ Channels[<<"PD", 2>>][k].hi = 20000
  BY PdMessages, SMT DEF Currents, Row, Field
<1>2. SimStateInit(<<"PD", 2>>) = Thirds(30, 2000)
  <2>1. /\ <<"PD", 2>>[1] # "CD" /\ <<"PD", 2>>[1] # "TTU" /\ <<"PD", 2>>[1] # "PE"
        /\ <<"PD", 2>>[1] # "GPS" /\ <<"PD", 2>>[1] # "EC" /\ <<"PD", 2>>[1] # "LG"
        /\ <<"PD", 2>> \notin {<<"PD", 1>>, <<"PD", 6>>, <<"PD", 10>>, <<"PD", 11>>}
        /\ <<"PD", 2>> \notin {<<"PD", 12>>, <<"PD", 16>>, <<"DA", 2>>, <<"DA", 1>>}
    BY SMT
  <2>2. QED
    BY <2>1, SMT DEF SimStateInit
<1>3. SimStateInit(<<"PD", 2>>)[k] \in {0, 2000}
  BY <1>2, SMT DEF Thirds
<1>4. k \in 1..Len(Channels[<<"PD", 2>>]) /\ <<"PD", 2>> \in Messages
  BY PdMessages, CurrentsBank
<1>5. CASE v = SimStateInit(<<"PD", 2>>)[k]
  BY <1>3, <1>5, SMT
<1>6. CASE Fresh(<<"PD", 2>>, k, v, limit)
  <2>1. PICK f : f = Channels[<<"PD", 2>>][k]
    OBVIOUS
  <2>2. f.lo \in Int /\ f.hi \in Int
    BY <1>4, <2>1, ChannelIs
  <2>3. v \in f.lo..f.hi
    <3>1. f.move = "walk"
      BY <1>1, <2>1
    <3>2. QED
      BY <1>6, <2>1, <3>1 DEF Fresh
  <2>4. v \in Int /\ f.lo <= v /\ v <= f.hi
    BY <2>2, <2>3
  <2>5. QED
    BY <1>1, <2>1, <2>4, SMT
<1>7. QED
  BY <1>5, <1>6 DEF Kept

LEMMA TotalIs ==
    ASSUME NEW c, NEW limit, CarKept(<<"PD", 2>>, c[<<"PD", 2>>], limit)
    PROVE  IsTotal(TotalCurrent(c))
<1> DEFINE a == c[<<"PD", 2>>]
           at(start, k) == IF start + k \in DOMAIN a THEN a[start + k] ELSE 0
           sum(s) == at(s, 1) + at(s, 2) + at(s, 3) + at(s, 4)
                       + at(s, 5) + at(s, 6) + at(s, 7) + at(s, 8)
<1>1. DOMAIN a = 1..30 /\ \A k \in 1..30 : Kept(<<"PD", 2>>, k, a[k], limit)
  BY PdMessages, CurrentsBank DEF CarKept
<1>2. \A k \in 1..30 : a[k] \in Int /\ 0 <= a[k] /\ a[k] <= 20000
  BY <1>1, CurrentIs
<1> HIDE DEF a
<1>3. ASSUME NEW start \in {0, 8, 16, 24}, NEW k \in 1..8
      PROVE  /\ at(start, k) \in Int /\ 0 <= at(start, k) /\ at(start, k) <= 20000
             /\ start + k > 30 => at(start, k) = 0
  BY <1>1, <1>2, SMT
<1> HIDE DEF at
<1>4. ASSUME NEW start \in {0, 8, 16, 24}
      PROVE  /\ sum(start) \in Int /\ 0 <= sum(start) /\ sum(start) <= 160000
             /\ start = 24 => sum(start) <= 120000
  BY <1>3, SMT
<1>5. TotalCurrent(c) = sum(0) + sum(8) + sum(16) + sum(24)
  BY Zenon DEF TotalCurrent, SumOf8, at, a
<1> HIDE DEF sum
<1>6. QED
  BY <1>4, <1>5, SMT DEF IsTotal

-----------------------------------------------------------------------------
(* What is sent is within the ranges of what is decoded.                   *)

\* Message o has been encoded in this round, or will not be.
HadItsTurn(o) == pc # "delay" /\ \E p \in 1..NumMessages : bench.table[p] = o /\ Done(p)

\* How far the counters of o can have got.
Limit(o) == MaxCounter + 281 * (IF HadItsTurn(o) THEN tick + 1 ELSE tick)

CarInRange ==
    /\ pc = "delay" => i = NumMessages + 1
    /\ \A o \in Messages : CarKept(o, car[o], Limit(o))

EncodingsSendable ==
    \A e \in 1..Count :
        /\ encoded[e].message \in 1..NumMessages
        /\ Sendable(bench.table[encoded[e].message], encoded[e].values)

Limits ==
    /\ tick \in Nat /\ MaxCounter + 281 * (tick + 1) <= MaxInt
    /\ \A o \in Messages : /\ Limit(o) \in Nat /\ Limit(o) >= MaxCounter
                          /\ Limit(o) <= MaxCounter + 281 * (tick + 1)

LEMMA LimitIs == TypeOK => Limits
<1> SUFFICES ASSUME TypeOK PROVE Limits
  OBVIOUS
<1>1. tick \in Nat /\ tick <= MaxRounds
  <2>1. bench.rounds \in Nat /\ bench.rounds <= MaxRounds /\ tick \in 0..bench.rounds
    BY EcuAssumption DEF TypeOK
  <2>2. MaxRounds \in Nat
    BY SMT DEF MaxRounds
  <2>3. QED
    BY <2>1, <2>2
<1>2. MaxCounter \in Nat /\ MaxInt \in Nat /\ MaxRounds \in Nat
      /\ MaxCounter + 281 * (MaxRounds + 1) <= MaxInt
  BY LimitsAre, SMT DEF MaxRounds
<1>3. MaxCounter + 281 * (tick + 1) <= MaxInt
  BY <1>1, <1>2
<1>4. QED
  BY <1>1, <1>2, <1>3 DEF Limits, Limit

LEMMA CarAtKept ==
    ASSUME NEW place \in Places, NEW o \in Messages
    PROVE  CarKept(o, CarAt(place)[o], MaxCounter)
<1> DEFINE ch == Channels[o]
           at == CarAt(place)[o]
<1>1. /\ DOMAIN at = 1..Len(ch)
      /\ \A k \in 1..Len(ch) :
           at[k] = CASE place = "boot" \/ ch[k].move = "steady" -> SimStateInit(o)[k]
                     [] place = "low" /\ ch[k].move # "steady" -> ch[k].lo
                     [] place = "high" /\ ch[k].move # "steady" -> ch[k].hi
  BY DEF CarAt
<1> HIDE DEF at, ch
<1>2. ASSUME NEW k \in 1..Len(ch) PROVE Kept(o, k, at[k], MaxCounter)
  <2>1. PICK f : f = ch[k]
    OBVIOUS
  <2>2. /\ f.lo \in Int /\ f.hi \in Int /\ f.lo <= f.hi /\ MaxCounter \in Nat
        /\ f.move = "flip" => f.lo \in {0, 1000} /\ f.hi \in {0, 1000}
        /\ f.move \in {"burn", "count"} => f.lo = 0 /\ f.hi = MaxCounter
    BY <1>2, <2>1, ChannelIs, LimitsAre, SMT DEF ch
  <2>3. CASE place = "boot" \/ f.move = "steady"
    <3>1. at[k] = SimStateInit(o)[k]
      BY <1>1, <1>2, <2>1, <2>3, Zenon
    <3>2. QED
      BY <3>1 DEF Kept
  <2>4. CASE place # "boot" /\ f.move # "steady"
    <3>1. at[k] = f.lo \/ at[k] = f.hi
      <4>1. place \in {"low", "high"}
        BY <2>4, EcuAssumption
      <4>2. CASE place = "low"
        <5>1. place # "high" /\ ~(place = "boot" \/ f.move = "steady")
          BY <2>4, <4>2
        <5>2. QED
          BY <1>1, <1>2, <2>1, <2>4, <4>2, <5>1, Zenon
      <4>3. CASE place = "high"
        <5>1. place # "low" /\ ~(place = "boot" \/ f.move = "steady")
          BY <2>4, <4>3
        <5>2. QED
          BY <1>1, <1>2, <2>1, <2>4, <4>3, <5>1, Zenon
      <4>4. QED
        BY <4>1, <4>2, <4>3
    <3>2. at[k] \in f.lo..f.hi
      BY <2>2, <3>1
    <3>3. f.move \in {"burn", "count"} => at[k] \in 0..MaxCounter
      BY <2>2, <3>2
    <3>4. Switched(f, at[k])
      BY <2>2, <3>1 DEF Switched
    <3>5. f = Channels[o][k]
      BY <2>1 DEF ch
    <3>6. QED
      BY <2>4, <3>2, <3>3, <3>4, <3>5, Zenon DEF Kept, Fresh
  <2>5. QED
    BY <2>3, <2>4
<1>3. QED
  BY <1>1, <1>2 DEF CarKept, at, ch

LEMMA InRangeInit == Init => CarInRange /\ EncodingsSendable
<1> SUFFICES ASSUME Init PROVE CarInRange /\ EncodingsSendable
  OBVIOUS
<1>1. Count = 0 /\ pc = "loop"
  BY EmptySeq DEF Init, Count
<1>2. PICK place \in Places : car = CarAt(place)
  BY DEF Init
<1>3. TypeOK
  BY TypeInit
<1>4. ASSUME NEW o \in Messages PROVE CarKept(o, car[o], Limit(o))
  <2>1. CarKept(o, car[o], MaxCounter)
    BY <1>2, CarAtKept
  <2>2. Limit(o) \in Nat /\ Limit(o) >= MaxCounter /\ MaxCounter \in Nat
    BY <1>3, LimitIs, LimitsAre DEF Limits
  <2>3. QED
    BY <2>1, <2>2, KeptGrows DEF CarKept
<1>5. QED
  BY <1>1, <1>4 DEF CarInRange, EncodingsSendable

\* A car in which m has moved what it walks is ready to be sent as m.
LEMMA SentSendable ==
    ASSUME NEW m \in Messages, NEW c, NEW limit \in Nat, limit >= MaxCounter, limit <= MaxInt,
           \A o \in Messages : CarKept(o, c[o], limit),
           \A o \in WalkedBy(m) : \A k \in 1..Len(Channels[o]) : Fresh(o, k, c[o][k], limit)
    PROVE  Sendable(m, Sent(c, m))
<1> DEFINE puts == Puts[m]
           s == Sent(c, m)
<1>1. /\ Len(puts) \in Nat
      /\ \A k \in 1..Len(puts) : FieldsAgree(m, k)
  BY Agreed
<1>2. Len(s) = Len(puts) /\ \A k \in 1..Len(puts) : s[k] = c[puts[k].owner][puts[k].channel]
  BY <1>1 DEF Sent, Read
<1> HIDE DEF s
<1>3. ASSUME NEW k \in 1..Len(puts) PROVE InRange(puts[k].owner, puts[k].channel, s[k])
  <2>1. PICK o, l, v : o = puts[k].owner /\ l = puts[k].channel /\ v = s[k]
    OBVIOUS
  <2>2. /\ o \in Messages /\ l \in 1..Len(Channels[o]) /\ v = c[o][l]
        /\ o \notin WalkedBy(m) => SimStateInit(o)[l] \in Least(o, l)..Most(o, l)
    BY <1>1, <1>2, <2>1 DEF FieldsAgree
  <2>3. Kept(o, l, v, limit)
    BY <2>2 DEF CarKept
  <2>4. CASE Fresh(o, l, v, limit)
    BY <2>1, <2>2, <2>4, FreshInRange
  <2>5. CASE ~Fresh(o, l, v, limit)
    <3>1. v = SimStateInit(o)[l] /\ o \notin WalkedBy(m)
      BY <2>2, <2>3, <2>5 DEF Kept
    <3>2. Switched(Channels[o][l], v)
      BY <2>2, <3>1, ChannelIs
    <3>3. QED
      BY <2>1, <2>2, <3>1, <3>2 DEF InRange
  <2>6. QED
    BY <2>4, <2>5
<1>4. QED
  BY <1>2, <1>3 DEF Sendable, s

\* Steps that encode nothing.
LEMMA InRangeKept ==
    ASSUME TypeOK, TypeOK', CarInRange, EncodingsSendable, UNCHANGED <<bench, car, encoded>>,
           pc' = "delay" => i' = NumMessages + 1,
           \A o \in Messages : Limit(o) <= Limit(o)'
    PROVE  CarInRange' /\ EncodingsSendable'
<1>1. Count' = Count /\ NumMessages' = NumMessages
  BY DEF Count, NumMessages
<1>2. EncodingsSendable'
  BY <1>1 DEF EncodingsSendable
<1>3. ASSUME NEW o \in Messages PROVE CarKept(o, car'[o], Limit(o)')
  <2>1. PICK limit, more : limit = Limit(o) /\ more = Limit(o)'
    OBVIOUS
  <2>2. limit \in Nat
    BY <2>1, LimitIs DEF Limits
  <2>3. more \in Nat
    <3>1. Limits'
      BY LimitIs, PTL
    <3>2. QED
      BY <2>1, <3>1 DEF Limits
  <2>4. limit <= more
    BY <2>1
  <2>5. CarKept(o, car[o], limit)
    BY <2>1 DEF CarInRange
  <2>6. CarKept(o, car[o], more)
    BY <2>2, <2>3, <2>4, <2>5, KeptGrows DEF CarKept
  <2>7. QED
    BY <2>1, <2>6
<1>4. QED
  BY <1>1, <1>2, <1>3 DEF CarInRange

LEMMA InRangeStep ==
    TypeOK /\ TypeOK' /\ EncodedIsList /\ [Next]_vars /\ CarInRange /\ EncodingsSendable
      => CarInRange' /\ EncodingsSendable'
<1> SUFFICES ASSUME TypeOK, TypeOK', EncodedIsList, [Next]_vars, CarInRange, EncodingsSendable
             PROVE  CarInRange' /\ EncodingsSendable'
  OBVIOUS
<1>1. /\ NumMessages \in Nat /\ i \in Nat /\ i \in 1..(NumMessages + 1)
      /\ \A j \in 1..NumMessages : bench.table[j] \in Messages
      /\ \A j, k \in 1..NumMessages : bench.table[j] = bench.table[k] => j = k
      /\ Count \in Nat
  BY Bounds, PdInOrder, ListGrows DEF TypeOK, Count, EncodedIsList
<1>2. /\ tick \in Nat /\ MaxCounter \in Nat /\ MaxCounter + 281 * (tick + 1) <= MaxInt
      /\ \A o \in Messages : /\ Limit(o) \in Nat /\ Limit(o) >= MaxCounter
                             /\ Limit(o) <= MaxCounter + 281 * (tick + 1)
  BY LimitIs, LimitsAre DEF Limits
<1>3. ASSUME tick' = tick, NEW o \in Messages, HadItsTurn(o) => HadItsTurn(o)'
      PROVE  Limit(o) <= Limit(o)'
  BY <1>2, <1>3 DEF Limit
<1>4. CASE Skip \/ TransmitOk \/ TransmitFail
  <2>1. /\ UNCHANGED <<bench, car, encoded, tick>>
        /\ pc' = "loop" /\ i' = i + 1 /\ pc # "delay"
    BY <1>4 DEF Skip, TransmitOk, TransmitFail
  <2>2. \A p \in 1..NumMessages : Done(p) => Done(p)'
    BY <1>1, <2>1 DEF Done
  <2>3. \A o : HadItsTurn(o) => HadItsTurn(o)'
    BY <2>1, <2>2 DEF HadItsTurn, NumMessages
  <2>4. QED
    BY <1>3, <2>1, <2>3, InRangeKept
<1>5. CASE EncodeFirst
  <2>1. PICK m \in Messages :
          /\ m = bench.table[i] /\ \E d \in bench.draws : car' = Moved(car, m, d)
          /\ encoded' = Append(encoded, [message |-> i, values |-> Sent(car', m)])
    BY <1>1, <1>5 DEF EncodeFirst
  <2>2. PICK d \in Int : car' = Moved(car, m, d)
    <3>1. bench.draws \subseteq Int
      BY EcuAssumption DEF TypeOK
    <3>2. QED
      BY <2>1, <3>1
  <2>3. pc = "loop" /\ pc' = "encode" /\ i \in 1..NumMessages /\ UNCHANGED <<bench, tick, i>>
    BY <1>1, <1>5 DEF EncodeFirst
  <2>4. /\ Count' = Count + 1 /\ NumMessages' = NumMessages
        /\ \A e \in 1..Count : encoded'[e] = encoded[e]
        /\ encoded'[Count + 1].message = i /\ encoded'[Count + 1].values = Sent(car', m)
    BY <2>1, <2>3, ListGrows DEF Count, EncodedIsList, NumMessages
  <2>5. \A p \in 1..NumMessages : Done(p)' <=> Done(p) \/ p = i
    BY <1>1, <2>3 DEF Done
  <2>6. /\ \A o \in Messages : HadItsTurn(o) => HadItsTurn(o)'
        /\ HadItsTurn(m)' /\ ~HadItsTurn(m)
    <3>1. ~Done(i)
      BY <2>3 DEF Done
    <3>2. QED
      BY <1>1, <2>1, <2>3, <2>4, <2>5, <3>1 DEF HadItsTurn
  <2>7. PICK old, new : old = car /\ new = car'
    OBVIOUS
  <2>8. PICK turn \in Nat : /\ turn = MaxCounter + 281 * tick /\ turn >= MaxCounter
                            /\ turn + 281 \in Nat /\ turn <= turn + 281 /\ turn + 281 <= MaxInt
                            /\ turn + 281 >= MaxCounter
    BY <1>2
  <2>9. Limit(m) = turn /\ Limit(m)' = turn + 281
    BY <1>2, <2>3, <2>6, <2>8 DEF Limit
  <2>10. \A o \in Messages : CarKept(o, old[o], turn + 281) /\ CarKept(m, old[m], turn)
    <3>1. \A o \in Messages : Limit(o) <= turn + 281
      BY <1>2, <2>8
    <3>2. QED
      BY <1>2, <2>7, <2>8, <2>9, <3>1, KeptGrows DEF CarInRange, CarKept
  <2>11. IsTotal(TotalCurrent(old))
    BY <2>10, PdMessages, TotalIs
  <2>12. \A o \in WalkedBy(m) :
           /\ o = m /\ DOMAIN new[o] = 1..Len(Channels[o])
           /\ \A k \in 1..Len(Channels[o]) : Fresh(o, k, new[o][k], turn + 281)
    <3> SUFFICES ASSUME NEW o \in WalkedBy(m)
                 PROVE  /\ o = m /\ DOMAIN new[o] = 1..Len(Channels[o])
                        /\ \A k \in 1..Len(Channels[o]) : Fresh(o, k, new[o][k], turn + 281)
      OBVIOUS
    <3>1. o = m
      BY WalksItsOwn
    <3>2. new[m] = Fuelled(m, Walked(Channels[m], old[m], TotalCurrent(old), d))
      BY <2>2, <2>7, <3>1, MovedCar
    <3>3. QED
      BY <2>8, <2>10, <2>11, <3>1, <3>2, FuelledFresh
  <2>13. \A o \in Messages : o \notin WalkedBy(m) => new[o] = old[o]
    BY <2>2, <2>7, MovedCar
  <2>14. \A o \in Messages : CarKept(o, new[o], turn + 281)
    BY <2>10, <2>12, <2>13 DEF CarKept, Kept
  <2>15. ASSUME NEW o \in Messages PROVE CarKept(o, new[o], Limit(o)')
    <3>1. CASE o \in WalkedBy(m)
      BY <2>9, <2>12, <2>14, <3>1
    <3>2. CASE o \notin WalkedBy(m)
      <4>1. PICK limit, more : limit = Limit(o) /\ more = Limit(o)'
        OBVIOUS
      <4>2. limit \in Nat
        BY <1>2, <4>1
      <4>3. more \in Nat /\ limit <= more
        <5>1. Limits'
          BY LimitIs, PTL
        <5>2. QED
          BY <1>3, <2>3, <2>6, <4>1, <5>1 DEF Limits
      <4>4. CarKept(o, old[o], limit)
        BY <2>7, <4>1 DEF CarInRange
      <4>5. CarKept(o, old[o], more)
        BY <4>2, <4>3, <4>4, KeptGrows DEF CarKept
      <4>6. QED
        BY <2>13, <3>2, <4>1, <4>5
    <3>3. QED
      BY <3>1, <3>2
  <2>16. CarInRange'
    BY <2>3, <2>7, <2>15 DEF CarInRange
  <2>17. Sendable(m, Sent(new, m))
    BY <2>8, <2>12, <2>14, SentSendable
  <2>18. ASSUME NEW e \in 1..(Count + 1)
         PROVE  /\ encoded'[e].message \in 1..NumMessages
                /\ Sendable(bench.table[encoded'[e].message], encoded'[e].values)
    <3>1. CASE e \in 1..Count
      BY <2>4, <3>1 DEF EncodingsSendable
    <3>2. CASE e = Count + 1
      BY <2>1, <2>3, <2>4, <2>7, <2>17, <3>2
    <3>3. QED
      BY <1>1, <3>1, <3>2
  <2>19. EncodingsSendable'
    BY <2>3, <2>4, <2>18 DEF EncodingsSendable
  <2>20. QED
    BY <2>16, <2>19
<1>6. CASE EncodeRest \/ Transmit \/ UNCHANGED vars
  <2>1. UNCHANGED <<bench, car, encoded, tick, i>>
    BY <1>6 DEF EncodeRest, Transmit, vars, task
  <2>2. /\ pc' \in {"encode", "transmit"} <=> pc \in {"encode", "transmit"}
        /\ pc' = "delay" <=> pc = "delay"
    BY <1>6 DEF EncodeRest, Transmit, vars, task
  <2>3. \A o : HadItsTurn(o)' <=> HadItsTurn(o)
    BY <2>1, <2>2 DEF HadItsTurn, Done, NumMessages
  <2>4. pc' = "delay" => i' = NumMessages + 1
    BY <2>1, <2>2 DEF CarInRange
  <2>5. QED
    BY <1>3, <2>1, <2>3, <2>4, InRangeKept
<1>7. CASE EndRound
  <2>1. /\ UNCHANGED <<bench, car, encoded>> /\ i' = NumMessages + 1
        /\ pc' = "delay" /\ tick' = tick + 1
    BY <1>1, <1>7 DEF EndRound
  <2>2. \A o \in Messages : Limit(o) <= Limit(o)'
    BY <1>2, <2>1 DEF Limit, HadItsTurn
  <2>3. QED
    BY <2>1, <2>2, InRangeKept
<1>8. CASE NextRound
  <2>1. /\ UNCHANGED <<bench, car, encoded, tick>> /\ pc = "delay" /\ pc' = "loop"
    BY <1>8 DEF NextRound
  <2>2. \A o : ~HadItsTurn(o)
    BY <2>1 DEF HadItsTurn
  <2>3. QED
    BY <1>3, <2>1, <2>2, InRangeKept
<1>9. QED
  BY <1>4, <1>5, <1>6, <1>7, <1>8 DEF Next

\* Only values that the input service decodes are ever sent.
THEOREM SentInRange == Spec => [](CarInRange /\ EncodingsSendable)
BY InRangeInit, InRangeStep, TypeCorrect, PTL DEF Spec

\* The tables of the simulator and of the input service agree: a frame that goes out
\* whole is known, long enough, and decodes to the values that were sent.
THEOREM SignalsGetThrough == Spec => []SignalsDecode
<1>1. TypeOK /\ EncodingsSendable /\ NeverOlder => SignalsDecode
  <2> SUFFICES ASSUME TypeOK, EncodingsSendable, NeverOlder, wire # << >>
               PROVE  LET f == wire[Len(wire)]
                          e == encoded[f.first]
                          m == bench.table[e.message]
                      IN  f.first = f.rest =>
                            /\ Decodes(CanId[m], Payload(m, e.values))
                            /\ AllArrive(Puts[m], e.values, MessagesById[CanId[m]],
                                         Payload(m, e.values))
    BY DEF SignalsDecode
  <2>1. Len(wire) \in 1..Len(wire)
    BY EmptySeq, LenProperties DEF TypeOK
  <2>2. PICK f, e, m : /\ f = wire[Len(wire)] /\ e = encoded[f.first]
                       /\ m = bench.table[e.message]
    OBVIOUS
  <2>3. f.first \in 1..Count
    BY <2>1, <2>2 DEF NeverOlder
  <2>4. e.message \in 1..NumMessages /\ Sendable(m, e.values)
    BY <2>2, <2>3 DEF EncodingsSendable
  <2>5. m \in Messages
    BY <2>2, <2>4, PdInOrder
  <2>6. /\ Decodes(CanId[m], Payload(m, e.values))
        /\ AllArrive(Puts[m], e.values, MessagesById[CanId[m]], Payload(m, e.values))
    BY <2>4, <2>5, SentArrives
  <2>7. QED
    BY <2>2, <2>6
<1>2. QED
  BY <1>1, TypeCorrect, SentInRange, NothingOlderGoesOut, PTL
=============================================================================
