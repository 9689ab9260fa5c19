------------------------- MODULE ObuPipelineProofs -------------------------
(***************************************************************************)
(* Proofs about ObuPipeline, for every length of the queues, of the ring   *)
(* and of a batch, and any number of frames.                               *)
(***************************************************************************)
EXTENDS ObuPipeline, SequenceTheorems, TLAPS

-----------------------------------------------------------------------------
(* What the tasks do to a sequence: add at the end, take from the front,   *)
(* join.                                                                   *)

LEMMA ToSetOfEmpty == ToSet(<< >>) = {}
BY EmptySeq DEF ToSet

LEMMA ToSetOfOne == ASSUME NEW e PROVE ToSet(<<e>>) = {e}
BY DEF ToSet

LEMMA ToSetOfAppend ==
    ASSUME NEW S, NEW s \in Seq(S), NEW e \in S
    PROVE  ToSet(Append(s, e)) = ToSet(s) \cup {e}
<1>1. /\ Len(s) \in Nat /\ Len(Append(s, e)) = Len(s) + 1
      /\ \A i \in 1..Len(s) : Append(s, e)[i] = s[i]
      /\ Append(s, e)[Len(s) + 1] = e
      /\ DOMAIN s = 1..Len(s) /\ DOMAIN Append(s, e) = 1..(Len(s) + 1)
  BY AppendProperties, LenProperties
<1>2. QED
  BY <1>1 DEF ToSet

LEMMA ToSetOfTail ==
    ASSUME NEW S, NEW s \in Seq(S), s # << >>
    PROVE  /\ ToSet(Tail(s)) \subseteq ToSet(s) /\ Head(s) \in ToSet(s)
           /\ Head(s) \in S /\ Tail(s) \in Seq(S) /\ Len(Tail(s)) = Len(s) - 1
<1>1. /\ Len(s) \in Nat \ {0} /\ Len(Tail(s)) = Len(s) - 1
      /\ \A i \in 1..Len(Tail(s)) : Tail(s)[i] = s[i + 1]
      /\ DOMAIN s = 1..Len(s) /\ DOMAIN Tail(s) = 1..(Len(s) - 1)
      /\ Head(s) = s[1] /\ Head(s) \in S /\ Tail(s) \in Seq(S)
  BY HeadTailProperties, EmptySeq, LenProperties
<1>2. \A i \in 1..(Len(s) - 1) : i + 1 \in 1..Len(s)
  BY <1>1
<1>3. QED
  BY <1>1, <1>2 DEF ToSet

LEMMA ToSetOfConcat ==
    ASSUME NEW S, NEW s \in Seq(S), NEW t \in Seq(S)
    PROVE  ToSet(s \o t) \subseteq ToSet(s) \cup ToSet(t)
<1>1. /\ Len(s) \in Nat /\ Len(t) \in Nat /\ Len(s \o t) = Len(s) + Len(t)
      /\ \A i \in 1..(Len(s) + Len(t)) :
            (s \o t)[i] = IF i <= Len(s) THEN s[i] ELSE t[i - Len(s)]
      /\ DOMAIN s = 1..Len(s) /\ DOMAIN t = 1..Len(t)
      /\ DOMAIN (s \o t) = 1..(Len(s) + Len(t))
  BY ConcatProperties, LenProperties
<1> SUFFICES ASSUME NEW i \in 1..(Len(s) + Len(t))
             PROVE  (s \o t)[i] \in ToSet(s) \cup ToSet(t)
  BY <1>1 DEF ToSet
<1>2. CASE i <= Len(s)
  <2>1. i \in 1..Len(s) /\ (s \o t)[i] = s[i]
    BY <1>1, <1>2
  <2>2. QED
    BY <1>1, <2>1 DEF ToSet
<1>3. CASE i > Len(s)
  <2>1. i - Len(s) \in 1..Len(t) /\ (s \o t)[i] = t[i - Len(s)]
    BY <1>1, <1>3
  <2>2. QED
    BY <1>1, <2>1 DEF ToSet
<1>4. QED
  BY <1>1, <1>2, <1>3

-----------------------------------------------------------------------------
(* Type correctness.                                                       *)

LEMMA Sizes ==
    /\ SyncSize \in Nat \ {0} /\ PacketSize \in Nat \ {0} /\ RingSize \in Nat
    /\ RingSize >= SyncSize + PacketSize
BY ObuAssumption

LEMMA TypeInit == Init => TypeOK
<1> SUFFICES ASSUME Init PROVE TypeOK
  OBVIOUS
<1>1. \A S : << >> \in Seq(S) /\ Len(<< >>) = 0
  BY EmptySeq
<1>2. QED
  BY <1>1, ObuAssumption DEF Init, TypeOK

\* The packet can_rx_task builds, and what its two offers leave.
NewPacket == [seq |-> s_sequence, frame |-> Head(canQueue)]

LEMMA OfferTypes ==
    ASSUME TypeOK, canQueue # << >>, OfferToBoth(NewPacket)
    PROVE  /\ NewPacket \in Packet
           /\ xbeeQueue' \in Seq(Packet) /\ Len(xbeeQueue') <= XbeeQueueLen
           /\ queue' \in Seq(Packet) /\ Len(queue') <= QueueLen
<1>1. NewPacket \in Packet
  BY ToSetOfTail DEF TypeOK, NewPacket, Packet
<1> DEFINE new == NewPacket
<1> HIDE DEF new
<1>2. xbeeQueue' = EnqueueXbee(xbeeQueue, new) /\ queue' = Nats!Enqueue(queue, new)
  BY DEF OfferToBoth, new
<1>3. new \in Packet
  BY <1>1 DEF new
<1>4. xbeeQueue' \in Seq(Packet) /\ Len(xbeeQueue') <= XbeeQueueLen
  <2>1. xbeeQueue \in Seq(Packet) /\ Len(xbeeQueue) <= XbeeQueueLen /\ XbeeQueueLen \in Nat
    BY ObuAssumption DEF TypeOK
  <2>2. /\ Append(xbeeQueue, new) \in Seq(Packet)
        /\ Len(Append(xbeeQueue, new)) = Len(xbeeQueue) + 1 /\ Len(xbeeQueue) \in Nat
    BY <1>3, <2>1, AppendProperties, LenProperties
  <2>3. QED
    BY <1>2, <2>1, <2>2 DEF EnqueueXbee
<1>5. queue' \in Seq(Packet) /\ Len(queue') <= QueueLen
  <2>1. queue \in Seq(Packet) /\ Len(queue) <= QueueLen /\ QueueLen \in Nat
    BY ObuAssumption DEF TypeOK
  <2>2. /\ Append(queue, new) \in Seq(Packet)
        /\ Len(Append(queue, new)) = Len(queue) + 1 /\ Len(queue) \in Nat
    BY <1>3, <2>1, AppendProperties, LenProperties
  <2>3. QED
    BY <1>2, <2>1, <2>2 DEF Nats!Enqueue
<1>6. QED
  BY <1>1, <1>4, <1>5

LEMMA TypeStep == TypeOK /\ [Next]_vars => TypeOK'
<1> SUFFICES ASSUME TypeOK, [Next]_vars PROVE TypeOK'
  OBVIOUS
<1>0. \A S : << >> \in Seq(S) /\ Len(<< >>) = 0
  BY EmptySeq
<1>1. CASE OnCanRxDone
  <2>1. canQueue' \in Seq(Nat) /\ Len(canQueue') <= CanQueueLen
    <3>1. captured' \in Nat /\ canQueue \in Seq(Nat) /\ CanQueueLen \in Nat
      BY <1>1, ObuAssumption DEF OnCanRxDone, TypeOK
    <3>2. /\ Append(canQueue, captured') \in Seq(Nat)
          /\ Len(Append(canQueue, captured')) = Len(canQueue) + 1 /\ Len(canQueue) \in Nat
      BY <3>1, AppendProperties, LenProperties
    <3>3. QED
      BY <1>1, <3>1, <3>2 DEF OnCanRxDone, TypeOK
  <2>2. QED
    BY <1>1, <2>1 DEF OnCanRxDone, TypeOK, xbeeVars, natsVars
<1>2. CASE CanRx
  <2>1. canQueue # << >> /\ OfferToBoth(NewPacket) /\ s_sequence' \in Nat
    <3>1. canQueue # << >> /\ OfferToBoth(NewPacket) /\ s_sequence' = s_sequence + 1
      BY <1>2 DEF CanRx, NewPacket
    <3>2. s_sequence \in Nat
      BY DEF TypeOK
    <3>3. QED
      BY <3>1, <3>2
  <2>2. canQueue' \in Seq(Nat) /\ Len(canQueue') <= CanQueueLen
    <3>1. /\ canQueue \in Seq(Nat) /\ canQueue # << >> /\ canQueue' = Tail(canQueue)
          /\ Len(canQueue) <= CanQueueLen /\ CanQueueLen \in Nat
      BY <1>2, ObuAssumption DEF CanRx, TypeOK
    <3>2. /\ Tail(canQueue) \in Seq(Nat) /\ Len(Tail(canQueue)) = Len(canQueue) - 1
          /\ Len(canQueue) \in Nat
      BY <3>1, HeadTailProperties, LenProperties
    <3>3. QED
      BY <3>1, <3>2
  <2>3. /\ xbeeQueue' \in Seq(Packet) /\ Len(xbeeQueue') <= XbeeQueueLen
        /\ queue' \in Seq(Packet) /\ Len(queue') <= QueueLen
    BY <2>1, OfferTypes
  <2>4. QED
    BY <1>2, <2>1, <2>2, <2>3 DEF CanRx, TypeOK
<1>3. CASE XbeeTake
  <2>1. /\ Tail(xbeeQueue) \in Seq(Packet) /\ Len(Tail(xbeeQueue)) <= XbeeQueueLen
        /\ Head(xbeeQueue) \in Packet
    <3>1. /\ xbeeQueue \in Seq(Packet) /\ xbeeQueue # << >>
          /\ Len(xbeeQueue) <= XbeeQueueLen /\ XbeeQueueLen \in Nat
      BY <1>3, ObuAssumption DEF XbeeTake, TypeOK
    <3>2. /\ Tail(xbeeQueue) \in Seq(Packet) /\ Head(xbeeQueue) \in Packet
          /\ Len(Tail(xbeeQueue)) = Len(xbeeQueue) - 1 /\ Len(xbeeQueue) \in Nat
      BY <3>1, HeadTailProperties, LenProperties
    <3>3. QED
      BY <3>1, <3>2
  <2>2. <<Head(xbeeQueue)>> \in Seq(Packet) /\ Len(<<Head(xbeeQueue)>>) <= 1
    BY <2>1
  <2>3. QED
    BY <1>3, <2>1, <2>2 DEF XbeeTake, TypeOK, canVars, natsVars
<1>4. CASE WriteSync
  <2>1. ring' \in 0..RingSize /\ xpc' \in {"wait", "sync", "packet"}
    BY <1>4, Sizes DEF WriteSync, Free, TypeOK
  <2>2. QED
    BY <1>4, <2>1 DEF WriteSync, TypeOK, canVars, natsVars
<1>5. CASE WritePacket
  <2>1. xbeeSent' \in Seq(Packet)
    BY <1>5, ConcatProperties DEF WritePacket, TypeOK
  <2>2. ring' \in 0..RingSize
    BY <1>5, Sizes DEF WritePacket, Free, TypeOK
  <2>3. QED
    BY <1>0, <1>5, <2>1, <2>2 DEF WritePacket, TypeOK, canVars, natsVars
<1>6. CASE UartDrain
  BY <1>6, ObuAssumption DEF UartDrain, TypeOK, canVars, natsVars
<1>7. CASE NatsStep
  <2>1. CASE Nats!LinkChange
    BY <1>7, <2>1 DEF NatsStep, Nats!LinkChange, TypeOK, xbeeVars
  <2>2. CASE Nats!Receive
    <3>1. /\ Tail(queue) \in Seq(Packet) /\ Len(Tail(queue)) <= QueueLen
          /\ Head(queue) \in Packet
      <4>1. queue # << >> /\ queue \in Seq(Packet) /\ Len(queue) <= QueueLen
        BY <2>2 DEF Nats!Receive, TypeOK
      <4>2. QueueLen \in Nat
        BY ObuAssumption
      <4>3. QED
        BY <4>1, <4>2, ToSetOfTail, LenProperties
    <3>2. batch' \in Seq(Packet)
      BY <2>2, <3>1, AppendProperties DEF Nats!Receive, TypeOK
    <3>3. QED
      BY <1>7, <2>2, <3>1, <3>2 DEF NatsStep, Nats!Receive, Nats!link, TypeOK, xbeeVars
  <2>3. CASE Nats!PublishOk
    <3>1. published' \in Seq(Packet)
      BY <2>3, ConcatProperties DEF Nats!PublishOk, TypeOK
    <3>2. QED
      BY <1>0, <1>7, <2>3, <3>1 DEF NatsStep, Nats!PublishOk, Nats!link, TypeOK, xbeeVars
  <2>4. CASE Nats!LinkDown \/ Nats!PublishFail
    BY <1>0, <1>7, <2>4
       DEF NatsStep, Nats!LinkDown, Nats!PublishFail, TypeOK, xbeeVars
  <2>5. CASE \/ Nats!LinkSeenUp \/ Nats!ConnectOk \/ Nats!ConnectFail
             \/ Nats!ReceiveTimeout \/ Nats!ProcessOk \/ Nats!ProcessFail
    BY <1>7, <2>5
       DEF NatsStep, Nats!LinkSeenUp, Nats!ConnectOk, Nats!ConnectFail, Nats!link,
           Nats!ReceiveTimeout, Nats!ProcessOk, Nats!ProcessFail, TypeOK, xbeeVars
  <2>6. QED
    BY <1>7, <2>1, <2>2, <2>3, <2>4, <2>5 DEF NatsStep, Nats!NatsTask
<1>8. CASE UNCHANGED vars
  BY <1>8 DEF vars, TypeOK, canVars, xbeeVars, natsVars
<1>9. QED
  BY <1>1, <1>2, <1>3, <1>4, <1>5, <1>6, <1>7, <1>8 DEF Next, XbeeTask

\* The tasks of the OBU keep their types, and every queue and the UART ring their
\* length.
THEOREM TypeCorrect == Spec => []TypeOK
BY TypeInit, TypeStep, PTL DEF Spec

-----------------------------------------------------------------------------
(* The UART ring.                                                          *)

\* xbee_tx_task checks once for both of its writes: only the UART itself changes
\* the ring in between, and it makes room.
THEOREM UartNeverSpins == Spec => []UartHasRoom
<1>1. Init => UartHasRoom
  BY DEF Init, UartHasRoom
<1>2. TypeOK /\ UartHasRoom /\ [Next]_vars => UartHasRoom'
  <2> SUFFICES ASSUME TypeOK, UartHasRoom, [Next]_vars PROVE UartHasRoom'
    OBVIOUS
  <2> USE Sizes DEF UartHasRoom, Free, FrameSize
  <2>1. CASE OnCanRxDone \/ CanRx
    BY <2>1 DEF OnCanRxDone, CanRx, xbeeVars
  <2>2. CASE XbeeTake
    BY <2>2 DEF XbeeTake, TypeOK
  <2>3. CASE WriteSync
    BY <2>3 DEF WriteSync, TypeOK
  <2>4. CASE WritePacket
    BY <2>4 DEF WritePacket
  <2>5. CASE UartDrain
    BY <2>5 DEF UartDrain, TypeOK
  <2>6. CASE NatsStep
    BY <2>6 DEF NatsStep, xbeeVars
  <2>7. CASE UNCHANGED vars
    BY <2>7 DEF vars, xbeeVars
  <2>8. QED
    BY <2>1, <2>2, <2>3, <2>4, <2>5, <2>6, <2>7 DEF Next, XbeeTask
<1>3. QED
  BY <1>1, <1>2, TypeCorrect, PTL DEF Spec

-----------------------------------------------------------------------------
(* The numbering.                                                          *)

Known == XbeePackets \cup NatsPackets

\* What OneSequenceOneFrame needs to be inductive: the packets that exist have
\* smaller numbers and frames than those to come, and the frames to come are in
\* their order.
Numbering ==
    /\ OneSequenceOneFrame
    /\ \A p \in Known : p \in Packet /\ p.seq < s_sequence /\ p.frame <= captured
    /\ \A p \in Known : \A i \in 1..Len(canQueue) : p.frame < canQueue[i]
    /\ \A i \in 1..Len(canQueue) : canQueue[i] <= captured
    /\ \A i, j \in 1..Len(canQueue) : i < j => canQueue[i] < canQueue[j]

LEMMA NumberingInit == Init => Numbering
<1> SUFFICES ASSUME Init PROVE Numbering
  OBVIOUS
<1>1. Len(canQueue) = 0
  BY EmptySeq DEF Init
<1>2. Known = {}
  BY ToSetOfEmpty DEF Init, Known, XbeePackets, NatsPackets
<1>3. QED
  BY <1>1, <1>2 DEF Numbering, OneSequenceOneFrame, Known

\* The steps of the output tasks make no packet.
LEMMA NumberingKept ==
    ASSUME Numbering, Known' \subseteq Known,
           UNCHANGED <<captured, s_sequence, canQueue>>
    PROVE  Numbering'
<1>1. OneSequenceOneFrame'
  BY DEF Numbering, OneSequenceOneFrame, Known
<1>2. QED
  BY <1>1 DEF Numbering

LEMMA NumberingStep == TypeOK /\ Numbering /\ [Next]_vars => Numbering'
<1> SUFFICES ASSUME TypeOK, Numbering, [Next]_vars PROVE Numbering'
  OBVIOUS
<1>1. CASE OnCanRxDone
  <2>1. Known' = Known /\ captured' = captured + 1 /\ s_sequence' = s_sequence
    BY <1>1 DEF OnCanRxDone, Known, XbeePackets, NatsPackets, xbeeVars, natsVars
  <2>2. OneSequenceOneFrame'
    BY <2>1 DEF Numbering, OneSequenceOneFrame, Known
  <2>3. \A p \in Known : p.frame \in Nat
    BY DEF Numbering, Packet
  <2>4. captured \in Nat /\ Len(canQueue) \in Nat /\ \A i \in 1..Len(canQueue) : canQueue[i] \in Nat
    BY ElementOfSeq, LenProperties DEF TypeOK
  <2>5. CASE canQueue' = canQueue
    BY <2>1, <2>2, <2>3, <2>4, <2>5 DEF Numbering
  <2>6. CASE canQueue' = Append(canQueue, captured + 1)
    <3>1. /\ Len(canQueue') = Len(canQueue) + 1
          /\ \A i \in 1..Len(canQueue) : canQueue'[i] = canQueue[i]
          /\ canQueue'[Len(canQueue) + 1] = captured + 1
      BY <2>4, <2>6, AppendProperties DEF TypeOK
    <3>2. \A i \in 1..Len(canQueue') : i \in 1..Len(canQueue) \/ i = Len(canQueue) + 1
      BY <2>4, <3>1
    <3>3. \A i \in 1..Len(canQueue) : canQueue[i] <= captured
      BY DEF Numbering
    <3>4. \A p \in Known' : p \in Packet /\ p.seq < s_sequence' /\ p.frame <= captured'
      BY <2>1, <2>3, <2>4 DEF Numbering
    <3>5. ASSUME NEW p \in Known', NEW i \in 1..Len(canQueue')
          PROVE  p.frame < canQueue'[i]
      <4>1. p \in Known /\ p.frame <= captured /\ p.frame \in Nat
        BY <2>1, <2>3 DEF Numbering
      <4>2. CASE i \in 1..Len(canQueue)
        BY <3>1, <4>1, <4>2 DEF Numbering
      <4>3. CASE i = Len(canQueue) + 1
        BY <2>4, <3>1, <4>1, <4>3
      <4>4. QED
        BY <3>2, <4>2, <4>3
    <3>6. \A i \in 1..Len(canQueue') : canQueue'[i] <= captured'
      BY <2>1, <2>4, <3>1, <3>2, <3>3
    <3>7. ASSUME NEW i \in 1..Len(canQueue'), NEW j \in 1..Len(canQueue'), i < j
          PROVE  canQueue'[i] < canQueue'[j]
      <4>1. i \in 1..Len(canQueue)
        BY <2>4, <3>1, <3>7
      <4>2. CASE j \in 1..Len(canQueue)
        BY <3>1, <3>7, <4>1, <4>2 DEF Numbering
      <4>3. CASE j = Len(canQueue) + 1
        BY <2>4, <3>1, <3>3, <4>1, <4>3
      <4>4. QED
        BY <3>2, <4>2, <4>3
    <3>8. QED
      BY <2>2, <3>4, <3>5, <3>6, <3>7 DEF Numbering
  <2>7. QED
    BY <1>1, <2>5, <2>6 DEF OnCanRxDone
<1>2. CASE CanRx
  <2> DEFINE new == NewPacket
  <2>1. canQueue # << >> /\ OfferToBoth(new) /\ canQueue' = Tail(canQueue)
    BY <1>2 DEF CanRx, NewPacket
  <2>2. s_sequence' = s_sequence + 1 /\ captured' = captured
    BY <1>2 DEF CanRx
  <2>3. /\ Len(canQueue) \in Nat \ {0} /\ Len(canQueue') = Len(canQueue) - 1
        /\ \A i \in 1..Len(canQueue') : canQueue'[i] = canQueue[i + 1]
        /\ \A i \in 1..Len(canQueue') : i + 1 \in 1..Len(canQueue)
        /\ 1 \in 1..Len(canQueue) /\ Head(canQueue) = canQueue[1]
        /\ \A i \in 1..Len(canQueue) : canQueue[i] \in Nat
    <3>1. canQueue \in Seq(Nat) /\ canQueue # << >> /\ canQueue' = Tail(canQueue)
      BY <2>1 DEF TypeOK
    <3>2. Len(canQueue) \in Nat \ {0}
      BY <3>1, EmptySeq, LenProperties
    <3>3. /\ Len(canQueue') = Len(canQueue) - 1
          /\ \A i \in 1..Len(canQueue') : canQueue'[i] = canQueue[i + 1]
          /\ Head(canQueue) = canQueue[1]
      BY <3>1, <3>2, HeadTailProperties
    <3>4. \A i \in 1..Len(canQueue) : canQueue[i] \in Nat
      BY <3>1, ElementOfSeq
    <3>5. QED
      BY <3>2, <3>3, <3>4
  <2>4. new \in Packet /\ new.seq = s_sequence /\ new.frame = canQueue[1]
    BY <2>1, <2>3, OfferTypes DEF NewPacket
  <2> HIDE DEF new
  <2>5. Known' \subseteq Known \cup {new}
    <3>1. ToSet(xbeeQueue') \subseteq ToSet(xbeeQueue) \cup {new}
      BY <2>1, <2>4, ToSetOfAppend DEF OfferToBoth, EnqueueXbee, TypeOK
    <3>2. ToSet(queue') \subseteq ToSet(queue) \cup {new}
      BY <2>1, <2>4, ToSetOfAppend DEF OfferToBoth, Nats!Enqueue, TypeOK
    <3>3. UNCHANGED <<xpkt, xbeeSent, batch, published>>
      BY <1>2 DEF CanRx
    <3>4. QED
      BY <3>1, <3>2, <3>3 DEF Known, XbeePackets, NatsPackets
  <2>6. /\ s_sequence \in Nat /\ captured \in Nat
        /\ \A p \in Known : p.seq \in Nat /\ p.frame \in Nat
    BY DEF TypeOK, Numbering, Packet
  <2>7. \A p \in Known : p.seq < new.seq /\ p.frame < new.frame
    BY <2>3, <2>4 DEF Numbering
  <2>8. OneSequenceOneFrame'
    <3> SUFFICES ASSUME NEW p \in Known \cup {new}, NEW q \in Known \cup {new}
                 PROVE  /\ p.seq = q.seq <=> p.frame = q.frame
                        /\ p.seq < q.seq <=> p.frame < q.frame
      BY <2>5 DEF OneSequenceOneFrame, Known
    <3>1. CASE p \in Known /\ q \in Known
      BY <3>1 DEF Numbering, OneSequenceOneFrame, Known
    <3>2. CASE p = new /\ q \in Known
      BY <2>3, <2>4, <2>6, <2>7, <3>2
    <3>3. CASE p \in Known /\ q = new
      BY <2>3, <2>4, <2>6, <2>7, <3>3
    <3>4. CASE p = new /\ q = new
      BY <2>3, <2>4, <2>6, <3>4
    <3>5. QED
      BY <3>1, <3>2, <3>3, <3>4
  <2>9. \A p \in Known' : p \in Packet /\ p.seq < s_sequence' /\ p.frame <= captured'
    BY <2>2, <2>3, <2>4, <2>5, <2>6 DEF Numbering
  <2>10. \A p \in Known' : \A i \in 1..Len(canQueue') : p.frame < canQueue'[i]
    <3> SUFFICES ASSUME NEW p \in Known \cup {new}, NEW i \in 1..Len(canQueue')
                 PROVE  p.frame < canQueue'[i]
      BY <2>5
    <3>1. canQueue'[i] = canQueue[i + 1] /\ i + 1 \in 1..Len(canQueue) /\ 1 < i + 1
      BY <2>3
    <3>2. CASE p \in Known
      BY <3>1, <3>2 DEF Numbering
    <3>3. CASE p = new
      BY <2>3, <2>4, <3>1, <3>3 DEF Numbering
    <3>4. QED
      BY <3>2, <3>3
  <2>11. \A i \in 1..Len(canQueue') : canQueue'[i] <= captured'
    BY <2>2, <2>3 DEF Numbering
  <2>12. \A i, j \in 1..Len(canQueue') : i < j => canQueue'[i] < canQueue'[j]
    <3> SUFFICES ASSUME NEW i \in 1..Len(canQueue'), NEW j \in 1..Len(canQueue'), i < j
                 PROVE  canQueue'[i] < canQueue'[j]
      OBVIOUS
    <3>1. canQueue'[i] = canQueue[i + 1] /\ canQueue'[j] = canQueue[j + 1]
      BY <2>3
    <3>2. i + 1 \in 1..Len(canQueue) /\ j + 1 \in 1..Len(canQueue) /\ i + 1 < j + 1
      BY <2>3
    <3>3. canQueue[i + 1] < canQueue[j + 1]
      BY <3>2 DEF Numbering
    <3>4. QED
      BY <3>1, <3>3
  <2>13. QED
    BY <2>8, <2>9, <2>10, <2>11, <2>12 DEF Numbering
<1>3. CASE XbeeTake
  <2>1. /\ ToSet(Tail(xbeeQueue)) \subseteq ToSet(xbeeQueue)
        /\ Head(xbeeQueue) \in ToSet(xbeeQueue)
    BY <1>3, ToSetOfTail DEF XbeeTake, TypeOK
  <2>2. ToSet(xpkt') \subseteq ToSet(xpkt) \cup ToSet(xbeeQueue)
    BY <1>3, <2>1, ToSetOfOne DEF XbeeTake
  <2>3. Known' \subseteq Known
    BY <1>3, <2>1, <2>2 DEF XbeeTake, Known, XbeePackets, NatsPackets, natsVars
  <2>4. QED
    BY <1>3, <2>3, NumberingKept DEF XbeeTake, canVars
<1>4. CASE WriteSync \/ UartDrain
  <2>1. Known' = Known
    BY <1>4 DEF WriteSync, UartDrain, Known, XbeePackets, NatsPackets, natsVars
  <2>2. QED
    BY <1>4, <2>1, NumberingKept DEF WriteSync, UartDrain, canVars
<1>5. CASE WritePacket
  <2>1. ToSet(xbeeSent') \subseteq ToSet(xbeeSent) \cup ToSet(xpkt) /\ ToSet(xpkt') = {}
    BY <1>5, ToSetOfConcat, ToSetOfEmpty DEF WritePacket, TypeOK
  <2>2. Known' \subseteq Known
    BY <1>5, <2>1 DEF WritePacket, Known, XbeePackets, NatsPackets, natsVars
  <2>3. QED
    BY <1>5, <2>2, NumberingKept DEF WritePacket, canVars
<1>6. CASE NatsStep
  <2>1. ToSet(published') \cup ToSet(batch') \cup ToSet(queue') \subseteq NatsPackets
    <3> USE DEF NatsPackets
    <3>1. CASE Nats!Receive
      <4>1. /\ ToSet(Tail(queue)) \subseteq ToSet(queue) /\ Head(queue) \in ToSet(queue)
            /\ Head(queue) \in Packet
        BY <3>1, ToSetOfTail DEF Nats!Receive, TypeOK
      <4>2. ToSet(batch') = ToSet(batch) \cup {Head(queue)}
        BY <3>1, <4>1, ToSetOfAppend DEF Nats!Receive, TypeOK
      <4>3. QED
        BY <3>1, <4>1, <4>2 DEF Nats!Receive
    <3>2. CASE Nats!PublishOk
      <4>1. ToSet(published') \subseteq ToSet(published) \cup ToSet(batch)
        BY <3>2, ToSetOfConcat DEF Nats!PublishOk, TypeOK
      <4>2. QED
        BY <3>2, <4>1, ToSetOfEmpty DEF Nats!PublishOk
    <3>3. CASE Nats!LinkDown \/ Nats!PublishFail
      BY <3>3, ToSetOfEmpty DEF Nats!LinkDown, Nats!PublishFail
    <3>4. CASE \/ Nats!LinkChange \/ Nats!LinkSeenUp \/ Nats!ConnectOk \/ Nats!ConnectFail
               \/ Nats!ReceiveTimeout \/ Nats!ProcessOk \/ Nats!ProcessFail
      BY <3>4
         DEF Nats!LinkChange, Nats!LinkSeenUp, Nats!ConnectOk, Nats!ConnectFail,
             Nats!ReceiveTimeout, Nats!ProcessOk, Nats!ProcessFail
    <3>5. QED
      BY <1>6, <3>1, <3>2, <3>3, <3>4 DEF NatsStep, Nats!NatsTask
  <2>2. Known' \subseteq Known
    BY <1>6, <2>1 DEF NatsStep, Known, XbeePackets, NatsPackets, xbeeVars
  <2>3. s_sequence' = s_sequence
    BY <1>6
       DEF NatsStep, Nats!LinkChange, Nats!NatsTask, Nats!LinkDown, Nats!LinkSeenUp,
           Nats!ConnectOk, Nats!ConnectFail, Nats!Receive, Nats!ReceiveTimeout,
           Nats!PublishOk, Nats!PublishFail, Nats!ProcessOk, Nats!ProcessFail
  <2>4. QED
    BY <1>6, <2>2, <2>3, NumberingKept DEF NatsStep
<1>7. CASE UNCHANGED vars
  <2>1. Known' = Known
    BY <1>7 DEF vars, xbeeVars, natsVars, Known, XbeePackets, NatsPackets
  <2>2. QED
    BY <1>7, <2>1, NumberingKept DEF vars, canVars
<1>8. QED
  BY <1>1, <1>2, <1>3, <1>4, <1>5, <1>6, <1>7 DEF Next, XbeeTask

\* One sequence number is one captured frame on both paths, whatever each of them
\* drops, and the numbers follow the bus.
THEOREM OneNumberOneFrame == Spec => []OneSequenceOneFrame
<1>1. Numbering => OneSequenceOneFrame
  BY DEF Numbering
<1>2. QED
  BY <1>1, NumberingInit, NumberingStep, TypeCorrect, PTL DEF Spec

-----------------------------------------------------------------------------
(* The refinements.  Ordinals maps what is done to packets to what is done *)
(* to their ordinals.                                                      *)

LEMMA OrdinalsOf ==
    ASSUME NEW s \in Seq(Packet)
    PROVE  /\ Ordinals(s) \in Seq(Nat) /\ Len(Ordinals(s)) = Len(s)
           /\ \A i \in 1..Len(s) : Ordinals(s)[i] = s[i].seq + 1
<1>1. Len(s) \in Nat /\ \A i \in 1..Len(s) : s[i] \in Packet
  BY ElementOfSeq, LenProperties
<1>2. \A i \in 1..Len(s) : s[i].seq + 1 \in Nat
  BY <1>1 DEF Packet
<1>3. QED
  BY <1>1, <1>2 DEF Ordinals

LEMMA OrdinalsOfEmpty ==
    /\ Ordinals(<< >>) = << >>
    /\ \A s \in Seq(Packet) : Ordinals(s) = << >> <=> s = << >>
<1>1. \A s \in Seq(Packet) : Len(s) = 0 <=> s = << >>
  BY EmptySeq
<1>2. \A s \in Seq(Nat) : Len(s) = 0 <=> s = << >>
  BY EmptySeq
<1>3. << >> \in Seq(Packet)
  BY EmptySeq
<1>4. \A s \in Seq(Packet) : Ordinals(s) = << >> <=> s = << >>
  BY <1>1, <1>2, OrdinalsOf
<1>5. QED
  BY <1>3, <1>4

LEMMA OrdinalsOfAppend ==
    ASSUME NEW s \in Seq(Packet), NEW e \in Packet
    PROVE  Ordinals(Append(s, e)) = Append(Ordinals(s), e.seq + 1)
<1> DEFINE t == Append(s, e)
           o == Ordinals(s)
           n == e.seq + 1
           l == Ordinals(t)
           r == Append(o, n)
<1>1. /\ Len(s) \in Nat /\ t \in Seq(Packet) /\ Len(t) = Len(s) + 1
      /\ \A i \in 1..Len(s) : t[i] = s[i]
      /\ t[Len(s) + 1] = e
  BY AppendProperties, LenProperties
<1>2. n \in Nat /\ o \in Seq(Nat) /\ Len(o) = Len(s) /\ \A i \in 1..Len(s) : o[i] = s[i].seq + 1
  BY OrdinalsOf DEF Packet
<1> HIDE DEF t, o, n
<1>3. l \in Seq(Nat) /\ Len(l) = Len(s) + 1 /\ \A i \in 1..(Len(s) + 1) : l[i] = t[i].seq + 1
  BY <1>1, OrdinalsOf
<1>4. /\ r \in Seq(Nat) /\ Len(r) = Len(s) + 1
      /\ \A i \in 1..Len(s) : r[i] = o[i]
      /\ r[Len(s) + 1] = n
  BY <1>2, AppendProperties
<1> HIDE DEF l, r
<1>5. n = t[Len(s) + 1].seq + 1
  BY <1>1 DEF n
<1>6. ASSUME NEW i \in 1..(Len(s) + 1) PROVE l[i] = r[i]
  <2>1. CASE i \in 1..Len(s)
    <3>1. l[i] = s[i].seq + 1
      BY <1>1, <1>3, <2>1
    <3>2. r[i] = s[i].seq + 1
      BY <1>2, <1>4, <2>1
    <3>3. QED
      BY <3>1, <3>2
  <2>2. CASE i = Len(s) + 1
    BY <1>3, <1>4, <1>5, <2>2
  <2>3. QED
    BY <1>1, <2>1, <2>2
<1>7. l = r
  BY <1>3, <1>4, <1>6, SeqEqual
<1>8. QED
  BY <1>7 DEF l, r, t, o, n

LEMMA OrdinalsOfTail ==
    ASSUME NEW s \in Seq(Packet), s # << >>
    PROVE  /\ Ordinals(Tail(s)) = Tail(Ordinals(s))
           /\ Head(Ordinals(s)) = Head(s).seq + 1
<1> DEFINE t == Tail(s)
           o == Ordinals(s)
           l == Ordinals(t)
           r == Tail(o)
<1>1. /\ Len(s) \in Nat \ {0} /\ t \in Seq(Packet) /\ Len(t) = Len(s) - 1
      /\ \A i \in 1..Len(t) : t[i] = s[i + 1]
      /\ Head(s) = s[1]
  BY HeadTailProperties, EmptySeq, LenProperties
<1>2. /\ o \in Seq(Nat) /\ Len(o) = Len(s) /\ o # << >>
      /\ \A i \in 1..Len(s) : o[i] = s[i].seq + 1
  BY OrdinalsOf, OrdinalsOfEmpty
<1> HIDE DEF t, o
<1>3. l \in Seq(Nat) /\ Len(l) = Len(t) /\ \A i \in 1..Len(t) : l[i] = t[i].seq + 1
  BY <1>1, OrdinalsOf
<1>4. /\ r \in Seq(Nat) /\ Len(r) = Len(o) - 1 /\ \A i \in 1..Len(r) : r[i] = o[i + 1]
      /\ Head(o) = o[1]
  BY <1>2, HeadTailProperties
<1> HIDE DEF l, r
<1>5. \A i \in 1..Len(t) : i + 1 \in 1..Len(s)
  BY <1>1
<1>6. Len(l) = Len(r) /\ \A i \in 1..Len(l) : l[i] = r[i]
  <2>1. Len(l) = Len(t) /\ Len(r) = Len(t)
    BY <1>1, <1>2, <1>3, <1>4
  <2>2. ASSUME NEW i \in 1..Len(t) PROVE l[i] = r[i]
    <3>1. l[i] = s[i + 1].seq + 1
      BY <1>1, <1>3
    <3>2. r[i] = o[i + 1]
      BY <1>4, <2>1
    <3>3. QED
      BY <1>2, <1>5, <3>1, <3>2
  <2>3. QED
    BY <2>1, <2>2
<1>7. l = r
  BY <1>3, <1>4, <1>6, SeqEqual
<1>8. Head(o) = Head(s).seq + 1
  BY <1>1, <1>2, <1>4
<1>9. QED
  BY <1>7, <1>8 DEF l, r, t, o

LEMMA OrdinalsOfConcat ==
    ASSUME NEW s \in Seq(Packet), NEW t \in Seq(Packet)
    PROVE  Ordinals(s \o t) = Ordinals(s) \o Ordinals(t)
<1> DEFINE u == s \o t
           o == Ordinals(s)
           p == Ordinals(t)
           l == Ordinals(u)
           r == o \o p
<1>1. /\ Len(s) \in Nat /\ Len(t) \in Nat
      /\ u \in Seq(Packet) /\ Len(u) = Len(s) + Len(t)
      /\ \A i \in 1..(Len(s) + Len(t)) : u[i] = IF i <= Len(s) THEN s[i] ELSE t[i - Len(s)]
  BY ConcatProperties, LenProperties
<1>2. o \in Seq(Nat) /\ Len(o) = Len(s) /\ \A i \in 1..Len(s) : o[i] = s[i].seq + 1
  BY OrdinalsOf
<1>3. p \in Seq(Nat) /\ Len(p) = Len(t) /\ \A i \in 1..Len(t) : p[i] = t[i].seq + 1
  BY OrdinalsOf
<1> HIDE DEF u, o, p
<1>4. l \in Seq(Nat) /\ Len(l) = Len(u) /\ \A i \in 1..Len(u) : l[i] = u[i].seq + 1
  BY <1>1, OrdinalsOf
<1>5. /\ r \in Seq(Nat) /\ Len(r) = Len(s) + Len(t)
      /\ \A i \in 1..(Len(s) + Len(t)) : r[i] = IF i <= Len(s) THEN o[i] ELSE p[i - Len(s)]
  BY <1>2, <1>3, ConcatProperties
<1> HIDE DEF l, r
<1>6. ASSUME NEW i \in 1..(Len(s) + Len(t)) PROVE l[i] = r[i]
  <2>1. CASE i <= Len(s)
    <3>1. i \in 1..Len(s)
      BY <1>1, <2>1
    <3>2. QED
      BY <1>1, <1>2, <1>4, <1>5, <2>1, <3>1
  <2>2. CASE i > Len(s)
    <3>1. i - Len(s) \in 1..Len(t) /\ ~(i <= Len(s))
      BY <1>1, <2>2
    <3>2. u[i] = t[i - Len(s)] /\ r[i] = p[i - Len(s)]
      BY <1>1, <1>5, <3>1
    <3>3. QED
      BY <1>1, <1>3, <1>4, <3>1, <3>2
  <2>3. QED
    BY <1>1, <2>1, <2>2
<1>7. l = r
  BY <1>1, <1>4, <1>5, <1>6, SeqEqual
<1>8. QED
  BY <1>7 DEF l, r, u, o, p

\* The frames that are numbered are among those captured.
Backlog == s_sequence + Len(canQueue) <= captured /\ captured <= MaxFrames

LEMMA BacklogStep == TypeOK /\ Backlog /\ [Next]_vars => Backlog'
<1> SUFFICES ASSUME TypeOK, Backlog, [Next]_vars PROVE Backlog'
  OBVIOUS
<1>0. MaxFrames \in Nat /\ s_sequence \in Nat /\ captured \in Nat /\ Len(canQueue) \in Nat
  BY ObuAssumption, LenProperties DEF TypeOK
<1>1. CASE OnCanRxDone
  <2>1. Len(canQueue') = Len(canQueue) \/ Len(canQueue') = Len(canQueue) + 1
    BY <1>1, <1>0, AppendProperties DEF OnCanRxDone, TypeOK
  <2>2. QED
    BY <1>0, <1>1, <2>1 DEF OnCanRxDone, Backlog
<1>2. CASE CanRx
  <2>1. Len(canQueue') = Len(canQueue) - 1
    BY <1>2, ToSetOfTail DEF CanRx, TypeOK
  <2>2. QED
    BY <1>0, <1>2, <2>1 DEF CanRx, Backlog
<1>3. CASE XbeeTask \/ UartDrain
  BY <1>3 DEF XbeeTask, XbeeTake, WriteSync, WritePacket, UartDrain, canVars, Backlog
<1>4. CASE NatsStep
  BY <1>4
     DEF NatsStep, Nats!LinkChange, Nats!NatsTask, Nats!LinkDown, Nats!LinkSeenUp,
         Nats!ConnectOk, Nats!ConnectFail, Nats!Receive, Nats!ReceiveTimeout,
         Nats!PublishOk, Nats!PublishFail, Nats!ProcessOk, Nats!ProcessFail, Backlog
<1>5. CASE UNCHANGED vars
  BY <1>5 DEF vars, canVars, Backlog
<1>6. QED
  BY <1>1, <1>2, <1>3, <1>4, <1>5 DEF Next

LEMMA BacklogCorrect == Spec => []Backlog
<1>1. Init => Backlog
  BY EmptySeq, ObuAssumption DEF Init, Backlog
<1>2. QED
  BY <1>1, BacklogStep, TypeCorrect, PTL DEF Spec

\* The variables of Uplink that a step leaves alone.
LEMMA UplinkKept ==
    ASSUME UNCHANGED <<natsVars, s_sequence>>
    PROVE  UNCHANGED Uplink!vars
BY DEF natsVars, Uplink!vars, Ordinals

LEMMA UplinkStep ==
    TypeOK /\ Backlog /\ [Next]_vars => [Uplink!Next]_Uplink!vars
<1> SUFFICES ASSUME TypeOK, Backlog, [Next]_vars PROVE [Uplink!Next]_Uplink!vars
  OBVIOUS
<1>1. CASE OnCanRxDone \/ XbeeTask \/ UartDrain \/ UNCHANGED vars
  <2>1. UNCHANGED <<natsVars, s_sequence>>
    BY <1>1
       DEF OnCanRxDone, XbeeTask, XbeeTake, WriteSync, WritePacket, UartDrain, vars, canVars
  <2>2. QED
    BY <2>1, UplinkKept
<1>2. CASE CanRx
  <2> DEFINE new == NewPacket
  <2>1. canQueue # << >> /\ OfferToBoth(new) /\ s_sequence' = s_sequence + 1
    BY <1>2 DEF CanRx, NewPacket
  <2>2. new \in Packet /\ new.seq = s_sequence
    BY <2>1, OfferTypes DEF NewPacket
  <2> HIDE DEF new
  <2>3. s_sequence < MaxFrames
    <3>1. Len(canQueue) > 0
      BY <2>1, EmptySeq, LenProperties DEF TypeOK
    <3>2. QED
      BY <3>1, ObuAssumption, LenProperties DEF Backlog, TypeOK
  <2>4. queue' = IF Len(queue) < QueueLen THEN Append(queue, new) ELSE queue
    BY <2>1 DEF OfferToBoth, Nats!Enqueue
  <2>5. Len(Ordinals(queue)) = Len(queue)
    BY OrdinalsOf DEF TypeOK
  <2>6. Ordinals(Append(queue, new)) = Append(Ordinals(queue), s_sequence + 1)
    BY <2>2, OrdinalsOfAppend DEF TypeOK
  <2>7. Ordinals(queue)' = Uplink!Enqueue(Ordinals(queue), s_sequence + 1)
    BY <2>4, <2>5, <2>6 DEF Uplink!Enqueue
  <2>8. UNCHANGED <<linkUp, pc, sock, Ordinals(batch), Ordinals(published)>>
    BY <1>2 DEF CanRx, Ordinals
  <2>9. Uplink!Offer
    BY <2>1, <2>3, <2>7, <2>8 DEF Uplink!Offer
  <2>10. QED
    BY <2>9 DEF Uplink!Next
<1>3. CASE NatsStep
  <2>1. CASE Nats!LinkChange
    <3>1. Uplink!LinkChange
      BY <2>1 DEF Nats!LinkChange, Uplink!LinkChange, Ordinals
    <3>2. QED
      BY <3>1 DEF Uplink!Next
  <2>2. CASE Nats!NatsTask
    <3> SUFFICES Uplink!NatsTask
      BY DEF Uplink!Next
    <3>1. CASE Nats!LinkDown
      <4>1. Uplink!LinkDown
        BY <3>1, OrdinalsOfEmpty DEF Nats!LinkDown, Uplink!LinkDown, Ordinals
      <4>2. QED
        BY <4>1 DEF Uplink!NatsTask
    <3>2. CASE Nats!LinkSeenUp \/ Nats!ConnectOk \/ Nats!ConnectFail
      <4>1. UNCHANGED <<queue, batch, published>>
        BY <3>2 DEF Nats!LinkSeenUp, Nats!ConnectOk, Nats!ConnectFail
      <4>2. UNCHANGED <<Ordinals(queue), Ordinals(batch), Ordinals(published)>>
        BY <4>1
      <4>3. Uplink!LinkSeenUp \/ Uplink!ConnectOk \/ Uplink!ConnectFail
        BY <3>2, <4>2
           DEF Nats!LinkSeenUp, Nats!ConnectOk, Nats!ConnectFail, Nats!link,
               Uplink!LinkSeenUp, Uplink!ConnectOk, Uplink!ConnectFail, Uplink!link
      <4>4. QED
        BY <4>3 DEF Uplink!NatsTask
    <3>3. CASE Nats!Receive
      <4>1. /\ pc = "receive" /\ queue # << >> /\ queue' = Tail(queue)
            /\ batch' = Append(batch, Head(queue))
            /\ pc' = IF Len(batch') < BatchMax THEN "top" ELSE "publish"
            /\ UNCHANGED <<linkUp, sock, s_sequence, published>>
        BY <3>3 DEF Nats!Receive, Nats!link
      <4>2. queue \in Seq(Packet) /\ batch \in Seq(Packet) /\ Head(queue) \in Packet
        BY <4>1, ToSetOfTail DEF TypeOK
      <4>3. /\ Ordinals(queue) # << >> /\ Ordinals(queue)' = Tail(Ordinals(queue))
            /\ Head(Ordinals(queue)) = Head(queue).seq + 1
        BY <4>1, <4>2, OrdinalsOfTail, OrdinalsOfEmpty
      <4>4. Ordinals(batch)' = Append(Ordinals(batch), Head(Ordinals(queue)))
        BY <4>1, <4>2, <4>3, OrdinalsOfAppend
      <4>5. Len(Ordinals(batch)') = Len(batch')
        BY <4>1, <4>2, AppendProperties, OrdinalsOf
      <4>6. UNCHANGED Ordinals(published)
        BY <4>1
      <4>7. Uplink!Receive
        BY <4>1, <4>3, <4>4, <4>5, <4>6 DEF Uplink!Receive, Uplink!link
      <4>8. QED
        BY <4>7 DEF Uplink!NatsTask
    <3>4. CASE Nats!ReceiveTimeout
      <4>1. /\ Ordinals(queue) = << >> <=> queue = << >>
            /\ Ordinals(batch) = << >> <=> batch = << >>
        BY OrdinalsOfEmpty DEF TypeOK
      <4>2. UNCHANGED <<Ordinals(queue), Ordinals(batch), Ordinals(published)>>
        BY <3>4 DEF Nats!ReceiveTimeout
      <4>3. Uplink!ReceiveTimeout
        BY <3>4, <4>1, <4>2 DEF Nats!ReceiveTimeout, Uplink!ReceiveTimeout, Nats!link, Uplink!link
      <4>4. QED
        BY <4>3 DEF Uplink!NatsTask
    <3>5. CASE Nats!PublishOk
      <4>1. Ordinals(published)' = Ordinals(published) \o Ordinals(batch)
        BY <3>5, OrdinalsOfConcat DEF Nats!PublishOk, TypeOK
      <4>2. Ordinals(batch)' = << >> /\ UNCHANGED Ordinals(queue)
        BY <3>5, OrdinalsOfEmpty DEF Nats!PublishOk
      <4>3. Uplink!PublishOk
        BY <3>5, <4>1, <4>2 DEF Nats!PublishOk, Uplink!PublishOk, Nats!link, Uplink!link
      <4>4. QED
        BY <4>3 DEF Uplink!NatsTask
    <3>6. CASE Nats!PublishFail
      <4>1. Uplink!PublishFail
        BY <3>6, OrdinalsOfEmpty DEF Nats!PublishFail, Uplink!PublishFail, Ordinals
      <4>2. QED
        BY <4>1 DEF Uplink!NatsTask
    <3>7. CASE Nats!ProcessOk \/ Nats!ProcessFail
      <4>1. UNCHANGED <<queue, batch, published>>
        BY <3>7 DEF Nats!ProcessOk, Nats!ProcessFail
      <4>2. UNCHANGED <<Ordinals(queue), Ordinals(batch), Ordinals(published)>>
        BY <4>1
      <4>3. Uplink!ProcessOk \/ Uplink!ProcessFail
        BY <3>7, <4>2
           DEF Nats!ProcessOk, Nats!ProcessFail, Nats!link,
               Uplink!ProcessOk, Uplink!ProcessFail, Uplink!link
      <4>4. QED
        BY <4>3 DEF Uplink!NatsTask
    <3>8. QED
      BY <2>2, <3>1, <3>2, <3>3, <3>4, <3>5, <3>6, <3>7 DEF Nats!NatsTask
  <2>3. QED
    BY <1>3, <2>1, <2>2 DEF NatsStep
<1>4. QED
  BY <1>1, <1>2, <1>3 DEF Next

\* With both paths and the interrupt around it, the WiFi path of the OBU is the
\* uplink of NatsUplink, so what is proved of that holds here.
THEOREM ImplementsUplink == Spec => UplinkSpec
<1>1. Init => Uplink!Init
  BY OrdinalsOfEmpty DEF Init, Uplink!Init
<1>2. QED
  BY <1>1, UplinkStep, TypeCorrect, BacklogCorrect, PTL DEF Spec, UplinkSpec, Uplink!Spec

\* NatsUplinkProofs is about the same actions under another name.
UP == INSTANCE NatsUplinkProofs
    WITH offered <- s_sequence, MaxPackets <- MaxFrames,
         queue <- Ordinals(queue), batch <- Ordinals(batch),
         published <- Ordinals(published)

LEMMA SameSteps == [Uplink!Next]_Uplink!vars => [UP!Next]_UP!vars
BY DEF Uplink!vars, UP!vars, Uplink!link, UP!link, Uplink!Next, UP!Next,
       Uplink!NatsTask, UP!NatsTask, Uplink!Enqueue, UP!Enqueue,
       Uplink!LinkChange, UP!LinkChange, Uplink!Offer, UP!Offer,
       Uplink!LinkDown, UP!LinkDown, Uplink!LinkSeenUp, UP!LinkSeenUp,
       Uplink!ConnectOk, UP!ConnectOk, Uplink!ConnectFail, UP!ConnectFail,
       Uplink!Receive, UP!Receive, Uplink!ReceiveTimeout, UP!ReceiveTimeout,
       Uplink!PublishOk, UP!PublishOk, Uplink!PublishFail, UP!PublishFail,
       Uplink!ProcessOk, UP!ProcessOk, Uplink!ProcessFail, UP!ProcessFail

LEMMA SameUplink == Spec => UP!Spec
<1>1. Uplink!Init => UP!Init
  BY DEF Uplink!Init, UP!Init
<1>2. QED
  BY <1>1, SameSteps, ImplementsUplink, PTL DEF UplinkSpec, Uplink!Spec, UP!Spec

LEMMA UplinkOfObu == UP!UplinkAssumption
BY ObuAssumption DEF UP!UplinkAssumption

\* What is proved of NatsUplink holds of the OBU: what it publishes over WiFi are
\* packets of can_rx_task, each at most once and in the order of their numbers.
THEOREM WifiPathIsLossyFifo == Spec => Uplink!FifoSpec
<1>1. UP!Spec => UP!FifoSpec
  BY UplinkOfObu, UP!ImplementsLossyFifo
<1>2. UP!Fifo!Init => Uplink!Fifo!Init
  BY DEF UP!Fifo!Init, Uplink!Fifo!Init
<1>3. [UP!Fifo!Next]_UP!Fifo!vars => [Uplink!Fifo!Next]_Uplink!Fifo!vars
  BY DEF UP!Fifo!Next, Uplink!Fifo!Next, UP!Fifo!vars, Uplink!Fifo!vars,
         UP!Fifo!Send, Uplink!Fifo!Send, UP!Fifo!Deliver, Uplink!Fifo!Deliver,
         UP!Fifo!Extends, Uplink!Fifo!Extends, UP!Fifo!Increasing,
         Uplink!Fifo!Increasing
<1>4. QED
  BY <1>1, <1>2, <1>3, SameUplink, PTL
     DEF UP!FifoSpec, Uplink!FifoSpec, UP!Fifo!Spec, Uplink!Fifo!Spec

\* Whatever the capture and the XBee task do meanwhile, batch[] has a free slot
\* when a packet is taken, and no batch outlives its connection.
THEOREM WifiBatchesAreSafe == Spec => [](Uplink!BatchFits /\ Uplink!BatchHasSocket)
<1>1. UP!Spec => []UP!BatchFits /\ []UP!BatchHasSocket
  BY UplinkOfObu, UP!BatchNeverOverflows, UP!BatchNeedsSocket
<1>2. UP!BatchFits /\ UP!BatchHasSocket => Uplink!BatchFits /\ Uplink!BatchHasSocket
  BY DEF UP!BatchFits, UP!BatchHasSocket, Uplink!BatchFits, Uplink!BatchHasSocket
<1>3. QED
  BY <1>1, <1>2, SameUplink, PTL

-----------------------------------------------------------------------------
(* The XBee path is a lossy FIFO: its packets are in order from the ring   *)
(* over the task to the queue.                                             *)

Rising(s) == \A i, j \in 1..Len(s) : i < j => s[i].seq < s[j].seq
Ahead(s, t) == \A i \in 1..Len(s), j \in 1..Len(t) : s[i].seq < t[j].seq

XbeeOrder ==
    /\ Rising(xbeeSent) /\ Rising(xbeeQueue)
    /\ Ahead(xbeeSent, xpkt) /\ Ahead(xbeeSent, xbeeQueue) /\ Ahead(xpkt, xbeeQueue)

LEMMA OrderOfEmpty ==
    ASSUME NEW s PROVE Rising(<< >>) /\ Ahead(<< >>, s) /\ Ahead(s, << >>)
BY EmptySeq DEF Rising, Ahead

\* The newest packet is put behind the others.
LEMMA OrderOfAppend ==
    ASSUME NEW s \in Seq(Packet), NEW t \in Seq(Packet), NEW e \in Packet,
           \A i \in 1..Len(s) : s[i].seq < e.seq, \A i \in 1..Len(t) : t[i].seq < e.seq
    PROVE  /\ Rising(t) => Rising(Append(t, e))
           /\ Ahead(s, t) => Ahead(s, Append(t, e))
<1> DEFINE u == Append(t, e)
<1>1. /\ Len(t) \in Nat /\ Len(s) \in Nat /\ Len(u) = Len(t) + 1
      /\ \A i \in 1..Len(t) : u[i] = t[i]
      /\ u[Len(t) + 1] = e
  BY AppendProperties, LenProperties
<1> HIDE DEF u
<1>2. ASSUME Rising(t), NEW i \in 1..Len(u), NEW j \in 1..Len(u), i < j
      PROVE  u[i].seq < u[j].seq
  <2>1. i \in 1..Len(t) /\ u[i] = t[i]
    BY <1>1, <1>2
  <2>2. CASE j \in 1..Len(t)
    BY <1>1, <1>2, <2>1, <2>2 DEF Rising
  <2>3. CASE j = Len(t) + 1
    BY <1>1, <2>1, <2>3
  <2>4. QED
    BY <1>1, <2>2, <2>3
<1>3. Ahead(s, t) => Ahead(s, u)
  BY <1>1 DEF Ahead
<1>4. QED
  BY <1>2, <1>3 DEF u, Rising

\* The front packet is taken away, to be dropped or to come next.
LEMMA OrderOfTail ==
    ASSUME NEW s \in Seq(Packet), NEW t \in Seq(Packet), t # << >>, Rising(t), Ahead(s, t)
    PROVE  /\ Rising(Tail(t)) /\ Ahead(s, Tail(t))
           /\ Ahead(<<Head(t)>>, Tail(t)) /\ Ahead(s, <<Head(t)>>)
<1>1. /\ Len(t) \in Nat \ {0} /\ Len(Tail(t)) = Len(t) - 1
      /\ \A i \in 1..Len(Tail(t)) : Tail(t)[i] = t[i + 1]
      /\ Head(t) = t[1]
  BY HeadTailProperties, EmptySeq, LenProperties
<1>2. \A i \in 1..Len(Tail(t)) : i + 1 \in 1..Len(t) /\ 1 < i + 1
  BY <1>1
<1>3. Rising(Tail(t)) /\ Ahead(s, Tail(t))
  <2>1. ASSUME NEW i \in 1..Len(Tail(t)), NEW j \in 1..Len(Tail(t)), i < j
        PROVE  Tail(t)[i].seq < Tail(t)[j].seq
    <3>1. i + 1 \in 1..Len(t) /\ j + 1 \in 1..Len(t) /\ i + 1 < j + 1
      <4>1. i + 1 \in 1..Len(t) /\ j + 1 \in 1..Len(t)
        BY <1>2
      <4>2. i + 1 < j + 1
        BY <2>1, Z3T(20)
      <4>3. QED
        BY <4>1, <4>2
    <3>2. t[i + 1].seq < t[j + 1].seq
      BY <3>1 DEF Rising
    <3>3. QED
      BY <1>1, <3>2
  <2>2. ASSUME NEW i \in 1..Len(s), NEW j \in 1..Len(Tail(t))
        PROVE  s[i].seq < Tail(t)[j].seq
    BY <1>1, <1>2 DEF Ahead
  <2>3. QED
    BY <2>1, <2>2 DEF Rising, Ahead
<1> DEFINE h == <<Head(t)>>
<1>4. Len(h) = 1 /\ h[1] = t[1] /\ 1 \in 1..Len(t)
  BY <1>1
<1> HIDE DEF h
<1>5. Ahead(h, Tail(t)) /\ Ahead(s, h)
  BY <1>1, <1>2, <1>4 DEF Rising, Ahead
<1>6. QED
  BY <1>3, <1>5 DEF h

\* The packet in hand goes out.
LEMMA OrderOfConcat ==
    ASSUME NEW s \in Seq(Packet), NEW t \in Seq(Packet), NEW u \in Seq(Packet),
           Len(t) <= 1, Rising(s), Ahead(s, t), Ahead(s, u), Ahead(t, u)
    PROVE  Rising(s \o t) /\ Ahead(s \o t, u)
<1> DEFINE r == s \o t
<1>1. /\ Len(s) \in Nat /\ Len(t) \in Nat /\ Len(r) = Len(s) + Len(t)
      /\ \A i \in 1..(Len(s) + Len(t)) : r[i] = IF i <= Len(s) THEN s[i] ELSE t[i - Len(s)]
  BY ConcatProperties, LenProperties
<1> HIDE DEF r
<1>2. ASSUME NEW i \in 1..Len(r)
      PROVE  \/ i \in 1..Len(s) /\ r[i] = s[i]
             \/ i = Len(s) + 1 /\ 1 \in 1..Len(t) /\ r[i] = t[1]
  BY <1>1
<1>3. Rising(r)
  <2> SUFFICES ASSUME NEW i \in 1..Len(r), NEW j \in 1..Len(r), i < j
               PROVE  r[i].seq < r[j].seq
    BY DEF Rising
  <2>1. i \in 1..Len(s) /\ r[i] = s[i]
    BY <1>1, <1>2
  <2>2. CASE j \in 1..Len(s) /\ r[j] = s[j]
    BY <2>1, <2>2 DEF Rising
  <2>3. CASE 1 \in 1..Len(t) /\ r[j] = t[1]
    BY <2>1, <2>3 DEF Ahead
  <2>4. QED
    BY <1>2, <2>2, <2>3
<1>4. Ahead(r, u)
  BY <1>2 DEF Ahead
<1>5. QED
  BY <1>3, <1>4 DEF r

LEMMA XbeeOrderStep == TypeOK /\ Numbering /\ XbeeOrder /\ [Next]_vars => XbeeOrder'
<1> SUFFICES ASSUME TypeOK, Numbering, XbeeOrder, [Next]_vars PROVE XbeeOrder'
  OBVIOUS
<1>0. /\ xbeeSent \in Seq(Packet) /\ xpkt \in Seq(Packet) /\ xbeeQueue \in Seq(Packet)
      /\ Len(xpkt) <= 1
  BY DEF TypeOK
<1>1. CASE CanRx
  <2> DEFINE new == NewPacket
  <2>1. canQueue # << >> /\ OfferToBoth(new) /\ UNCHANGED <<xpkt, xbeeSent>>
    BY <1>1 DEF CanRx, NewPacket
  <2>2. new \in Packet /\ new.seq = s_sequence
    BY <2>1, OfferTypes DEF NewPacket
  <2> HIDE DEF new
  <2>3. /\ \A i \in 1..Len(xbeeSent) : xbeeSent[i].seq < new.seq
        /\ \A i \in 1..Len(xpkt) : xpkt[i].seq < new.seq
        /\ \A i \in 1..Len(xbeeQueue) : xbeeQueue[i].seq < new.seq
    <3>1. \A p \in XbeePackets : p.seq < s_sequence
      BY DEF Numbering, Known
    <3>2. /\ \A i \in 1..Len(xbeeSent) : xbeeSent[i] \in XbeePackets
          /\ \A i \in 1..Len(xpkt) : xpkt[i] \in XbeePackets
          /\ \A i \in 1..Len(xbeeQueue) : xbeeQueue[i] \in XbeePackets
      BY <1>0, LenProperties DEF XbeePackets, ToSet
    <3>3. QED
      BY <2>2, <3>1, <3>2
  <2>4. CASE xbeeQueue' = Append(xbeeQueue, new)
    BY <1>0, <2>1, <2>2, <2>3, <2>4, OrderOfAppend DEF XbeeOrder
  <2>5. CASE xbeeQueue' = xbeeQueue
    BY <2>1, <2>5 DEF XbeeOrder
  <2>6. QED
    BY <2>1, <2>4, <2>5 DEF OfferToBoth, EnqueueXbee
<1>2. CASE XbeeTake
  <2>1. xbeeQueue # << >> /\ xbeeQueue' = Tail(xbeeQueue) /\ xbeeSent' = xbeeSent
    BY <1>2 DEF XbeeTake
  <2>2. /\ Rising(xbeeQueue') /\ Ahead(xbeeSent, xbeeQueue') /\ Ahead(xpkt, xbeeQueue')
        /\ Ahead(<<Head(xbeeQueue)>>, xbeeQueue') /\ Ahead(xbeeSent, <<Head(xbeeQueue)>>)
    BY <1>0, <2>1, OrderOfTail DEF XbeeOrder
  <2>3. xpkt' = xpkt \/ xpkt' = <<Head(xbeeQueue)>>
    BY <1>2 DEF XbeeTake
  <2>4. QED
    BY <2>1, <2>2, <2>3 DEF XbeeOrder
<1>3. CASE WritePacket
  <2>1. xbeeSent' = xbeeSent \o xpkt /\ xpkt' = << >> /\ xbeeQueue' = xbeeQueue
    BY <1>3 DEF WritePacket
  <2>2. Rising(xbeeSent') /\ Ahead(xbeeSent', xbeeQueue)
    BY <1>0, <2>1, OrderOfConcat DEF XbeeOrder
  <2>3. QED
    BY <2>1, <2>2, OrderOfEmpty DEF XbeeOrder
<1>4. CASE OnCanRxDone \/ WriteSync \/ UartDrain \/ NatsStep \/ UNCHANGED vars
  BY <1>4 DEF OnCanRxDone, WriteSync, UartDrain, NatsStep, vars, xbeeVars, XbeeOrder
<1>5. QED
  BY <1>1, <1>2, <1>3, <1>4 DEF Next, XbeeTask

\* What is written to the UART is a lossy FIFO of what can_rx_task built, though
\* packets are dropped before the queue and behind it.
THEOREM ImplementsXbeeFifo == Spec => XbeeFifoSpec
<1>1. Init => XbeeFifo!Init /\ XbeeOrder
  BY OrdinalsOfEmpty, OrderOfEmpty DEF Init, XbeeFifo!Init, XbeeOrder
<1>2. TypeOK /\ Numbering' /\ XbeeOrder' /\ TypeOK' /\ [Next]_vars
          => [XbeeFifo!Next]_XbeeFifo!vars
  <2> SUFFICES ASSUME TypeOK, Numbering', XbeeOrder', TypeOK', [Next]_vars
               PROVE  [XbeeFifo!Next]_XbeeFifo!vars
    OBVIOUS
  <2>1. CASE CanRx
    <3>1. s_sequence' = s_sequence + 1 /\ xbeeSent' = xbeeSent
      BY <2>1 DEF CanRx
    <3>2. XbeeFifo!Send
      BY <3>1 DEF XbeeFifo!Send
    <3>3. QED
      BY <3>2 DEF XbeeFifo!Next
  <2>2. CASE WritePacket
    <3> DEFINE was == Ordinals(xbeeSent)
               is == Ordinals(xbeeSent)'
    <3>1. s_sequence' = s_sequence /\ is = was \o Ordinals(xpkt)
      BY <2>2, OrdinalsOfConcat DEF WritePacket, canVars, TypeOK
    <3>2. was \in Seq(Nat) /\ Ordinals(xpkt) \in Seq(Nat)
      BY OrdinalsOf DEF TypeOK
    <3>3. /\ xbeeSent' \in Seq(Packet) /\ Len(is) = Len(xbeeSent')
          /\ \A i \in 1..Len(xbeeSent') : is[i] = xbeeSent'[i].seq + 1
      BY OrdinalsOf DEF TypeOK
    <3> HIDE DEF was, is
    <3>4. XbeeFifo!Extends(is, was)
      BY <3>1, <3>2, ConcatProperties, LenProperties DEF XbeeFifo!Extends
    <3>5. ASSUME NEW i \in 1..Len(is)
          PROVE  xbeeSent'[i].seq \in Nat /\ xbeeSent'[i].seq < s_sequence
      <4>1. xbeeSent'[i] \in XbeePackets'
        BY <3>3, LenProperties DEF XbeePackets, ToSet
      <4>2. QED
        BY <3>1, <4>1 DEF Numbering, Known, Packet
    <3>6. ASSUME NEW i \in 1..Len(is) PROVE is[i] \in 1..s_sequence
      <4>1. is[i] = xbeeSent'[i].seq + 1 /\ s_sequence \in Nat
        BY <3>3 DEF TypeOK
      <4>2. QED
        BY <3>5, <4>1
    <3>7. XbeeFifo!Increasing(is)
      BY <3>3, <3>5 DEF XbeeOrder, Rising, XbeeFifo!Increasing
    <3>8. XbeeFifo!Deliver
      BY <3>1, <3>4, <3>6, <3>7 DEF XbeeFifo!Deliver, was, is
    <3>9. QED
      BY <3>8 DEF XbeeFifo!Next
  <2>3. CASE OnCanRxDone \/ XbeeTake \/ WriteSync \/ UartDrain \/ NatsStep \/ UNCHANGED vars
    <3>1. s_sequence' = s_sequence
      BY <2>3
         DEF OnCanRxDone, XbeeTake, WriteSync, UartDrain, vars, canVars, NatsStep,
             Nats!LinkChange, Nats!NatsTask, Nats!LinkDown, Nats!LinkSeenUp,
             Nats!ConnectOk, Nats!ConnectFail, Nats!Receive, Nats!ReceiveTimeout,
             Nats!PublishOk, Nats!PublishFail, Nats!ProcessOk, Nats!ProcessFail
    <3>2. xbeeSent' = xbeeSent
      BY <2>3 DEF OnCanRxDone, XbeeTake, WriteSync, UartDrain, NatsStep, vars, xbeeVars
    <3>3. QED
      BY <3>1, <3>2 DEF XbeeFifo!vars
  <2>4. QED
    BY <2>1, <2>2, <2>3 DEF Next, XbeeTask
<1>3. Spec => []Numbering
  BY NumberingInit, NumberingStep, TypeCorrect, PTL DEF Spec
<1>4. Spec => []XbeeOrder
  BY <1>1, <1>3, XbeeOrderStep, TypeCorrect, PTL DEF Spec
<1>5. QED
  BY <1>1, <1>2, <1>3, <1>4, TypeCorrect, PTL DEF Spec, XbeeFifoSpec, XbeeFifo!Spec
=============================================================================
