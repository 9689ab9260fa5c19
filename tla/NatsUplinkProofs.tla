------------------------- MODULE NatsUplinkProofs --------------------------
(***************************************************************************)
(* Proofs about NatsUplink, for every queue length, batch size and number  *)
(* of packets.                                                             *)
(***************************************************************************)
EXTENDS NatsUplink, SequenceTheorems, TLAPS

-----------------------------------------------------------------------------
(* Type correctness.                                                       *)

\* nats_task keeps its variables in their types, and s_nats_queue within its
\* length.
THEOREM TypeCorrect == Spec => []TypeOK
<1>1. Init => TypeOK
  <2> SUFFICES ASSUME Init PROVE TypeOK
    OBVIOUS
  <2>1. queue \in Seq(Nat) /\ batch \in Seq(Nat) /\ published \in Seq(Nat)
    BY EmptySeq DEF Init
  <2>2. Len(queue) <= QueueLen
    BY EmptySeq, UplinkAssumption DEF Init
  <2>3. QED
    BY <2>1, <2>2 DEF Init, TypeOK, PCs
<1>2. TypeOK /\ [Next]_vars => TypeOK'
  <2> SUFFICES ASSUME TypeOK, [Next]_vars PROVE TypeOK'
    OBVIOUS
  <2> USE UplinkAssumption DEF TypeOK, PCs, link
  <2>1. CASE LinkChange
    BY <2>1 DEF LinkChange
  <2>2. CASE Offer
    BY <2>2 DEF Offer, Enqueue
  <2>3. CASE LinkDown \/ LinkSeenUp \/ ConnectOk \/ ConnectFail
    BY <2>3, EmptySeq DEF LinkDown, LinkSeenUp, ConnectOk, ConnectFail
  <2>4. CASE Receive
    BY <2>4 DEF Receive
  <2>5. CASE ReceiveTimeout
    BY <2>5 DEF ReceiveTimeout
  <2>6. CASE PublishOk \/ PublishFail
    <3>1. << >> \in Seq(Nat) /\ published \o batch \in Seq(Nat)
      BY EmptySeq, ConcatProperties
    <3>2. QED
      BY <2>6, <3>1 DEF PublishOk, PublishFail
  <2>7. CASE ProcessOk \/ ProcessFail
    BY <2>7 DEF ProcessOk, ProcessFail
  <2>8. CASE UNCHANGED vars
    BY <2>8 DEF vars
  <2>9. QED
    BY <2>1, <2>2, <2>3, <2>4, <2>5, <2>6, <2>7, <2>8 DEF Next, NatsTask
<1>3. QED
  BY <1>1, <1>2, PTL DEF Spec

-----------------------------------------------------------------------------
(* The batch.                                                              *)

\* What BatchFits and BatchHasSocket need to be inductive: after a publish, and
\* before a keepalive, there is no batch; and only a batch is published.
BatchInv ==
    /\ BatchFits
    /\ BatchHasSocket
    /\ pc = "process" => batch = << >>
    /\ pc = "connect" => ~sock

LEMMA BatchInvariant == Spec => []BatchInv
<1>1. Init => BatchInv
  <2> SUFFICES ASSUME Init PROVE BatchInv
    OBVIOUS
  <2>1. Len(batch) = 0
    BY EmptySeq DEF Init
  <2>2. QED
    BY <2>1, UplinkAssumption DEF Init, BatchInv, BatchFits, BatchHasSocket
<1>2. TypeOK /\ BatchInv /\ [Next]_vars => BatchInv'
  <2> SUFFICES ASSUME TypeOK, BatchInv, [Next]_vars PROVE BatchInv'
    OBVIOUS
  <2> USE UplinkAssumption DEF TypeOK, BatchInv, BatchFits, BatchHasSocket, link
  <2>0. Len(<< >>) = 0
    BY EmptySeq
  <2>1. CASE LinkChange \/ Offer
    BY <2>1 DEF LinkChange, Offer
  <2>2. CASE LinkDown \/ LinkSeenUp \/ ConnectOk \/ ConnectFail
    BY <2>2, <2>0 DEF LinkDown, LinkSeenUp, ConnectOk, ConnectFail
  <2>3. CASE Receive
    <3>1. Head(queue) \in Nat
      BY <2>3, HeadTailProperties DEF Receive
    <3>2. Len(batch') = Len(batch) + 1
      BY <2>3, <3>1, AppendProperties DEF Receive
    <3>3. batch' # << >>
      BY <3>2, <2>0
    <3>4. QED
      BY <2>3, <3>2, <3>3 DEF Receive
  <2>4. CASE ReceiveTimeout
    BY <2>4 DEF ReceiveTimeout
  <2>5. CASE PublishOk \/ PublishFail
    BY <2>5, <2>0 DEF PublishOk, PublishFail
  <2>6. CASE ProcessOk \/ ProcessFail
    BY <2>6, <2>0 DEF ProcessOk, ProcessFail
  <2>7. CASE UNCHANGED vars
    BY <2>7 DEF vars
  <2>8. QED
    BY <2>1, <2>2, <2>3, <2>4, <2>5, <2>6, <2>7 DEF Next, NatsTask
<1>3. QED
  BY <1>1, <1>2, TypeCorrect, PTL DEF Spec

\* xQueueReceive always finds a free slot in batch[], whatever the batch size.
THEOREM BatchNeverOverflows == Spec => []BatchFits
BY BatchInvariant, PTL DEF BatchInv

\* A batch never outlives its connection, and only open sockets are used.
THEOREM BatchNeedsSocket == Spec => []BatchHasSocket
BY BatchInvariant, PTL DEF BatchInv

-----------------------------------------------------------------------------
(* The order of the packets.                                               *)

\* FifoOrder is inductive as it stands.  What it says of three sequences is
\* that published, batch and queue, one after the other, are increasing; a
\* step moves packets from one to the next, adds the newest or removes some.

\* Adding at the end what is larger than everything before.
LEMMA AppendLarger ==
    ASSUME NEW s \in Seq(Nat), NEW e \in Nat,
           Increasing(s), \A i \in 1..Len(s) : s[i] < e
    PROVE  Increasing(Append(s, e))
BY AppendProperties DEF Increasing

LEMMA FrontBeforeAppend ==
    ASSUME NEW s \in Seq(Nat), NEW t \in Seq(Nat), NEW e \in Nat,
           Before(s, t), \A i \in 1..Len(s) : s[i] < e
    PROVE  Before(s, Append(t, e))
BY AppendProperties DEF Before

LEMMA WithinAppend ==
    ASSUME NEW s \in Seq(Nat), NEW e \in Nat, NEW n \in Nat,
           Within(s, n), e \in 1..n
    PROVE  Within(Append(s, e), n)
BY AppendProperties DEF Within

\* Taking the first element away.
LEMMA TailOrdered ==
    ASSUME NEW s \in Seq(Nat), s # << >>, NEW n \in Nat,
           Increasing(s), Within(s, n)
    PROVE  /\ Increasing(Tail(s))
           /\ Within(Tail(s), n)
           /\ Head(s) = s[1] /\ 1 \in 1..Len(s)
           /\ \A i \in 1..Len(Tail(s)) : Head(s) < Tail(s)[i]
<1>1. /\ Len(s) \in Nat \ {0}
      /\ Len(Tail(s)) = Len(s) - 1
      /\ \A i \in 1..Len(Tail(s)) : Tail(s)[i] = s[i + 1]
  BY HeadTailProperties, EmptySeq
<1>2. Head(s) = s[1]
  OBVIOUS
<1>3. QED
  BY <1>1, <1>2 DEF Increasing, Within

LEMMA BeforeTail ==
    ASSUME NEW s \in Seq(Nat), NEW t \in Seq(Nat), t # << >>, Before(s, t)
    PROVE  Before(s, Tail(t))
<1>1. /\ Len(t) \in Nat \ {0} /\ Len(Tail(t)) = Len(t) - 1
      /\ \A i \in 1..Len(Tail(t)) : Tail(t)[i] = t[i + 1]
  BY HeadTailProperties, EmptySeq
<1>2. \A i \in 1..Len(Tail(t)) : i + 1 \in 1..Len(t)
  BY <1>1
<1>3. QED
  BY <1>1, <1>2 DEF Before

\* Joining two sequences.
LEMMA ConcatOrdered ==
    ASSUME NEW s \in Seq(Nat), NEW t \in Seq(Nat), NEW n \in Nat,
           Increasing(s), Increasing(t), Before(s, t),
           Within(s, n), Within(t, n)
    PROVE  Increasing(s \o t) /\ Within(s \o t, n)
<1>1. /\ Len(s) \in Nat /\ Len(t) \in Nat
      /\ Len(s \o t) = Len(s) + Len(t)
      /\ \A i \in 1..(Len(s) + Len(t)) :
            (s \o t)[i] = IF i <= Len(s) THEN s[i] ELSE t[i - Len(s)]
  BY ConcatProperties, LenProperties
<1>2. Increasing(s \o t)
  <2> SUFFICES ASSUME NEW i \in 1..(Len(s) + Len(t)),
                      NEW j \in 1..(Len(s) + Len(t)), i < j
               PROVE  (s \o t)[i] < (s \o t)[j]
    BY <1>1 DEF Increasing
  <2>1. CASE j <= Len(s)
    <3>1. i \in 1..Len(s) /\ j \in 1..Len(s)
      BY <1>1, <2>1
    <3>2. QED
      BY <1>1, <3>1 DEF Increasing
  <2>2. CASE i <= Len(s) /\ j > Len(s)
    <3>1. i \in 1..Len(s) /\ j - Len(s) \in 1..Len(t)
      BY <1>1, <2>2
    <3>2. (s \o t)[i] = s[i] /\ (s \o t)[j] = t[j - Len(s)]
      BY <1>1, <2>2
    <3>3. QED
      BY <3>1, <3>2 DEF Before
  <2>3. CASE i > Len(s)
    <3>1. /\ Len(s) \in Nat /\ Len(t) \in Nat
          /\ i \in 1..(Len(s) + Len(t)) /\ j \in 1..(Len(s) + Len(t)) /\ i < j
      BY <1>1
    <3>2. /\ i - Len(s) \in 1..Len(t) /\ j - Len(s) \in 1..Len(t)
          /\ i - Len(s) < j - Len(s) /\ ~(i <= Len(s)) /\ ~(j <= Len(s))
      BY <2>3, <3>1
    <3>3. (s \o t)[i] = t[i - Len(s)] /\ (s \o t)[j] = t[j - Len(s)]
      BY <1>1, <3>2
    <3>4. QED
      BY <3>2, <3>3 DEF Increasing
  <2>4. Len(s) \in Int /\ i \in Int /\ j \in Int
    BY <1>1
  <2>5. j <= Len(s) \/ (i <= Len(s) /\ j > Len(s)) \/ i > Len(s)
    BY <2>4
  <2>6. QED
    BY <2>1, <2>2, <2>3, <2>5
<1>3. Within(s \o t, n)
  BY <1>1 DEF Within
<1>4. QED
  BY <1>2, <1>3

LEMMA ConcatBefore ==
    ASSUME NEW s \in Seq(Nat), NEW t \in Seq(Nat), NEW u \in Seq(Nat),
           Before(s, u), Before(t, u)
    PROVE  Before(s \o t, u)
<1>1. /\ Len(s) \in Nat /\ Len(t) \in Nat
      /\ Len(s \o t) = Len(s) + Len(t)
      /\ \A i \in 1..(Len(s) + Len(t)) :
            (s \o t)[i] = IF i <= Len(s) THEN s[i] ELSE t[i - Len(s)]
  BY ConcatProperties, LenProperties
<1>2. SUFFICES ASSUME NEW i \in 1..(Len(s) + Len(t)), NEW j \in 1..Len(u)
               PROVE  (s \o t)[i] < u[j]
  BY <1>1 DEF Before
<1>3. CASE i <= Len(s)
  <2>1. i \in 1..Len(s) /\ (s \o t)[i] = s[i]
    BY <1>1, <1>3
  <2>2. QED
    BY <2>1 DEF Before
<1>4. CASE i > Len(s)
  <2>1. i - Len(s) \in 1..Len(t) /\ (s \o t)[i] = t[i - Len(s)]
    BY <1>1, <1>4
  <2>2. QED
    BY <2>1 DEF Before
<1>5. QED
  BY <1>1, <1>3, <1>4

LEMMA EmptyOrdered ==
    ASSUME NEW s, NEW n
    PROVE  /\ Increasing(<< >>) /\ Within(<< >>, n)
           /\ Before(<< >>, s) /\ Before(s, << >>)
BY EmptySeq DEF Increasing, Within, Before

\* Packets are published at most once and in the order in which the producer
\* offered them, through every loss of the link and every failed publish.
THEOREM PublishedInOrder == Spec => []FifoOrder
<1>1. Init => FifoOrder
  BY EmptyOrdered DEF Init, FifoOrder
<1>2. TypeOK /\ FifoOrder /\ [Next]_vars => FifoOrder'
  <2> SUFFICES ASSUME TypeOK, FifoOrder, [Next]_vars PROVE FifoOrder'
    OBVIOUS
  <2>0. /\ queue \in Seq(Nat) /\ batch \in Seq(Nat) /\ published \in Seq(Nat)
        /\ offered \in Nat
    BY DEF TypeOK
  <2>1. CASE Offer
    <3> DEFINE e == offered + 1
    <3>1. /\ \A i \in 1..Len(queue) : queue[i] < e
          /\ \A i \in 1..Len(batch) : batch[i] < e
          /\ \A i \in 1..Len(published) : published[i] < e
      BY <2>0 DEF FifoOrder, Within
    <3>2. Within(queue, e) /\ Within(batch, e) /\ Within(published, e)
      BY <2>0 DEF FifoOrder, Within
    <3>3. CASE queue' = Append(queue, e)
      <4>1. Increasing(queue') /\ Within(queue', e)
        <5>1. queue \in Seq(Nat) /\ e \in Nat /\ e \in 1..e /\ Increasing(queue)
          BY <2>0 DEF FifoOrder
        <5>2. Increasing(Append(queue, e))
          BY <3>1, <5>1, AppendLarger
        <5>3. Within(Append(queue, e), e)
          BY <3>2, <5>1, WithinAppend
        <5>4. QED
          BY <3>3, <5>2, <5>3
      <4>2. e \in Nat
        BY <2>0
      <4>3. Before(batch, queue') /\ Before(published, queue')
        BY <4>2, <2>0, <3>1, <3>3, FrontBeforeAppend DEF FifoOrder
      <4>4. QED
        BY <2>1, <3>2, <4>1, <4>3 DEF Offer, FifoOrder
    <3>4. CASE queue' = queue
      BY <2>1, <3>2, <3>4 DEF Offer, FifoOrder
    <3>5. QED
      BY <2>1, <3>3, <3>4 DEF Offer, Enqueue
  <2>2. CASE Receive
    <3>1. /\ queue # << >> /\ queue' = Tail(queue)
          /\ batch' = Append(batch, Head(queue))
          /\ published' = published /\ offered' = offered
      BY <2>2 DEF Receive, link
    <3> DEFINE h == Head(queue)
    <3>2. /\ Increasing(queue') /\ Within(queue', offered)
          /\ h = queue[1] /\ 1 \in 1..Len(queue)
          /\ \A i \in 1..Len(queue') : h < queue'[i]
      BY <2>0, <3>1, TailOrdered DEF FifoOrder
    <3>3. /\ h \in 1..offered
          /\ \A i \in 1..Len(batch) : batch[i] < h
          /\ \A i \in 1..Len(published) : published[i] < h
          /\ h \in Nat
      BY <2>0, <3>2 DEF FifoOrder, Within, Before
    <3>4. Increasing(batch') /\ Within(batch', offered)
      BY <2>0, <3>1, <3>3, AppendLarger, WithinAppend DEF FifoOrder
    <3>5. Before(published, batch')
      BY <2>0, <3>1, <3>3, FrontBeforeAppend DEF FifoOrder
    <3>6. Before(published, queue') /\ Before(batch, queue')
      BY <2>0, <3>1, BeforeTail DEF FifoOrder
    <3>7. Before(batch', queue')
      <4>1. /\ Len(batch) \in Nat /\ Len(batch') = Len(batch) + 1
            /\ \A i \in 1..Len(batch) : batch'[i] = batch[i]
            /\ batch'[Len(batch) + 1] = h
        BY <2>0, <3>1, <3>3, AppendProperties, LenProperties
      <4>2. QED
        BY <3>2, <3>6, <4>1 DEF Before
    <3>8. QED
      BY <3>1, <3>2, <3>4, <3>5, <3>6, <3>7 DEF FifoOrder
  <2>3. CASE PublishOk
    <3>1. /\ published' = published \o batch /\ batch' = << >>
          /\ queue' = queue /\ offered' = offered
      BY <2>3 DEF PublishOk, link
    <3>2. Increasing(published') /\ Within(published', offered)
      BY <2>0, <3>1, ConcatOrdered DEF FifoOrder
    <3>3. Before(published', queue)
      BY <2>0, <3>1, ConcatBefore DEF FifoOrder
    <3>4. QED
      BY <3>1, <3>2, <3>3, EmptyOrdered DEF FifoOrder
  <2>4. CASE LinkDown \/ PublishFail
    BY <2>4, EmptyOrdered DEF LinkDown, PublishFail, FifoOrder
  <2>5. CASE \/ LinkChange \/ LinkSeenUp \/ ConnectOk \/ ConnectFail
             \/ ReceiveTimeout \/ ProcessOk \/ ProcessFail
    BY <2>5 DEF LinkChange, LinkSeenUp, ConnectOk, ConnectFail,
                ReceiveTimeout, ProcessOk, ProcessFail, FifoOrder
  <2>6. CASE UNCHANGED vars
    BY <2>6 DEF vars, FifoOrder
  <2>7. QED
    BY <2>1, <2>2, <2>3, <2>4, <2>5, <2>6 DEF Next, NatsTask
<1>3. QED
  BY <1>1, <1>2, TypeCorrect, PTL DEF Spec

-----------------------------------------------------------------------------
(* The refinement.                                                         *)

\* nats_task implements the lossy FIFO: an offer is its Send, a publish that
\* succeeds its Deliver, and every other step leaves both ends alone.
THEOREM ImplementsLossyFifo == Spec => FifoSpec
<1>1. Init => Fifo!Init
  BY DEF Init, Fifo!Init
<1>2. TypeOK /\ FifoOrder /\ FifoOrder' /\ [Next]_vars
          => [Fifo!Next]_Fifo!vars
  <2> SUFFICES ASSUME TypeOK, FifoOrder, FifoOrder', [Next]_vars
               PROVE  [Fifo!Next]_Fifo!vars
    OBVIOUS
  <2>1. CASE Offer
    BY <2>1 DEF Offer, Fifo!Next, Fifo!Send
  <2>2. CASE PublishOk
    <3>1. published' = published \o batch /\ offered' = offered
      BY <2>2 DEF PublishOk, link
    <3>2. batch \in Seq(Nat) /\ published \in Seq(Nat)
      BY DEF TypeOK
    <3>3. Fifo!Extends(published', published)
      BY <3>1, <3>2, ConcatProperties, LenProperties DEF Fifo!Extends
    <3>4. Fifo!Increasing(published')
      BY DEF FifoOrder, Increasing, Fifo!Increasing
    <3>5. \A i \in 1..Len(published') : published'[i] \in 1..offered
      BY <3>1 DEF FifoOrder, Within
    <3>6. Fifo!Deliver
      BY <3>1, <3>3, <3>4, <3>5 DEF Fifo!Deliver
    <3>7. QED
      BY <3>6 DEF Fifo!Next
  <2>3. CASE \/ LinkChange \/ LinkDown \/ LinkSeenUp \/ ConnectOk
             \/ ConnectFail \/ Receive \/ ReceiveTimeout \/ PublishFail
             \/ ProcessOk \/ ProcessFail
    BY <2>3 DEF LinkChange, LinkDown, LinkSeenUp, ConnectOk, ConnectFail,
                Receive, ReceiveTimeout, PublishFail, ProcessOk, ProcessFail,
                link, Fifo!vars
  <2>4. CASE UNCHANGED vars
    BY <2>4 DEF vars, Fifo!vars
  <2>5. QED
    BY <2>1, <2>2, <2>3, <2>4 DEF Next, NatsTask
<1>3. QED
  BY <1>1, <1>2, TypeCorrect, PublishedInOrder, PTL DEF Spec, FifoSpec, Fifo!Spec
=============================================================================
