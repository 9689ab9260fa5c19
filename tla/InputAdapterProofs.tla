------------------------- MODULE InputAdapterProofs -------------------------
(***************************************************************************)
(* InputAdapter implements Dedup, whatever its messages, its channel and   *)
(* the answers of JetStream: what DedupProofs proves of the Deduplicator   *)
(* holds of the running adapter.  Its telemetry follows its raw stream,    *)
(* and that the packets it accepted.                                       *)
(***************************************************************************)
EXTENDS InputAdapter, SequenceTheorems, TLAPS

\* The theorems about the Deduplicator.  DedupProofs has what EndToEnd puts around it
\* as well, which those theorems do not mention: any value does for it.
DP == INSTANCE DedupProofs
        WITH CanFrame <- << >>, Damages <- {}, MaxDelay <- 0, MaxFlight <- 0,
             sequence <- << >>, wifi <- << >>, xbee <- << >>, relay <- << >>,
             arrived <- {}, stored <- << >>

\* The packets on their way to Accept are packets of known devices with a
\* sequence number of the type's range.
PacketsTyped ==
    /\ boot \in [Devices -> 0..MaxBoots]
    /\ msgs \in Seq(Seq(PacketSet))
    /\ todo \in Seq(PacketSet)
    /\ step # "select" => todo # << >>

\* A message is a sequence of packets.
LEMMA MessageTyped ==
    ASSUME NEW d \in Devices, NEW p \in Payloads, NEW b \in 0..MaxBoots
    PROVE  [i \in 1..Len(p) |-> Packet(d, b, p[i])] \in Seq(PacketSet)
<1> DEFINE m == [i \in 1..Len(p) |-> Packet(d, b, p[i])]
           Content == [seq : 0..MaxSeq, good : BOOLEAN]
<1>1. p \in Seq(Content)
  BY AdapterAssumption
<1>2. Len(p) \in Nat /\ \A i \in 1..Len(p) : p[i] \in Content
  BY <1>1, ElementOfSeq, LenProperties
<1>3. \A c \in Content : Packet(d, b, c) \in PacketSet
  BY DEF Packet, PacketSet
<1>4. m \in [1..Len(p) -> PacketSet]
  BY <1>2, <1>3
<1>5. QED
  BY <1>2, <1>4, SeqDef

LEMMA PacketsInvariant == Spec => []PacketsTyped
<1>1. Init => PacketsTyped
  BY EmptySeq, AdapterAssumption DEF Init, PacketsTyped
<1>2. PacketsTyped /\ [Next]_vars => PacketsTyped'
  <2> SUFFICES ASSUME PacketsTyped, [Next]_vars PROVE PacketsTyped'
    OBVIOUS
  <2> USE DEF PacketsTyped, ghosts, streams, control, dedupVars
  <2>1. CASE Arrive
    <3>1. PICK d \in Devices, p \in Payloads :
             \E b \in 0..boot[d] :
                LET m == [i \in 1..Len(p) |-> Packet(d, b, p[i])]
                IN  msgs' = IF Len(msgs) < ChanLen THEN Append(msgs, m) ELSE msgs
      BY <2>1 DEF Arrive
    <3>2. PICK b \in 0..boot[d] :
             LET m == [i \in 1..Len(p) |-> Packet(d, b, p[i])]
             IN  msgs' = IF Len(msgs) < ChanLen THEN Append(msgs, m) ELSE msgs
      BY <3>1
    <3>3. b \in 0..MaxBoots
      BY AdapterAssumption
    <3>4. [i \in 1..Len(p) |-> Packet(d, b, p[i])] \in Seq(PacketSet)
      BY <3>3, MessageTyped
    <3>5. msgs' \in Seq(Seq(PacketSet))
      BY <3>2, <3>4, AppendProperties
    <3>6. QED
      BY <2>1, <3>5 DEF Arrive
  <2>2. ASSUME NEW d \in Devices, Reboot(d) PROVE PacketsTyped'
    BY <2>2, AdapterAssumption DEF Reboot
  <2>3. CASE TakeMessage
    <3>1. Head(msgs) \in Seq(PacketSet) /\ Tail(msgs) \in Seq(Seq(PacketSet))
      BY <2>3, HeadTailProperties DEF TakeMessage
    <3>2. QED
      BY <2>3, <3>1 DEF TakeMessage, Goto
  <2>4. CASE NextPacket /\ step # "select" /\ UNCHANGED <<boot, msgs>>
    <3>1. Tail(todo) \in Seq(PacketSet)
      BY <2>4, HeadTailProperties
    <3>2. QED
      BY <2>4, <3>1 DEF NextPacket, Goto
  <2>5. CASE SkipInvalid \/ SkipDuplicate \/ PublishFail \/ PublishSignals
    BY <2>4, <2>5 DEF SkipInvalid, SkipDuplicate, PublishFail, PublishSignals
  <2>6. CASE AcceptPacket \/ PublishOk
    BY <2>6 DEF AcceptPacket, PublishOk, Goto
  <2>7. CASE SweepTick \/ Tick
    BY <2>7 DEF SweepTick, Tick
  <2>8. CASE Restart
    BY <2>8, EmptySeq DEF Restart, Goto
  <2>9. CASE UNCHANGED vars
    BY <2>9 DEF vars
  <2>10. QED
    BY <2>1, <2>2, <2>3, <2>5, <2>6, <2>7, <2>8, <2>9 DEF Next, HandleMessage
<1>3. QED
  BY <1>1, <1>2, PTL DEF Spec

\* Every step of the adapter is a step of its Deduplicator or leaves it alone.
THEOREM ImplementsDedup == Spec => DedupSpec
<1>1. Init => D!Init
  BY DEF Init
<1>2. PacketsTyped /\ [Next]_vars => [D!Next]_D!vars
  <2> SUFFICES ASSUME PacketsTyped, [Next]_vars PROVE [D!Next]_D!vars
    OBVIOUS
  <2>1. CASE UNCHANGED dedupVars
    BY <2>1 DEF dedupVars, D!vars
  <2>2. CASE \/ Arrive \/ TakeMessage \/ SkipInvalid \/ SkipDuplicate
             \/ PublishOk \/ PublishFail \/ PublishSignals
             \/ \E d \in Devices : Reboot(d)
    BY <2>1, <2>2 DEF Arrive, Reboot, TakeMessage, SkipInvalid, SkipDuplicate,
                      PublishOk, PublishFail, PublishSignals
  <2>3. CASE AcceptPacket
    <3>1. pkt \in PacketSet
      <4>1. todo \in Seq(PacketSet) /\ todo # << >>
        BY <2>3 DEF AcceptPacket, PacketsTyped
      <4>2. QED
        BY <4>1, HeadTailProperties DEF pkt
    <3>2. pkt.device \in Devices /\ pkt.seq \in D!Seqs
      BY <3>1 DEF PacketSet, D!Seqs
    <3>3. D!Accept(pkt.device, pkt.seq)
      BY <2>3 DEF AcceptPacket
    <3>4. QED
      BY <3>2, <3>3 DEF D!Next
  <2>4. CASE SweepTick
    BY <2>4 DEF SweepTick, D!Next
  <2>5. CASE Tick
    BY <2>5 DEF Tick, D!Next
  <2>6. CASE Restart
    BY <2>6 DEF Restart, D!Next
  <2>7. CASE UNCHANGED vars
    BY <2>1, <2>7 DEF vars
  <2>8. QED
    BY <2>2, <2>3, <2>4, <2>5, <2>6, <2>7 DEF Next, HandleMessage
<1>3. QED
  BY <1>1, <1>2, PacketsInvariant, PTL DEF Spec, DedupSpec, D!Spec

\* DedupProofs is about the same actions under another name.
LEMMA SameSteps == [D!Next]_D!vars => [DP!Next]_DP!vars
BY DEF D!vars, DP!vars, D!Next, DP!Next, D!Accept, DP!Accept, D!Sweep,
       DP!Sweep, D!Tick, DP!Tick, D!Restart, DP!Restart, D!IsDuplicate,
       DP!IsDuplicate, D!Raised, DP!Raised, D!Gap, DP!Gap, D!Expired,
       DP!Expired, D!Keys, DP!Keys, D!Seqs, DP!Seqs, D!Never, DP!Never

LEMMA SameDedup == Spec => DP!Spec
<1>1. D!Init => DP!Init
  BY DEF D!Init, DP!Init, D!Keys, DP!Keys, D!Seqs, DP!Seqs, D!Never, DP!Never
<1>2. QED
  BY <1>1, SameSteps, ImplementsDedup, PTL DEF DedupSpec, D!Spec, DP!Spec

LEMMA DedupOfAdapter == DP!DedupAssumption
BY AdapterAssumption DEF DP!DedupAssumption

\* No process of the adapter accepts a packet, and so stores it, twice within
\* the window, whatever reboots, fails or blocks.
THEOREM AdapterAcceptsOnce == Spec => []OnceInWindow
<1>1. DP!Spec => []DP!OnceInWindow
  BY DedupOfAdapter, DP!AcceptsOnceInWindow
<1>2. DP!OnceInWindow => OnceInWindow
  BY DEF OnceInWindow, D!OnceInWindow, DP!OnceInWindow
<1>3. QED
  BY <1>1, <1>2, SameDedup, PTL

\* Whatever publishes fail or block, every sequence number of a device between
\* the first and the highest one accepted was accepted or named in a gap line.
THEOREM AdapterReportsGaps == Spec => []D!NoSilentGap
<1>1. DP!Spec => []DP!NoSilentGap
  BY DedupOfAdapter, DP!GapsAreReported
<1>2. DP!NoSilentGap => D!NoSilentGap
  BY DEF D!NoSilentGap, DP!NoSilentGap
<1>3. QED
  BY <1>1, <1>2, SameDedup, PTL

-----------------------------------------------------------------------------
(* Type correctness.                                                       *)

\* What the Deduplicator keeps, the adapter keeps.
LEMMA DedupTypes == Spec => []D!TypeOK
<1>1. DP!DedupAssumption
  BY AdapterAssumption DEF DP!DedupAssumption
<1>2. DP!Spec => []DP!TypeOK
  BY <1>1, DP!TypeCorrect
<1>3. D!Init => DP!Init
  BY DEF D!Init, DP!Init, D!Keys, DP!Keys, D!Seqs, DP!Seqs, D!Never, DP!Never
<1>4. [D!Next]_D!vars => [DP!Next]_DP!vars
  BY SameSteps
<1>5. DP!TypeOK => D!TypeOK
  BY DEF D!TypeOK, DP!TypeOK, D!Keys, DP!Keys, D!Seqs, DP!Seqs, D!Never, DP!Never,
         D!Entry, DP!Entry
<1>6. QED
  BY <1>2, <1>3, <1>4, <1>5, ImplementsDedup, PTL
     DEF DedupSpec, D!Spec, DP!Spec

\* The rest of TypeOK.
LoopTyped ==
    /\ messages \in 0..MaxMessages
    /\ Len(msgs) <= ChanLen
    /\ step \in {"select", "packet", "publish", "signals"}
    /\ waited \in 0..PublishTime
    /\ (step = "select") = (todo = << >>)
    /\ raw \in Seq(PacketSet) /\ telemetry \in Seq(PacketSet)
    /\ taken \in Seq(PacketSet) /\ rejected \subseteq PacketSet

LEMMA LoopInvariant == Spec => []LoopTyped
<1>0. /\ MaxMessages \in Nat /\ MaxBoots \in Nat /\ PublishTime \in Nat
      /\ ChanLen \in Nat /\ 0 < ChanLen /\ 0 \in 0..PublishTime
      /\ \A S : << >> \in Seq(S) /\ Len(<< >>) = 0
  BY AdapterAssumption, EmptySeq
<1>1. Init => LoopTyped
  BY <1>0 DEF Init, LoopTyped
<1>2. PacketsTyped /\ LoopTyped /\ [Next]_vars => LoopTyped'
  <2> SUFFICES ASSUME PacketsTyped, LoopTyped, [Next]_vars PROVE LoopTyped'
    OBVIOUS
  <2> USE DEF LoopTyped, ghosts, streams, control, dedupVars
  <2>0. Len(msgs) \in Nat /\ msgs \in Seq(Seq(PacketSet)) /\ todo \in Seq(PacketSet)
    BY LenProperties DEF PacketsTyped
  <2>a. step # "select" => pkt \in PacketSet
    BY <2>0, HeadTailProperties DEF pkt, PacketsTyped
  <2>b. \A s \in Seq(PacketSet), p \in PacketSet : Append(s, p) \in Seq(PacketSet)
    BY AppendProperties
  <2>c. ASSUME NextPacket
        PROVE  /\ step' \in {"select", "packet"} /\ waited' = 0
               /\ (step' = "select") = (todo' = << >>)
    BY <2>c DEF NextPacket, Goto
  <2>1. CASE Arrive
    <3>1. PICK m : msgs' = IF Len(msgs) < ChanLen THEN Append(msgs, m) ELSE msgs
      BY <2>1 DEF Arrive
    <3>2. PICK d \in Devices, p \in Payloads :
             \E b \in 0..boot[d] :
                LET n == [i \in 1..Len(p) |-> Packet(d, b, p[i])]
                IN  msgs' = IF Len(msgs) < ChanLen THEN Append(msgs, n) ELSE msgs
      BY <2>1 DEF Arrive
    <3>3. PICK b \in 0..boot[d] :
             LET n == [i \in 1..Len(p) |-> Packet(d, b, p[i])]
             IN  msgs' = IF Len(msgs) < ChanLen THEN Append(msgs, n) ELSE msgs
      BY <3>2
    <3>4. boot[d] \in 0..MaxBoots
      BY DEF PacketsTyped
    <3>5. b \in 0..MaxBoots
      BY <1>0, <3>4
    <3>6. [i \in 1..Len(p) |-> Packet(d, b, p[i])] \in Seq(PacketSet)
      BY <3>5, MessageTyped
    <3>7. Len(Append(msgs, [i \in 1..Len(p) |-> Packet(d, b, p[i])])) = Len(msgs) + 1
      BY <2>0, <3>6, AppendProperties
    <3>8. Len(msgs') <= ChanLen
      BY <1>0, <2>0, <3>3, <3>7
    <3>9. QED
      BY <1>0, <2>1, <3>8 DEF Arrive
  <2>2. CASE TakeMessage
    <3>1. Len(Tail(msgs)) = Len(msgs) - 1
      BY <2>0, <2>2, HeadTailProperties DEF TakeMessage
    <3>2. msgs' = Tail(msgs) /\ Len(msgs') <= ChanLen
      BY <1>0, <2>0, <2>2, <3>1 DEF TakeMessage
    <3>3. QED
      BY <1>0, <2>2, <3>2 DEF TakeMessage, Goto
  <2>3. CASE SkipInvalid
    BY <1>0, <2>c, <2>3 DEF SkipInvalid
  <2>4. CASE SkipDuplicate
    BY <1>0, <2>a, <2>c, <2>4 DEF SkipDuplicate
  <2>5. CASE AcceptPacket
    BY <1>0, <2>a, <2>b, <2>5 DEF AcceptPacket, Goto
  <2>6. CASE PublishOk
    BY <1>0, <2>a, <2>b, <2>6 DEF PublishOk, Goto
  <2>7. CASE PublishFail
    <3>1. /\ step # "select" /\ NextPacket
          /\ raw' = raw \/ raw' = Append(raw, pkt)
          /\ UNCHANGED <<messages, msgs, telemetry, ghosts>>
      BY <2>7 DEF PublishFail
    <3>2. raw' \in Seq(PacketSet)
      BY <2>a, <2>b, <3>1
    <3>3. waited' \in 0..PublishTime
      BY <1>0, <2>c, <3>1
    <3>4. QED
      BY <2>c, <3>1, <3>2, <3>3
  <2>8. CASE PublishSignals
    <3>1. /\ step # "select" /\ NextPacket
          /\ telemetry' = telemetry \/ telemetry' = Append(telemetry, pkt)
          /\ UNCHANGED <<messages, msgs, raw, ghosts>>
      BY <2>8 DEF PublishSignals
    <3>2. telemetry' \in Seq(PacketSet)
      BY <2>a, <2>b, <3>1
    <3>3. waited' \in 0..PublishTime
      BY <1>0, <2>c, <3>1
    <3>4. QED
      BY <2>c, <3>1, <3>2, <3>3
  <2>9. CASE (\E d \in Devices : Reboot(d)) \/ SweepTick \/ UNCHANGED vars
    BY <2>9 DEF Reboot, SweepTick, vars
  <2>10. CASE Tick
    BY <1>0, <2>10 DEF Tick, Blocked
  <2>11. CASE Restart
    BY <1>0, <2>11 DEF Restart, Goto
  <2>12. QED
    BY <2>1, <2>2, <2>3, <2>4, <2>5, <2>6, <2>7, <2>8, <2>9, <2>10, <2>11
       DEF Next, HandleMessage
<1>3. QED
  BY <1>1, <1>2, PacketsInvariant, PTL DEF Spec

\* The adapter keeps its types and its channel its capacity, for every capacity;
\* it waits in the select exactly when it has no packet in hand.
THEOREM TypeCorrect == Spec => []TypeOK
<1>1. D!TypeOK /\ PacketsTyped /\ LoopTyped => TypeOK
  BY DEF TypeOK, PacketsTyped, LoopTyped
<1>2. QED
  BY <1>1, DedupTypes, PacketsInvariant, LoopInvariant, PTL

-----------------------------------------------------------------------------
(* The streams.                                                            *)

LEMMA FollowsNothing ==
    ASSUME NEW t PROVE FollowsIn(<< >>, t)
<1>1. [i \in 1..0 |-> i] \in [1..Len(<< >>) -> 1..Len(t)]
  BY EmptySeq
<1>2. 1..Len(<< >>) = {}
  BY EmptySeq
<1>3. QED
  BY <1>1, <1>2 DEF FollowsIn

\* What follows a sequence follows it when it grows...
LEMMA FollowsLonger ==
    ASSUME NEW S, NEW s, NEW t \in Seq(S), NEW e \in S, FollowsIn(s, t)
    PROVE  FollowsIn(s, Append(t, e))
<1>1. /\ Len(t) \in Nat /\ Len(Append(t, e)) = Len(t) + 1
      /\ \A i \in 1..Len(t) : Append(t, e)[i] = t[i]
  BY AppendProperties, LenProperties
<1>2. PICK place \in [1..Len(s) -> 1..Len(t)] :
        /\ \A i, j \in 1..Len(s) : i < j => place[i] < place[j]
        /\ \A i \in 1..Len(s) : s[i] = t[place[i]]
  BY DEF FollowsIn
<1>3. 1..Len(t) \subseteq 1..Len(Append(t, e))
  BY <1>1
<1>4. place \in [1..Len(s) -> 1..Len(Append(t, e))]
  BY <1>3
<1>5. \A i \in 1..Len(s) : s[i] = Append(t, e)[place[i]]
  BY <1>1, <1>2
<1>6. QED
  BY <1>2, <1>4, <1>5 DEF FollowsIn

\* ... and when both grow by the same element.
LEMMA FollowsBoth ==
    ASSUME NEW S, NEW s \in Seq(S), NEW t \in Seq(S), NEW e \in S, FollowsIn(s, t)
    PROVE  FollowsIn(Append(s, e), Append(t, e))
<1> DEFINE u == Append(s, e)
           v == Append(t, e)
           m == Len(s)
           n == Len(t)
<1>1. /\ m \in Nat /\ Len(u) = m + 1 /\ u[m + 1] = e
      /\ \A i \in 1..m : u[i] = s[i]
  BY AppendProperties, LenProperties
<1>2. /\ n \in Nat /\ Len(v) = n + 1 /\ v[n + 1] = e
      /\ \A i \in 1..n : v[i] = t[i]
  BY AppendProperties, LenProperties
<1>3. PICK place \in [1..m -> 1..n] :
        /\ \A i, j \in 1..m : i < j => place[i] < place[j]
        /\ \A i \in 1..m : s[i] = t[place[i]]
  BY DEF FollowsIn
<1> HIDE DEF u, v, m, n
<1> DEFINE new == [i \in 1..(m + 1) |-> IF i = m + 1 THEN n + 1 ELSE place[i]]
<1>4. \A i \in 1..(m + 1) : i = m + 1 \/ i \in 1..m
  BY <1>1
<1>5. \A i \in 1..m : place[i] \in 1..n /\ new[i] = place[i]
  BY <1>1, <1>3
<1>6. new[m + 1] = n + 1
  BY <1>1
<1>7. new \in [1..(m + 1) -> 1..(n + 1)]
  BY <1>2, <1>4, <1>5
<1> HIDE DEF new
<1>8. ASSUME NEW i \in 1..(m + 1), NEW j \in 1..(m + 1), i < j PROVE new[i] < new[j]
  <2>1. i \in 1..m
    BY <1>1, <1>8
  <2>2. CASE j = m + 1
    BY <1>2, <1>5, <1>6, <2>1, <2>2
  <2>3. CASE j \in 1..m
    BY <1>3, <1>5, <1>8, <2>1, <2>3
  <2>4. QED
    BY <1>4, <2>2, <2>3
<1>9. ASSUME NEW i \in 1..(m + 1) PROVE u[i] = v[new[i]]
  <2>1. CASE i = m + 1
    BY <1>1, <1>2, <1>6, <2>1
  <2>2. CASE i \in 1..m
    <3>1. u[i] = s[i] /\ s[i] = t[place[i]]
      BY <1>1, <1>3, <2>2
    <3>2. new[i] = place[i] /\ v[place[i]] = t[place[i]]
      BY <1>2, <1>5, <2>2
    <3>3. QED
      BY <3>1, <3>2
  <2>3. QED
    BY <1>4, <2>1, <2>2
<1>10. /\ new \in [1..Len(u) -> 1..Len(v)]
       /\ \A i, j \in 1..Len(u) : i < j => new[i] < new[j]
       /\ \A i \in 1..Len(u) : u[i] = v[new[i]]
  BY <1>1, <1>2, <1>7, <1>8, <1>9
<1>11. FollowsIn(u, v)
  BY <1>10 DEF FollowsIn
<1>12. QED
  BY <1>11 DEF u, v

\* While a packet is being published it is the last that was accepted, and while
\* its signals are it is the last of the raw stream; the streams follow what was
\* there before.
InFlight ==
    /\ step = "publish" =>
         \E t \in Seq(PacketSet) : taken = Append(t, pkt) /\ FollowsIn(raw, t)
    /\ step = "signals" =>
         \E t \in Seq(PacketSet) : raw = Append(t, pkt) /\ FollowsIn(telemetry, t)

\* Telemetry follows the raw stream, which follows the accepted packets, whatever
\* JetStream answers and whenever the process ends.
THEOREM StreamsInOrder == Spec => []StreamsFollow
<1>1. Init => StreamsFollow /\ InFlight
  BY FollowsNothing, EmptySeq DEF Init, StreamsFollow, InFlight
<1>2. PacketsTyped /\ LoopTyped /\ StreamsFollow /\ InFlight /\ [Next]_vars
        => StreamsFollow' /\ InFlight'
  <2> SUFFICES ASSUME PacketsTyped, LoopTyped, StreamsFollow, InFlight, [Next]_vars
               PROVE  StreamsFollow' /\ InFlight'
    OBVIOUS
  <2>0. /\ raw \in Seq(PacketSet) /\ telemetry \in Seq(PacketSet)
        /\ taken \in Seq(PacketSet)
        /\ step # "select" => pkt \in PacketSet
    BY HeadTailProperties DEF PacketsTyped, LoopTyped, pkt
  <2>1. FollowsIn(telemetry, raw) /\ FollowsIn(raw, taken)
    BY DEF StreamsFollow
  <2>2. CASE UNCHANGED <<streams, ghosts>> /\ step' \notin {"publish", "signals"}
    BY <2>2 DEF streams, ghosts, StreamsFollow, InFlight
  <2>3. CASE UNCHANGED <<streams, ghosts, step, todo>>
    BY <2>3 DEF streams, ghosts, StreamsFollow, InFlight, pkt
  <2>4. CASE TakeMessage \/ SkipInvalid
    BY <2>2, <2>4 DEF TakeMessage, SkipInvalid, NextPacket, Goto
  <2>5. CASE SkipDuplicate
    BY <2>5 DEF SkipDuplicate, NextPacket, Goto, streams, StreamsFollow, InFlight
  <2>6. CASE AcceptPacket
    <3>1. /\ taken' = Append(taken, pkt) /\ pkt \in PacketSet /\ pkt.good
          /\ raw' = raw /\ telemetry' = telemetry /\ pkt' = pkt /\ step' = "publish"
      BY <2>0, <2>6 DEF AcceptPacket, Goto, streams, pkt
    <3>2. FollowsIn(raw', taken')
      BY <2>0, <2>1, <3>1, FollowsLonger
    <3>3. \A i \in 1..Len(taken') : taken'[i].good
      <4>1. /\ Len(taken) \in Nat /\ Len(taken') = Len(taken) + 1
            /\ \A i \in 1..Len(taken) : taken'[i] = taken[i]
            /\ taken'[Len(taken) + 1] = pkt
        BY <2>0, <3>1, AppendProperties, LenProperties
      <4>2. \A i \in 1..Len(taken') : i = Len(taken) + 1 \/ i \in 1..Len(taken)
        BY <4>1
      <4>3. QED
        BY <3>1, <4>1, <4>2 DEF StreamsFollow
    <3>4. QED
      BY <2>0, <2>1, <3>1, <3>2, <3>3 DEF StreamsFollow, InFlight
  <2>7. CASE PublishOk
    <3>1. /\ raw' = Append(raw, pkt) /\ pkt \in PacketSet /\ pkt' = pkt
          /\ step = "publish" /\ step' = "signals"
          /\ telemetry' = telemetry /\ taken' = taken
      BY <2>0, <2>7 DEF PublishOk, Goto, ghosts, pkt
    <3>2. FollowsIn(raw', taken')
      BY <2>0, <3>1, FollowsBoth DEF InFlight
    <3>3. FollowsIn(telemetry', raw')
      BY <2>0, <2>1, <3>1, FollowsLonger
    <3>4. QED
      BY <2>0, <2>1, <3>1, <3>2, <3>3 DEF StreamsFollow, InFlight
  <2>8. CASE PublishFail
    <3>1. /\ raw' = raw \/ raw' = Append(raw, pkt)
          /\ pkt \in PacketSet /\ step = "publish" /\ step' \notin {"publish", "signals"}
          /\ telemetry' = telemetry /\ taken' = taken
      BY <2>0, <2>8 DEF PublishFail, NextPacket, Goto, ghosts
    <3>2. FollowsIn(raw', taken')
      BY <2>0, <2>1, <3>1, FollowsBoth DEF InFlight
    <3>3. FollowsIn(telemetry', raw')
      BY <2>0, <2>1, <3>1, FollowsLonger
    <3>4. QED
      BY <3>1, <3>2, <3>3 DEF StreamsFollow, InFlight
  <2>9. CASE PublishSignals
    <3>1. /\ telemetry' = telemetry \/ telemetry' = Append(telemetry, pkt)
          /\ pkt \in PacketSet /\ step = "signals" /\ step' \notin {"publish", "signals"}
          /\ raw' = raw /\ taken' = taken
      BY <2>0, <2>9 DEF PublishSignals, NextPacket, Goto, ghosts
    <3>2. FollowsIn(telemetry', raw')
      BY <2>0, <2>1, <3>1, FollowsBoth DEF InFlight
    <3>3. QED
      BY <2>1, <3>1, <3>2 DEF StreamsFollow, InFlight
  <2>10. CASE Arrive \/ (\E d \in Devices : Reboot(d)) \/ SweepTick \/ Tick
    BY <2>3, <2>10 DEF Arrive, Reboot, SweepTick, Tick, control
  <2>11. CASE Restart
    BY <2>11, FollowsNothing, EmptySeq DEF Restart, Goto, StreamsFollow, InFlight
  <2>12. CASE UNCHANGED vars
    BY <2>3, <2>12 DEF vars, control
  <2>13. QED
    BY <2>4, <2>5, <2>6, <2>7, <2>8, <2>9, <2>10, <2>11, <2>12 DEF Next, HandleMessage
<1>3. QED
  BY <1>1, <1>2, PacketsInvariant, LoopInvariant, PTL DEF Spec
=============================================================================
