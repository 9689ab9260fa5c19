--------------------------- MODULE UartSyncProofs ---------------------------
(***************************************************************************)
(* Proofs about UartSync, for every marker, every packet length and        *)
(* content, every time-out and any number of frames: types, that the line  *)
(* is a lossy FIFO, and, for markers that stand out (MarkerApart), that a  *)
(* loss costs no more than two frames.                                     *)
(***************************************************************************)
EXTENDS UartSync, SequenceTheorems, TLAPS

-----------------------------------------------------------------------------
(* What the line and the task do to a sequence of bytes.                   *)

LEMMA ToSetOfEmpty == ToSet(<< >>) = {}
BY EmptySeq DEF ToSet

LEMMA ToSetOfAppend ==
    ASSUME NEW S, NEW s \in Seq(S), NEW e \in S
    PROVE  /\ Append(s, e) \in Seq(S) /\ Len(Append(s, e)) = Len(s) + 1
           /\ ToSet(Append(s, e)) = ToSet(s) \cup {e}
<1> DEFINE t == Append(s, e)
<1>1. /\ Len(s) \in Nat /\ t \in Seq(S) /\ Len(t) = Len(s) + 1
      /\ \A i \in 1..Len(s) : t[i] = s[i]
      /\ t[Len(s) + 1] = e
  BY AppendProperties, LenProperties
<1> HIDE DEF t
<1>2. ToSet(t) = ToSet(s) \cup {e}
  BY <1>1 DEF ToSet
<1>3. QED
  BY <1>1, <1>2 DEF t

LEMMA ToSetOfTail ==
    ASSUME NEW S, NEW s \in Seq(S), s # << >>
    PROVE  /\ ToSet(Tail(s)) \subseteq ToSet(s) /\ Head(s) \in ToSet(s)
           /\ Head(s) \in S /\ Tail(s) \in Seq(S) /\ Len(Tail(s)) = Len(s) - 1
<1>1. /\ Len(s) \in Nat \ {0} /\ Len(Tail(s)) = Len(s) - 1
      /\ \A i \in 1..Len(Tail(s)) : Tail(s)[i] = s[i + 1]
      /\ Head(s) = s[1] /\ Head(s) \in S /\ Tail(s) \in Seq(S)
  BY HeadTailProperties, EmptySeq, LenProperties
<1>2. \A i \in 1..(Len(s) - 1) : i + 1 \in 1..Len(s)
  BY <1>1
<1>3. QED
  BY <1>1, <1>2 DEF ToSet

LEMMA FieldsOfByte ==
    ASSUME NEW c \in Bytes
    PROVE  c.frame \in Nat /\ c.place \in 0..FrameLen
BY DEF Bytes

LEMMA FieldsOfBytes ==
    ASSUME NEW s \in Seq(Bytes)
    PROVE  /\ Len(s) \in Nat
           /\ \A i \in 1..Len(s) : s[i].frame \in Nat /\ s[i].place \in 0..FrameLen
           /\ \A c \in ToSet(s) : c.frame \in Nat /\ c.place \in 0..FrameLen
<1>1. Len(s) \in Nat /\ \A i \in 1..Len(s) : s[i] \in Bytes
  BY ElementOfSeq, LenProperties
<1>2. QED
  BY <1>1, FieldsOfByte DEF ToSet

-----------------------------------------------------------------------------
(* Type correctness.                                                       *)

LEMMA Lengths ==
    /\ Len(Marker) \in Nat /\ Marker \in Seq(0..255) /\ BodyLen \in Nat \ {0}
    /\ FrameLen \in Nat /\ FrameLen = Len(Marker) + BodyLen
    /\ \A b \in Bodies : b \in Seq(0..255) /\ Len(b) = BodyLen
BY UartAssumption, LenProperties DEF FrameLen

LEMMA FrameTypes ==
    ASSUME NEW b \in Bodies, NEW f \in Nat
    PROVE  /\ Frame(f, b) \in Seq(Bytes) /\ Len(Frame(f, b)) = FrameLen
           /\ \A i \in 1..FrameLen :
                /\ Frame(f, b)[i].frame = f /\ Frame(f, b)[i].place = i
                /\ Frame(f, b)[i].value = (Marker \o b)[i]
<1>0. FrameLen \in Nat
  BY Lengths
<1>1. b \in Seq(0..255) /\ Len(b) = BodyLen /\ Marker \in Seq(0..255)
  BY Lengths
<1>2. Marker \o b \in Seq(0..255) /\ Len(Marker \o b) = FrameLen
  BY <1>1, ConcatProperties DEF FrameLen
<1>3. ASSUME NEW i \in 1..FrameLen
      PROVE  /\ Frame(f, b)[i] \in Bytes
             /\ Frame(f, b)[i].frame = f /\ Frame(f, b)[i].place = i
             /\ Frame(f, b)[i].value = (Marker \o b)[i]
  <2> DEFINE v == (Marker \o b)[i]
  <2>1. v \in 0..255
    BY <1>2, ElementOfSeq
  <2>2. Frame(f, b)[i] = Byte(v, f, i)
    BY DEF Frame
  <2> HIDE DEF v
  <2>3. i \in 0..FrameLen
    BY <1>0
  <2>4. /\ Frame(f, b)[i] \in Bytes
        /\ Frame(f, b)[i].frame = f /\ Frame(f, b)[i].place = i
        /\ Frame(f, b)[i].value = v
    BY <2>1, <2>2, <2>3 DEF Byte, Bytes
  <2>5. QED
    BY <2>4 DEF v
<1>4. Frame(f, b) \in Seq(Bytes) /\ Len(Frame(f, b)) = FrameLen
  <2>1. Frame(f, b) = [i \in 1..FrameLen |-> Frame(f, b)[i]]
    BY DEF Frame
  <2>2. QED
    BY <1>0, <1>3, <2>1
<1>5. QED
  BY <1>3, <1>4

LEMMA TypeInit == Init => TypeOK
<1> SUFFICES ASSUME Init PROVE TypeOK
  OBVIOUS
<1>0. << >> \in Seq(Bytes) /\ << >> \in Seq(Nat) /\ Len(<< >>) = 0
  BY EmptySeq
<1>1. PICK n \in Noises : ring = [i \in 1..Len(n) |-> Byte(n[i], 0, 0)] /\ torn \subseteq {0}
  BY DEF Init
<1>2. n \in Seq(0..255) /\ Len(n) \in Nat /\ Len(n) <= RingLen
  BY UartAssumption, LenProperties
<1>3. \A i \in 1..Len(n) : Byte(n[i], 0, 0) \in Bytes
  BY <1>2, Lengths, ElementOfSeq DEF Byte, Bytes
<1>4. ring \in Seq(Bytes) /\ Len(ring) <= RingLen
  BY <1>1, <1>2, <1>3
<1>5. Len(Marker) \in Nat /\ TickMod \in Nat /\ TickMod > 1
  BY UartAssumption, LenProperties
<1>6. QED
  BY <1>0, <1>1, <1>4, <1>5, UartAssumption DEF Init, TypeOK

\* The frame numbers found among some bytes.
LEMMA FrameNumbers == \A s \in Seq(Bytes) : FramesOf(s) \subseteq Nat
BY FieldsOfBytes DEF FramesOf

LEMMA FrameOfBytes ==
    ASSUME NEW s \in Seq(Bytes), Len(s) = BodyLen PROVE FrameOf(s) \in Nat
<1>1. 1 \in 1..Len(s)
  BY UartAssumption
<1>2. QED
  BY <1>1, FieldsOfBytes DEF FrameOf, Noise

LEMMA TypeStep == TypeOK /\ [Next]_vars => TypeOK'
<1> SUFFICES ASSUME TypeOK, [Next]_vars PROVE TypeOK'
  OBVIOUS
<1>0. << >> \in Seq(Bytes) /\ << >> \in Seq(Nat) /\ Len(<< >>) = 0
  BY EmptySeq
<1>k. /\ TickMod \in Nat /\ TickMod > 1 /\ Timeout \in Nat /\ Len(Marker) \in Nat
      /\ MaxFrames \in Nat /\ RingLen \in Nat /\ BodyLen \in Nat \ {0}
  BY UartAssumption, LenProperties
<1>a. ASSUME ScanAnew
      PROVE  /\ pc' \in {"scan", "check", "read"}
             /\ window' \in Seq(Bytes) /\ Len(window') <= Len(Marker)
             /\ body' \in Seq(Bytes) /\ Len(body') < BodyLen
             /\ deadline' \in 0..(TickMod - 1) /\ wait' \in 0..(TickMod - 1)
  BY <1>a, <1>0, <1>k DEF ScanAnew
<1>1. CASE \E b \in Bodies : Send(b)
  <2>1. PICK b \in Bodies : Send(b)
    BY <1>1
  <2>2. frames + 1 \in 0..MaxFrames /\ frames + 1 \in Nat
    BY <1>k, <2>1 DEF Send, TypeOK
  <2>3. Frame(frames + 1, b) \in Seq(Bytes)
    BY <2>2, FrameTypes
  <2>4. QED
    BY <2>1, <2>2, <2>3 DEF Send, TypeOK, reading, results
<1>2. CASE Arrive
  <2>1. Tail(outgoing) \in Seq(Bytes) /\ Head(outgoing) \in Bytes
    BY <1>2, ToSetOfTail DEF Arrive, TypeOK
  <2>2. ring' \in Seq(Bytes) /\ Len(ring') <= RingLen
    BY <1>2, <1>k, <2>1, ToSetOfAppend, LenProperties DEF Arrive, TypeOK
  <2>3. QED
    BY <1>2, <2>1, <2>2 DEF Arrive, TypeOK, reading, results
<1>3. CASE Lose
  <2>1. Tail(outgoing) \in Seq(Bytes) /\ Head(outgoing).frame \in Nat
    BY <1>3, ToSetOfTail, FieldsOfByte DEF Lose, TypeOK
  <2>2. QED
    BY <1>3, <2>1 DEF Lose, TypeOK, reading, results
<1>4. CASE ScanByte
  <2>1. /\ Tail(ring) \in Seq(Bytes) /\ Len(Tail(ring)) <= RingLen /\ Head(ring) \in Bytes
    BY <1>4, <1>k, ToSetOfTail, LenProperties DEF ScanByte, TypeOK
  <2> DEFINE w == Append(window, Head(ring))
  <2>2. w \in Seq(Bytes) /\ Len(w) = Len(window) + 1 /\ Len(window) \in Nat
    BY <2>1, ToSetOfAppend, LenProperties DEF TypeOK
  <2>3. w # << >>
    BY <2>2, EmptySeq
  <2> HIDE DEF w
  <2>4. Tail(w) \in Seq(Bytes) /\ Len(Tail(w)) = Len(w) - 1
    BY <2>2, <2>3, ToSetOfTail
  <2>5. window' = IF Len(w) > Len(Marker) THEN Tail(w) ELSE w
    BY <1>4 DEF ScanByte, Shifted, w
  <2>6. window' \in Seq(Bytes) /\ Len(window') <= Len(Marker)
    BY <1>k, <2>2, <2>4, <2>5 DEF TypeOK
  <2>7. (tick + Timeout) % TickMod \in 0..(TickMod - 1)
    BY <1>k DEF TypeOK
  <2>8. pc' \in {"scan", "check", "read"} /\ deadline' \in 0..(TickMod - 1)
    BY <1>4, <2>7 DEF ScanByte, TypeOK
  <2>9. QED
    BY <1>4, <2>1, <2>6, <2>8 DEF ScanByte, TypeOK, results
<1>5. CASE ReadOn
  <2>1. Remaining \in 0..(TickMod - 1)
    BY <1>k DEF Remaining, TypeOK
  <2>2. QED
    BY <1>5, <2>1 DEF ReadOn, TypeOK, radio, results
<1>6. CASE GiveUp
  <2>1. torn' \subseteq Nat
    BY <1>6, FrameNumbers DEF GiveUp, TypeOK
  <2>2. QED
    BY <1>6, <1>a, <2>1 DEF GiveUp, TypeOK, radio, results
<1>7. CASE ReadByte
  <2>1. /\ Tail(ring) \in Seq(Bytes) /\ Len(Tail(ring)) <= RingLen /\ Head(ring) \in Bytes
    BY <1>7, <1>k, ToSetOfTail, LenProperties DEF ReadByte, TypeOK
  <2> DEFINE bytes == Append(body, Head(ring))
  <2>2. bytes \in Seq(Bytes) /\ Len(bytes) = Len(body) + 1 /\ Len(body) \in Nat
    BY <2>1, ToSetOfAppend, LenProperties DEF TypeOK
  <2>3. /\ ring' = Tail(ring) /\ UNCHANGED <<frames, outgoing, torn, tick>>
        /\ IF Len(bytes) = BodyLen
           THEN Handle(bytes)
           ELSE /\ body' = bytes /\ pc' \in {"read", "check"}
                /\ UNCHANGED <<window, reading, results>>
    BY <1>7 DEF ReadByte
  <2> HIDE DEF bytes
  <2>4. CASE Len(bytes) = BodyLen
    <3>1. ScanAnew /\ (Relay(bytes) \/ UNCHANGED results)
      BY <2>3, <2>4 DEF Handle
    <3>2. FrameOf(bytes) \in Nat
      BY <2>2, <2>4, FrameOfBytes
    <3>3. /\ Append(packets, FrameOf(bytes)) \in Seq(Nat) /\ packets \in Seq(Nat)
          /\ Append(relayed, FrameOf(bytes)) \in Seq(Nat) /\ relayed \in Seq(Nat)
      BY <3>2, AppendProperties DEF TypeOK
    <3>4. packets' \in Seq(Nat) /\ relayed' \in Seq(Nat)
      BY <3>1, <3>3 DEF Relay, results
    <3>5. QED
      BY <1>a, <2>1, <2>3, <3>1, <3>4 DEF TypeOK
  <2>5. CASE Len(bytes) # BodyLen
    BY <1>k, <2>1, <2>2, <2>3, <2>5, SMTT(20) DEF TypeOK, reading, results
  <2>6. QED
    BY <2>4, <2>5
<1>8. CASE ReadTimesOut
  BY <1>8 DEF ReadTimesOut, TypeOK, radio, reading, results
<1>9. CASE Tick
  <2>1. (tick + 1) % TickMod \in 0..(TickMod - 1)
    BY <1>k DEF TypeOK
  <2>2. wait' \in 0..(TickMod - 1)
    BY <1>9, <1>k DEF Tick, TypeOK
  <2>3. QED
    BY <1>9, <2>1, <2>2 DEF Tick, TypeOK, radio, results
<1>10. CASE UNCHANGED vars
  BY <1>10 DEF vars, TypeOK, radio, reading, results
<1>11. QED
  BY <1>1, <1>2, <1>3, <1>4, <1>5, <1>6, <1>7, <1>8, <1>9, <1>10 DEF Next

\* uart_rx_task keeps its types: sync[] never grows past the marker, the packet
\* buffer never past a packet.
THEOREM TypeCorrect == Spec => []TypeOK
BY TypeInit, TypeStep, PTL DEF Spec

-----------------------------------------------------------------------------
(* The order of the bytes.                                                 *)

\* b was sent before c.  Noise is all alike.
Precedes(b, c) ==
    \/ b.frame < c.frame
    \/ b.frame = c.frame /\ (b.place < c.place \/ (b.place = 0 /\ c.place = 0))

Ordered(s) == \A i, j \in 1..Len(s) : i < j => Precedes(s[i], s[j])
Follow(s, t) == \A b \in ToSet(s), c \in ToSet(t) : Precedes(b, c)

Rest == ToSet(body) \cup ToSet(ring) \cup ToSet(outgoing)

\* The bytes collected, in the ring and on the way are in the order they were
\* sent, and what is relayed is of frames before all of them.
LineOrder ==
    /\ Ordered(body) /\ Ordered(ring) /\ Ordered(outgoing)
    /\ Follow(body, ring) /\ Follow(body, outgoing) /\ Follow(ring, outgoing)
    /\ \A b \in Rest : b.frame <= frames /\ (b.place > 0 => b.frame > 0)
    /\ \A k \in 1..Len(relayed) :
         relayed[k] \in 1..frames /\ \A b \in Rest : relayed[k] < b.frame
    /\ Fifo!Increasing(relayed)

LEMMA OrderOfEmpty ==
    ASSUME NEW s PROVE Ordered(<< >>) /\ Follow(<< >>, s) /\ Follow(s, << >>)
BY EmptySeq, ToSetOfEmpty DEF Ordered, Follow

LEMMA OrderOfAppend ==
    ASSUME NEW s \in Seq(Bytes), NEW e \in Bytes, Ordered(s),
           \A b \in ToSet(s) : Precedes(b, e)
    PROVE  Ordered(Append(s, e))
<1> DEFINE t == Append(s, e)
<1>1. /\ Len(s) \in Nat /\ Len(t) = Len(s) + 1
      /\ \A i \in 1..Len(s) : t[i] = s[i]
      /\ t[Len(s) + 1] = e
  BY AppendProperties, LenProperties
<1> HIDE DEF t
<1>2. \A i \in 1..Len(s) : Precedes(s[i], e)
  BY DEF ToSet
<1>3. ASSUME NEW i \in 1..Len(t), NEW j \in 1..Len(t), i < j
      PROVE  Precedes(t[i], t[j])
  <2>1. i \in 1..Len(s) /\ t[i] = s[i]
    BY <1>1, <1>3
  <2>2. CASE j \in 1..Len(s)
    BY <1>1, <1>3, <2>1, <2>2 DEF Ordered
  <2>3. CASE j = Len(s) + 1
    BY <1>1, <1>2, <2>1, <2>3
  <2>4. QED
    BY <1>1, <2>2, <2>3
<1>4. QED
  BY <1>3 DEF Ordered, t

LEMMA OrderOfTail ==
    ASSUME NEW s \in Seq(Bytes), s # << >>, Ordered(s)
    PROVE  Ordered(Tail(s)) /\ \A c \in ToSet(Tail(s)) : Precedes(Head(s), c)
<1>1. /\ Len(s) \in Nat \ {0} /\ Len(Tail(s)) = Len(s) - 1
      /\ \A i \in 1..Len(Tail(s)) : Tail(s)[i] = s[i + 1]
      /\ Head(s) = s[1]
  BY HeadTailProperties, EmptySeq, LenProperties
<1>2. \A i \in 1..Len(Tail(s)) : i + 1 \in 1..Len(s) /\ 1 < i + 1
  BY <1>1
<1>3. Ordered(Tail(s))
  BY <1>1, <1>2 DEF Ordered
<1>4. \A c \in ToSet(Tail(s)) : Precedes(Head(s), c)
  BY <1>1, <1>2 DEF Ordered, ToSet
<1>5. QED
  BY <1>3, <1>4

LEMMA OrderOfFrame ==
    ASSUME NEW b \in Bodies, NEW f \in Nat
    PROVE  Ordered(Frame(f, b)) /\ \A c \in ToSet(Frame(f, b)) : c.frame = f
<1>1. FrameLen \in Nat
  BY Lengths
<1>2. Ordered(Frame(f, b))
  BY <1>1, FrameTypes DEF Ordered, Precedes
<1>3. \A c \in ToSet(Frame(f, b)) : c.frame = f
  BY FrameTypes DEF ToSet
<1>4. QED
  BY <1>2, <1>3

LEMMA LineOrderInit == Init => LineOrder
<1> SUFFICES ASSUME Init PROVE LineOrder
  OBVIOUS
<1>1. PICK n \in Noises : ring = [i \in 1..Len(n) |-> Byte(n[i], 0, 0)]
  BY DEF Init
<1>2. Len(n) \in Nat
  BY UartAssumption, LenProperties
<1>3. \A i \in 1..Len(ring) : ring[i].frame = 0 /\ ring[i].place = 0
  BY <1>1, <1>2 DEF Byte
<1>4. Ordered(ring)
  BY <1>3 DEF Ordered, Precedes
<1>5. \A b \in Rest : b.frame = 0 /\ b.place = 0
  BY <1>3, ToSetOfEmpty DEF Init, Rest, ToSet
<1>6. Len(relayed) = 0
  BY EmptySeq DEF Init
<1>7. QED
  BY <1>4, <1>5, <1>6, OrderOfEmpty DEF Init, LineOrder, Fifo!Increasing

\* Steps that only take bytes away, or leave them alone.
LEMMA Fewer ==
    ASSUME LineOrder, UNCHANGED <<frames, relayed>>,
           Ordered(body'), Ordered(ring'), Ordered(outgoing'),
           ToSet(body') \subseteq ToSet(body), ToSet(ring') \subseteq ToSet(ring),
           ToSet(outgoing') \subseteq ToSet(outgoing)
    PROVE  LineOrder'
<1>1. Rest' \subseteq Rest
  BY DEF Rest
<1>2. Follow(body', ring') /\ Follow(body', outgoing') /\ Follow(ring', outgoing')
  BY DEF LineOrder, Follow
<1>3. QED
  BY <1>1, <1>2 DEF LineOrder

LEMMA LineOrderStep == TypeOK /\ LineOrder /\ [Next]_vars => LineOrder'
<1> SUFFICES ASSUME TypeOK, LineOrder, [Next]_vars PROVE LineOrder'
  OBVIOUS
<1>0. /\ body \in Seq(Bytes) /\ ring \in Seq(Bytes) /\ outgoing \in Seq(Bytes)
      /\ relayed \in Seq(Nat) /\ frames \in Nat /\ BodyLen \in Nat \ {0}
      /\ Ordered(body) /\ Ordered(ring) /\ Ordered(outgoing)
  BY UartAssumption DEF TypeOK, LineOrder
<1>1. CASE \E b \in Bodies : Send(b)
  <2>1. PICK b \in Bodies : Send(b)
    BY <1>1
  <2> DEFINE f == frames + 1
             new == Frame(f, b)
  <2>2. f \in Nat /\ Ordered(new) /\ (\A c \in ToSet(new) : c.frame = f)
    BY <1>0, OrderOfFrame
  <2> HIDE DEF new
  <2>3. /\ frames' = f /\ outgoing' = new
        /\ UNCHANGED <<ring, body, relayed>>
    BY <2>1 DEF Send, results, new
  <2>4. \A c \in ToSet(body) \cup ToSet(ring) : c.frame < f
    <3>1. \A c \in ToSet(body) \cup ToSet(ring) : c.frame <= frames /\ c.frame \in Nat
      BY <1>0, FieldsOfBytes DEF LineOrder, Rest
    <3>2. QED
      BY <1>0, <3>1
  <2>5. Follow(body, new) /\ Follow(ring, new)
    BY <2>2, <2>4 DEF Follow, Precedes
  <2>6. \A c \in Rest' : (c \in Rest \/ c.frame = f)
    BY <2>2, <2>3 DEF Rest
  <2>7. \A c \in Rest' : c.frame <= f /\ (c.place > 0 => c.frame > 0)
    <3> SUFFICES ASSUME NEW c \in Rest' PROVE c.frame <= f /\ (c.place > 0 => c.frame > 0)
      OBVIOUS
    <3>1. CASE c.frame = f
      BY <1>0, <3>1
    <3>2. CASE c \in Rest
      <4>1. c.frame \in Nat
        BY <1>0, <3>2, FieldsOfBytes DEF Rest
      <4>2. QED
        BY <1>0, <3>2, <4>1 DEF LineOrder
    <3>3. QED
      BY <2>6, <3>1, <3>2
  <2>8. \A k \in 1..Len(relayed) :
          relayed[k] \in 1..f /\ \A c \in Rest' : relayed[k] < c.frame
    <3> SUFFICES ASSUME NEW k \in 1..Len(relayed)
                 PROVE  relayed[k] \in 1..f /\ \A c \in Rest' : relayed[k] < c.frame
      OBVIOUS
    <3>1. relayed[k] \in 1..frames /\ \A c \in Rest : relayed[k] < c.frame
      BY DEF LineOrder
    <3>2. relayed[k] < f /\ relayed[k] \in 1..f
      BY <1>0, <3>1
    <3>3. QED
      BY <2>6, <3>1, <3>2
  <2>9. QED
    BY <2>2, <2>3, <2>5, <2>7, <2>8 DEF LineOrder
<1>2. CASE Arrive
  <2> DEFINE e == Head(outgoing)
  <2>1. /\ outgoing # << >> /\ outgoing' = Tail(outgoing) /\ ring' = Append(ring, e)
        /\ UNCHANGED <<frames, body, relayed>>
    BY <1>2 DEF Arrive, results
  <2>2. /\ e \in Bytes /\ e \in ToSet(outgoing) /\ ToSet(outgoing') \subseteq ToSet(outgoing)
    BY <1>0, <2>1, ToSetOfTail
  <2>3. Ordered(outgoing') /\ \A c \in ToSet(outgoing') : Precedes(e, c)
    BY <1>0, <2>1, OrderOfTail
  <2> HIDE DEF e
  <2>4. ToSet(ring') = ToSet(ring) \cup {e}
    BY <1>0, <2>1, <2>2, ToSetOfAppend
  <2>5. Ordered(ring')
    BY <1>0, <2>1, <2>2, OrderOfAppend DEF LineOrder, Follow
  <2>6. Follow(body, ring') /\ Follow(body, outgoing') /\ Follow(ring', outgoing')
    BY <2>2, <2>3, <2>4 DEF LineOrder, Follow
  <2>7. Rest' \subseteq Rest
    BY <2>1, <2>2, <2>4 DEF Rest
  <2>8. QED
    BY <2>1, <2>3, <2>5, <2>6, <2>7 DEF LineOrder
<1>3. CASE Lose
  BY <1>0, <1>3, ToSetOfTail, OrderOfTail, Fewer DEF Lose, results
<1>4. CASE ScanByte
  BY <1>0, <1>4, ToSetOfTail, OrderOfTail, Fewer DEF ScanByte, results
<1>5. CASE GiveUp
  BY <1>0, <1>5, ToSetOfEmpty, OrderOfEmpty, Fewer DEF GiveUp, ScanAnew, radio, results
<1>6. CASE ReadByte
  <2> DEFINE e == Head(ring)
             bytes == Append(body, e)
  <2>1. /\ ring # << >> /\ ring' = Tail(ring) /\ UNCHANGED <<frames, outgoing>>
        /\ IF Len(bytes) = BodyLen
           THEN Handle(bytes)
           ELSE body' = bytes /\ UNCHANGED relayed
    BY <1>6 DEF ReadByte, results
  <2>2. e \in Bytes /\ e \in ToSet(ring) /\ ToSet(ring') \subseteq ToSet(ring)
    BY <1>0, <2>1, ToSetOfTail
  <2>3. Ordered(ring') /\ \A c \in ToSet(ring') : Precedes(e, c)
    BY <1>0, <2>1, OrderOfTail
  <2> HIDE DEF e
  <2>4. /\ bytes \in Seq(Bytes) /\ Len(bytes) = Len(body) + 1
        /\ ToSet(bytes) = ToSet(body) \cup {e}
    BY <1>0, <2>2, ToSetOfAppend
  <2>5. Ordered(bytes) /\ Follow(bytes, ring') /\ Follow(bytes, outgoing)
    BY <1>0, <2>2, <2>3, <2>4, OrderOfAppend DEF LineOrder, Follow
  <2>6. Follow(ring', outgoing)
    BY <2>2 DEF LineOrder, Follow
  <2>7. bytes[Len(bytes)] = e
    BY <1>0, <2>2, <2>4, AppendProperties, LenProperties
  <2> HIDE DEF bytes
  <2>8. CASE Len(bytes) # BodyLen
    <3>1. body' = bytes /\ UNCHANGED <<relayed, frames, outgoing>>
      BY <2>1, <2>8
    <3>2. Rest' \subseteq Rest
      BY <2>2, <2>4, <3>1 DEF Rest
    <3>3. QED
      BY <1>0, <2>3, <2>5, <2>6, <3>1, <3>2 DEF LineOrder
  <2>9. CASE Len(bytes) = BodyLen
    <3>1. body' = << >> /\ (IF IsPacket(bytes) THEN Relay(bytes) ELSE UNCHANGED relayed)
      BY <2>1, <2>9 DEF Handle, ScanAnew, results
    <3>2. ToSet(body') = {} /\ Ordered(body')
      BY <3>1, ToSetOfEmpty, OrderOfEmpty
    <3>3. CASE relayed' = relayed
      BY <1>0, <2>1, <2>2, <2>3, <3>2, <3>3, Fewer
    <3>4. CASE IsPacket(bytes) /\ relayed' = Append(relayed, FrameOf(bytes))
      <4>1. e.place = FrameLen /\ FrameOf(bytes) = e.frame
        <5>1. BodyLen \in 1..BodyLen /\ 1 \in 1..BodyLen /\ FrameLen = Len(Marker) + BodyLen
          BY <1>0, Lengths
        <5>2. QED
          BY <2>7, <2>9, <3>4, <5>1 DEF IsPacket, FrameOf
      <4>2. e \in Rest /\ e.frame \in Nat /\ e.frame \in 1..frames
        <5>1. e \in Rest /\ e.frame \in Nat
          BY <2>2, FieldsOfByte DEF Rest
        <5>2. e.frame <= frames /\ (e.place > 0 => e.frame > 0)
          BY <5>1 DEF LineOrder
        <5>3. e.place > 0
          BY <4>1, Lengths
        <5>4. QED
          BY <1>0, <5>1, <5>2, <5>3
      <4>3. \A c \in Rest' : e.frame < c.frame
        <5> SUFFICES ASSUME NEW c \in Rest' PROVE e.frame < c.frame
          OBVIOUS
        <5>1. c \in ToSet(ring') \cup ToSet(outgoing)
          BY <2>1, <3>2 DEF Rest
        <5>2. Precedes(e, c)
          BY <2>2, <2>3, <5>1 DEF LineOrder, Follow
        <5>3. c.place \in 0..FrameLen /\ FrameLen \in Nat /\ FrameLen > 0
          BY <1>0, <2>2, <5>1, FieldsOfBytes, Lengths
        <5>4. QED
          BY <1>0, <4>1, <5>2, <5>3 DEF Precedes
      <4>4. /\ Len(relayed) \in Nat /\ Len(relayed') = Len(relayed) + 1
            /\ \A k \in 1..Len(relayed) : relayed'[k] = relayed[k]
            /\ relayed'[Len(relayed) + 1] = e.frame
        BY <1>0, <3>4, <4>1, <4>2, AppendProperties, LenProperties
      <4>5. Rest' \subseteq Rest
        BY <2>1, <2>2, <3>2 DEF Rest
      <4>6. \A k \in 1..Len(relayed) : relayed[k] \in 1..frames /\ relayed[k] < e.frame
        BY <4>2 DEF LineOrder
      <4>7. Fifo!Increasing(relayed')
        <5> SUFFICES ASSUME NEW i \in 1..Len(relayed'), NEW j \in 1..Len(relayed'), i < j
                     PROVE  relayed'[i] < relayed'[j]
          BY DEF Fifo!Increasing
        <5>1. i \in 1..Len(relayed)
          BY <4>4
        <5>2. CASE j \in 1..Len(relayed)
          BY <4>4, <5>1, <5>2 DEF LineOrder, Fifo!Increasing
        <5>3. CASE j = Len(relayed) + 1
          BY <4>4, <4>6, <5>1, <5>3
        <5>4. QED
          BY <4>4, <5>2, <5>3
      <4>8. ASSUME NEW k \in 1..Len(relayed')
            PROVE  relayed'[k] \in 1..frames /\ \A b \in Rest' : relayed'[k] < b.frame
        <5>1. CASE k \in 1..Len(relayed)
          BY <4>4, <4>5, <5>1 DEF LineOrder
        <5>2. CASE k = Len(relayed) + 1
          BY <4>2, <4>3, <4>4, <5>2
        <5>3. QED
          BY <4>4, <5>1, <5>2
      <4>9. Follow(body', ring') /\ Follow(body', outgoing)
        BY <3>2 DEF Follow
      <4>10. \A b \in Rest' : b.frame <= frames /\ (b.place > 0 => b.frame > 0)
        BY <4>5 DEF LineOrder
      <4>11. QED
        BY <1>0, <2>1, <2>3, <2>6, <3>2, <4>7, <4>8, <4>9, <4>10 DEF LineOrder
    <3>5. QED
      BY <3>1, <3>3, <3>4 DEF Relay
  <2>10. QED
    BY <2>8, <2>9
<1>7. CASE ReadOn \/ ReadTimesOut \/ Tick \/ UNCHANGED vars
  <2>1. UNCHANGED <<frames, relayed, body, ring, outgoing>>
    BY <1>7 DEF ReadOn, ReadTimesOut, Tick, vars, radio, results
  <2>2. QED
    BY <1>0, <2>1, Fewer
<1>8. QED
  BY <1>1, <1>2, <1>3, <1>4, <1>5, <1>6, <1>7 DEF Next

-----------------------------------------------------------------------------
(* The refinement.                                                         *)

LEMMA FifoStep ==
    TypeOK /\ LineOrder' /\ [Next]_vars => [Fifo!Next]_Fifo!vars
<1> SUFFICES ASSUME TypeOK, LineOrder', [Next]_vars PROVE [Fifo!Next]_Fifo!vars
  OBVIOUS
<1>1. CASE \E b \in Bodies : Send(b)
  <2>1. Fifo!Send
    BY <1>1 DEF Send, Fifo!Send, results
  <2>2. QED
    BY <2>1 DEF Fifo!Next
<1>2. CASE ReadByte
  <2>1. frames' = frames
    BY <1>2 DEF ReadByte
  <2>2. relayed' = relayed \/ \E f \in Nat : relayed' = Append(relayed, f)
    <3> DEFINE bytes == Append(body, Head(ring))
    <3>1. bytes \in Seq(Bytes)
      BY <1>2, ToSetOfTail, ToSetOfAppend DEF ReadByte, TypeOK
    <3>2. Len(bytes) = BodyLen => FrameOf(bytes) \in Nat
      BY <3>1, FrameOfBytes
    <3>3. relayed' = relayed \/ (Len(bytes) = BodyLen /\ relayed' = Append(relayed, FrameOf(bytes)))
      BY <1>2 DEF ReadByte, Handle, Relay, results
    <3>4. QED
      BY <3>2, <3>3
  <2>3. Fifo!Extends(relayed', relayed)
    <3>1. relayed \in Seq(Nat) /\ Len(relayed) \in Nat
      BY LenProperties DEF TypeOK
    <3>2. CASE relayed' = relayed
      BY <3>1, <3>2 DEF Fifo!Extends
    <3>3. ASSUME NEW f \in Nat, relayed' = Append(relayed, f)
          PROVE  Fifo!Extends(relayed', relayed)
      BY <3>1, <3>3, AppendProperties DEF Fifo!Extends
    <3>4. QED
      BY <2>2, <3>2, <3>3
  <2>4. Fifo!Deliver
    BY <2>1, <2>3 DEF Fifo!Deliver, LineOrder
  <2>5. QED
    BY <2>4 DEF Fifo!Next
<1>3. CASE \/ Arrive \/ Lose \/ ScanByte \/ ReadOn \/ GiveUp \/ ReadTimesOut \/ Tick
           \/ UNCHANGED vars
  BY <1>3
     DEF Arrive, Lose, ScanByte, ReadOn, GiveUp, ReadTimesOut, Tick, vars, radio, results,
         Fifo!vars
<1>4. QED
  BY <1>1, <1>2, <1>3 DEF Next

\* Whatever is lost on the air, and however often the scanner locks on bytes that
\* are not a marker, the RSU relays what was sent, once and in order.
THEOREM ImplementsLossyFifo == Spec => FifoSpec
<1>1. Init => Fifo!Init
  BY DEF Init, Fifo!Init
<1>2. Spec => []LineOrder
  BY LineOrderInit, LineOrderStep, TypeCorrect, PTL DEF Spec
<1>3. QED
  BY <1>1, <1>2, FifoStep, TypeCorrect, PTL DEF Spec, FifoSpec, Fifo!Spec
-----------------------------------------------------------------------------
(* A loss is contained.                                                    *)

\* A packet, with the marker before it and the marker of the next frame.
Stream(b) == Marker \o b \o Marker

\* The bytes between the OBU and the scanner, and the frames that are whole.
Line == ring \o outgoing
OnLine(f) == \E i \in 1..Len(Line) : Line[i].frame = f
Whole == {f \in 0..frames : f \notin torn}

\* What is left of frame f on the line l is its end, without a hole, and nothing
\* of the frame comes after it.
Unbroken(l, f, b) ==
    \A i \in 1..Len(l) : l[i].frame = f =>
        /\ l[i].place \in 1..FrameLen
        /\ l[i].value = Stream(b)[l[i].place]
        /\ IF l[i].place < FrameLen
           THEN i < Len(l) /\ l[i + 1].frame = f /\ l[i + 1].place = l[i].place + 1
           ELSE \A j \in (i + 1)..Len(l) : l[j].frame # f
        /\ i > 1 /\ l[i].place > 1 => l[i - 1].frame = f

\* "sent" are the packets the OBU has sent.
LineWhole(sent) ==
    /\ \A i \in 1..Len(outgoing) : outgoing[i].frame = frames
    /\ \A i \in 1..Len(Line) :
         /\ Line[i].frame \in 0..frames /\ (Line[i].frame = 0 => 0 \in torn)
         /\ \A j \in 1..Len(Line) : i < j => Line[i].frame <= Line[j].frame
    /\ \A f \in Whole \ {0} :
         /\ Unbroken(Line, f, sent[f])
         /\ Line # << >> /\ Line[1].frame < f => OnLine(f)

\* The last byte the scanner took was byte q of the stream of b, and its window
\* holds that byte and those before it.
Hears(b, q) ==
    \A i \in 1..Len(window) :
        q - Len(window) + i >= 1 => window[i].value = Stream(b)[q - Len(window) + i]

\* k bytes into a frame that comes whole the task scans, past its marker or not
\* yet at the end of it, or it reads what will end before the frame does.
Within(b, k) ==
    \/ pc = "scan" /\ Hears(b, k) /\ ~(Len(window) = k /\ k = Len(Marker))
    \/ pc # "scan" /\ FrameLen - k >= BodyLen - Len(body)

\* Behind a whole frame, or a quiet start, the task scans.
Behind(sent, f) ==
    IF f = 0 THEN pc = "scan" /\ window = << >> ELSE Within(sent[f], FrameLen)

\* k bytes into frame f, which comes whole behind a whole one, the task has k
\* bytes of the marker or has read on from there.
Reads(f, k) ==
    \/ /\ k < Len(Marker)
       /\ pc = "scan" /\ k <= Len(window)
       /\ \E b \in Bodies : Hears(b, FrameLen + k)
    \/ /\ k = Len(Marker) + Len(body)
       /\ pc # "scan"
       /\ window # << >> /\ window[Len(window)].frame = f
       /\ \A i \in 1..Len(body) : body[i].frame = f /\ body[i].place = Len(Marker) + i

\* Where the task is when frame f heads the line, k bytes of it taken.
Meets(sent, f, k) ==
    /\ k > 0 => Within(sent[f], k)
    /\ f - 1 \in Whole /\ k = 0 => Behind(sent, f - 1)
    /\ f - 1 \in Whole /\ k > 0 => Reads(f, k)

Receiver(sent) ==
    /\ pc = "scan" => body = << >>
    /\ \A f \in Whole :
         /\ Line = << >> /\ f = frames => Behind(sent, f)
         /\ \A k \in 0..(FrameLen - 1) :
              Line # << >> /\ Line[1].frame = f /\ Line[1].place = k + 1
                => Meets(sent, f, k)
         /\ f # 0 /\ f - 1 \in Whole /\ ~OnLine(f) => f \in ToSet(packets)

Contained == \E sent \in [1..frames -> Bodies] : LineWhole(sent) /\ Receiver(sent)

LEMMA StreamParts ==
    ASSUME NEW b \in Bodies
    PROVE  /\ \A i \in 1..FrameLen : Stream(b)[i] = (Marker \o b)[i]
           /\ \A i \in 1..Len(Marker) :
                Stream(b)[i] = Marker[i] /\ Stream(b)[FrameLen + i] = Marker[i]
<1>1. /\ Len(Marker) \in Nat /\ FrameLen \in Nat /\ FrameLen >= Len(Marker)
      /\ Marker \in Seq(0..255) /\ b \in Seq(0..255) /\ Len(b) = BodyLen
      /\ BodyLen \in Nat /\ FrameLen = Len(Marker) + BodyLen
  BY Lengths
<1> DEFINE x == Marker \o b
<1>2. /\ x \in Seq(0..255) /\ Len(x) = FrameLen
      /\ \A i \in 1..FrameLen :
            x[i] = IF i <= Len(Marker) THEN Marker[i] ELSE b[i - Len(Marker)]
  <2>1. /\ x \in Seq(0..255) /\ Len(x) = Len(Marker) + Len(b)
        /\ \A i \in 1..Len(Marker) + Len(b) :
              x[i] = IF i <= Len(Marker) THEN Marker[i] ELSE b[i - Len(Marker)]
    <3>1. Marker \in Seq(0..255) /\ b \in Seq(0..255)
      BY <1>1
    <3>2. x \in Seq(0..255)
      BY <3>1, ConcatProperties
    <3>3. Len(x) = Len(Marker) + Len(b)
      BY <3>1, ConcatProperties
    <3>4. \A i \in 1..Len(Marker) + Len(b) :
             x[i] = IF i <= Len(Marker) THEN Marker[i] ELSE b[i - Len(Marker)]
      BY <3>1, ConcatProperties
    <3>5. QED
      BY <3>2, <3>3, <3>4
  <2>2. Len(Marker) + Len(b) = FrameLen
    BY <1>1
  <2> HIDE DEF x
  <2>3. QED
    BY <2>1, <2>2
<1>3. \A i \in 1..FrameLen + Len(Marker) :
         Stream(b)[i] = IF i <= FrameLen THEN x[i] ELSE Marker[i - FrameLen]
  <2> HIDE DEF x
  <2>1. \A i \in 1..Len(x) + Len(Marker) :
           (x \o Marker)[i] = IF i <= Len(x) THEN x[i] ELSE Marker[i - Len(x)]
    BY <1>1, <1>2, ConcatProperties
  <2>2. Stream(b) = x \o Marker
    BY DEF Stream, x
  <2>3. QED
    BY <1>2, <2>1, <2>2
<1> HIDE DEF x
<1>4. \A i \in 1..FrameLen : Stream(b)[i] = x[i]
  BY <1>1, <1>3
<1>5. ASSUME NEW i \in 1..Len(Marker)
      PROVE  Stream(b)[i] = Marker[i] /\ Stream(b)[FrameLen + i] = Marker[i]
  <2>1. i \in 1..FrameLen /\ FrameLen + i \in 1..FrameLen + Len(Marker)
        /\ ~(FrameLen + i <= FrameLen) /\ FrameLen + i - FrameLen = i
    BY <1>1
  <2>2. QED
    BY <1>2, <1>3, <2>1
<1>6. QED
  BY <1>4, <1>5 DEF x

\* The window shows the marker.
LEMMA FoundIs ==
    ASSUME window' \in Seq(Bytes)
    PROVE  Found <=> /\ Len(window') = Len(Marker)
                     /\ \A i \in 1..Len(Marker) : window'[i].value = Marker[i]
<1> DEFINE v == [i \in 1..Len(window') |-> window'[i].value]
<1>1. Len(window') \in Nat /\ Marker \in Seq(0..255) /\ Len(Marker) \in Nat
  BY Lengths, LenProperties
<1>2. \A i \in 1..Len(window') : window'[i].value \in 0..255
  <2>1. \A i \in 1..Len(window') : window'[i] \in Bytes
    BY ElementOfSeq
  <2>2. QED
    BY <2>1 DEF Bytes
<1>3. v \in Seq(0..255) /\ Len(v) = Len(window')
  BY <1>1, <1>2
<1>4. Found <=> v = Marker
  BY DEF Found, Values
<1>5. v = Marker => /\ Len(window') = Len(Marker)
                    /\ \A i \in 1..Len(Marker) : window'[i].value = Marker[i]
  <2>1. \A i \in 1..Len(window') : v[i] = window'[i].value
    OBVIOUS
  <2> HIDE DEF v
  <2>2. QED
    BY <1>3, <2>1
<1>6. /\ Len(window') = Len(Marker)
      /\ \A i \in 1..Len(Marker) : window'[i].value = Marker[i]
      => v = Marker
  <2> SUFFICES ASSUME Len(window') = Len(Marker),
                      \A i \in 1..Len(Marker) : window'[i].value = Marker[i]
               PROVE  v = Marker
    OBVIOUS
  <2>1. \A i \in 1..Len(v) : v[i] = Marker[i]
    BY <1>3
  <2> HIDE DEF v
  <2>2. QED
    BY <1>1, <1>3, <2>1, SeqEqual
<1>7. QED
  BY <1>4, <1>5, <1>6

\* One byte through the window.
LEMMA ShiftedWindow ==
    ASSUME TypeOK, ScanByte, Marker # << >>
    PROVE  /\ ring # << >> /\ pc = "scan"
           /\ Len(window) \in 0..Len(Marker) /\ Len(window') \in 1..Len(Marker)
           /\ Len(window') = IF Len(window) < Len(Marker) THEN Len(window) + 1
                                                           ELSE Len(window)
           /\ window'[Len(window')] = Head(ring)
           /\ \A i \in 1..(Len(window') - 1) :
                window'[i] = window[Len(window) - Len(window') + 1 + i]
           /\ pc' = IF Found THEN "check" ELSE "scan"
           /\ Found <=> /\ Len(window') = Len(Marker)
                        /\ \A i \in 1..Len(Marker) : window'[i].value = Marker[i]
<1> DEFINE w == Append(window, Head(ring))
<1>1. /\ ring # << >> /\ pc = "scan" /\ Head(ring) \in Bytes
      /\ window' = IF Len(w) > Len(Marker) THEN Tail(w) ELSE w
      /\ pc' = IF Found THEN "check" ELSE "scan"
  BY ToSetOfTail DEF ScanByte, Shifted, TypeOK
<1>2. /\ window \in Seq(Bytes) /\ Len(window) \in Nat /\ Len(window) <= Len(Marker)
      /\ Len(Marker) \in Nat /\ Len(Marker) >= 1
  BY Lengths, EmptySeq, LenProperties DEF TypeOK
<1>3. /\ w \in Seq(Bytes) /\ Len(w) = Len(window) + 1
      /\ \A i \in 1..Len(window) : w[i] = window[i]
      /\ w[Len(window) + 1] = Head(ring)
  BY <1>1, <1>2, AppendProperties
<1> HIDE DEF w
<1>4. w # << >>
  BY <1>2, <1>3, EmptySeq
<1>5. /\ Tail(w) \in Seq(Bytes) /\ Len(Tail(w)) = Len(window)
      /\ \A i \in 1..Len(window) : Tail(w)[i] = w[i + 1]
  BY <1>2, <1>3, <1>4, HeadTailProperties
<1> DEFINE Longer ==
              /\ window' \in Seq(Bytes) /\ Len(window') \in 1..Len(Marker)
              /\ Len(window') = IF Len(window) < Len(Marker) THEN Len(window) + 1
                                                              ELSE Len(window)
              /\ window'[Len(window')] = Head(ring)
              /\ \A i \in 1..(Len(window') - 1) :
                    window'[i] = window[Len(window) - Len(window') + 1 + i]
<1>6. ASSUME Len(window) < Len(Marker) PROVE Longer
  <2>1. window' = w /\ Len(window') = Len(window) + 1
    BY <1>1, <1>2, <1>3, <1>6
  <2>2. \A i \in 1..(Len(window') - 1) :
           i = Len(window) - Len(window') + 1 + i /\ i \in 1..Len(window)
    BY <1>2, <2>1
  <2>3. QED
    BY <1>2, <1>3, <1>6, <2>1, <2>2
<1>7. ASSUME ~(Len(window) < Len(Marker)) PROVE Longer
  <2>1. window' = Tail(w) /\ Len(window') = Len(window) /\ Len(window) = Len(Marker)
    BY <1>1, <1>2, <1>3, <1>5, <1>7
  <2>2. window' \in Seq(Bytes) /\ Len(window') \in 1..Len(Marker)
    BY <1>2, <1>5, <2>1
  <2>3. window'[Len(window')] = Head(ring)
    <3>1. Len(window) \in 1..Len(window)
      BY <1>2, <2>1
    <3>2. QED
      BY <1>3, <1>5, <2>1, <3>1
  <2>4. ASSUME NEW i \in 1..(Len(window') - 1)
        PROVE  window'[i] = window[Len(window) - Len(window') + 1 + i]
    <3>1. Len(window') = Len(window) /\ Len(window) \in Nat
      BY <1>2, <2>1
    <3>2. i \in Int /\ i >= 1 /\ i + 1 <= Len(window)
      BY <3>1
    <3>3. i \in 1..Len(window) /\ i + 1 \in 1..Len(window)
      BY <3>1, <3>2
    <3>4. Len(window) - Len(window') + 1 + i = i + 1
      BY <3>1, <3>2
    <3>5. QED
      BY <1>3, <1>5, <2>1, <3>3, <3>4
  <2>5. QED
    BY <1>7, <2>1, <2>2, <2>3, <2>4
<1>8. Longer
  BY <1>6, <1>7
<1>9. Len(window) \in 0..Len(Marker)
  BY <1>2
<1>10. Found <=> /\ Len(window') = Len(Marker)
                 /\ \A i \in 1..Len(Marker) : window'[i].value = Marker[i]
  BY <1>8, FoundIs
<1>11. QED
  BY <1>1, <1>8, <1>9, <1>10


\* A byte of the stream is heard as such...
LEMMA HearsOn ==
    ASSUME TypeOK, ScanByte, Marker # << >>, NEW b, NEW q \in Nat,
           q = 0 \/ Hears(b, q), Head(ring).value = Stream(b)[q + 1]
    PROVE  Hears(b, q + 1)'
<1> DEFINE w == Len(window)
           x == Len(window')
<1>1. /\ w \in Nat /\ x \in Nat /\ x >= 1 /\ x <= w + 1 /\ w <= x
      /\ window'[x] = Head(ring)
      /\ \A i \in 1..(x - 1) : window'[i] = window[w - x + 1 + i]
  BY ShiftedWindow
<1>2. q > 0 => \A i \in 1..w : q - w + i >= 1 => window[i].value = Stream(b)[q - w + i]
  BY DEF Hears
<1> HIDE DEF w, x
<1>3. ASSUME NEW i \in 1..x, (q + 1) - x + i >= 1
      PROVE  window'[i].value = Stream(b)[(q + 1) - x + i]
  <2>1. CASE i = x
    <3>1. (q + 1) - x + i = q + 1
      BY <1>1, <2>1
    <3>2. QED
      BY <1>1, <2>1, <3>1
  <2>2. CASE i # x
    <3> DEFINE j == w - x + 1 + i
    <3>1. i \in 1..(x - 1) /\ j \in 1..w /\ q > 0
          /\ q - w + j = (q + 1) - x + i /\ q - w + j >= 1
      BY <1>1, <1>3, <2>2
    <3>2. window'[i] = window[j]
      BY <1>1, <3>1
    <3> HIDE DEF j
    <3>3. window[j].value = Stream(b)[q - w + j]
      BY <1>2, <3>1
    <3>4. QED
      BY <3>1, <3>2, <3>3
  <2>3. QED
    BY <2>1, <2>2
<1>4. QED
  BY <1>3 DEF Hears, x

\* ... and the marker is found where it was sent, and nowhere else.
LEMMA FoundWhere ==
    ASSUME TypeOK, ScanByte, MarkerApart, NEW b \in Bodies,
           NEW q \in 1..(FrameLen + Len(Marker)), Hears(b, q)'
    PROVE  /\ Found => /\ Len(window') = Len(Marker)
                       /\ q <= Len(Marker) \/ q = FrameLen + Len(Marker)
           /\ Len(window') = Len(Marker) /\ q \in {Len(Marker), FrameLen + Len(Marker)}
                => Found
<1> DEFINE m == Len(Marker)
<1>1. /\ m \in Nat /\ FrameLen \in Nat /\ m >= 1 /\ q \in Nat
      /\ \A i \in 1..m : Stream(b)[i] = Marker[i] /\ Stream(b)[FrameLen + i] = Marker[i]
  BY Lengths, EmptySeq, StreamParts DEF MarkerApart
<1>2. \A i \in 2..FrameLen : \E j \in 1..m : Stream(b)[i + j - 1] # Marker[j]
  BY DEF MarkerApart, Stream
<1>3. Found <=> Len(window') = m /\ \A i \in 1..m : window'[i].value = Marker[i]
  BY ShiftedWindow DEF MarkerApart
<1>4. Len(window') = m =>
        \A i \in 1..m : q - m + i >= 1 => window'[i].value = Stream(b)[q - m + i]
  BY DEF Hears
<1> HIDE DEF m
<1>5. ASSUME Found PROVE q <= m \/ q = FrameLen + m
  <2> SUFFICES ASSUME ~(q <= m), q # FrameLen + m PROVE FALSE
    OBVIOUS
  <2> DEFINE s == q - m + 1
  <2>1. s \in 2..FrameLen
    BY <1>1 DEF m
  <2>2. PICK j \in 1..m : Stream(b)[s + j - 1] # Marker[j]
    BY <1>2, <2>1
  <2>3. s + j - 1 = q - m + j /\ q - m + j >= 1
    BY <1>1
  <2>4. window'[j].value = Stream(b)[q - m + j]
    BY <1>3, <1>4, <1>5, <2>3
  <2>5. QED
    BY <1>3, <1>5, <2>2, <2>3, <2>4
<1>6. ASSUME Len(window') = m, q \in {m, FrameLen + m} PROVE Found
  <2>1. \A i \in 1..m : q - m + i >= 1 /\ Stream(b)[q - m + i] = Marker[i]
    <3> SUFFICES ASSUME NEW i \in 1..m
                 PROVE  q - m + i >= 1 /\ Stream(b)[q - m + i] = Marker[i]
      OBVIOUS
    <3>1. CASE q = m
      <4>1. q - m + i = i
        BY <1>1, <3>1
      <4>2. QED
        BY <1>1, <4>1
    <3>2. CASE q = FrameLen + m
      <4>1. q - m + i = FrameLen + i /\ FrameLen + i >= 1
        BY <1>1, <3>2
      <4>2. QED
        BY <1>1, <4>1
    <3>3. QED
      BY <1>6, <3>1, <3>2
  <2>2. QED
    BY <1>3, <1>4, <1>6, <2>1
<1>7. QED
  BY <1>3, <1>5, <1>6 DEF m

\* The byte that the task reads.
LEMMA BodyGrows ==
    ASSUME TypeOK, ReadByte
    PROVE  /\ ring # << >> /\ pc = "read" /\ Len(body) \in 0..(BodyLen - 1)
           /\ Len(body) = BodyLen - 1 => Handle(Append(body, Head(ring)))
           /\ Len(body) # BodyLen - 1 =>
                /\ body' = Append(body, Head(ring)) /\ pc' \in {"read", "check"}
                /\ UNCHANGED <<window, packets>>
           /\ LET x == Append(body, Head(ring))
              IN  /\ x \in Seq(Bytes) /\ Len(x) = Len(body) + 1
                  /\ \A i \in 1..Len(body) : x[i] = body[i]
                  /\ x[Len(body) + 1] = Head(ring)
<1> DEFINE x == Append(body, Head(ring))
<1>1. /\ ring # << >> /\ pc = "read" /\ Head(ring) \in Bytes
      /\ IF Len(x) = BodyLen
         THEN Handle(x)
         ELSE body' = x /\ pc' \in {"read", "check"} /\ UNCHANGED <<window, packets>>
  BY ToSetOfTail DEF ReadByte, TypeOK, results
<1>2. body \in Seq(Bytes) /\ Len(body) \in 0..(BodyLen - 1) /\ BodyLen \in Nat
  BY Lengths, LenProperties DEF TypeOK
<1>3. /\ x \in Seq(Bytes) /\ Len(x) = Len(body) + 1
      /\ \A i \in 1..Len(body) : x[i] = body[i]
      /\ x[Len(body) + 1] = Head(ring)
  BY <1>1, <1>2, AppendProperties
<1> HIDE DEF x
<1>4. Len(x) = BodyLen <=> Len(body) = BodyLen - 1
  BY <1>2, <1>3
<1>5. QED
  BY <1>1, <1>2, <1>3, <1>4 DEF x

LEMMA WithinOn ==
    ASSUME TypeOK, ScanByte \/ ReadByte, MarkerApart,
           NEW b \in Bodies, NEW k \in 0..(FrameLen - 1),
           k = 0 \/ Within(b, k), Head(ring).value = Stream(b)[k + 1]
    PROVE  Within(b, k + 1)'
<1>0. /\ Len(Marker) \in Nat /\ BodyLen \in Nat \ {0} /\ FrameLen = Len(Marker) + BodyLen
      /\ Len(body) \in Nat /\ k \in Nat /\ k + 1 <= FrameLen /\ Marker # << >>
      /\ Len(Marker) >= 1
  BY Lengths, LenProperties, EmptySeq DEF TypeOK, MarkerApart
<1>1. CASE ScanByte
  <2>1. pc = "scan" /\ body' = body /\ pc' = IF Found THEN "check" ELSE "scan"
    BY <1>0, <1>1, ShiftedWindow DEF ScanByte
  <2>2. Hears(b, k + 1)'
    BY <1>0, <1>1, <2>1, HearsOn DEF Within
  <2>3. k + 1 \in 1..(FrameLen + Len(Marker))
    BY <1>0
  <2>4. CASE Found
    <3>1. k + 1 <= Len(Marker) \/ k + 1 = FrameLen + Len(Marker)
      BY <1>1, <2>2, <2>3, <2>4, FoundWhere
    <3>2. FrameLen - (k + 1) >= BodyLen - Len(body')
      BY <1>0, <2>1, <3>1
    <3>3. QED
      BY <2>1, <2>4, <3>2 DEF Within
  <2>5. CASE ~Found
    <3>1. ~(Len(window') = k + 1 /\ k + 1 = Len(Marker))
      BY <1>1, <2>2, <2>3, <2>5, FoundWhere
    <3>2. QED
      BY <2>1, <2>2, <2>5, <3>1 DEF Within
  <2>6. QED
    BY <2>4, <2>5
<1>2. CASE ReadByte
  <2>1. CASE Len(body) = BodyLen - 1
    <3>1. pc' = "scan" /\ window' = << >> /\ Len(window') = 0
      BY <1>2, <2>1, BodyGrows, EmptySeq DEF Handle, ScanAnew
    <3>2. Hears(b, k + 1)' /\ Len(window') # k + 1
      BY <1>0, <3>1 DEF Hears
    <3>3. QED
      BY <3>1, <3>2 DEF Within
  <2>2. CASE Len(body) # BodyLen - 1
    <3>1. pc = "read" /\ pc' # "scan" /\ Len(body') = Len(body) + 1
      BY <1>2, <2>2, BodyGrows
    <3>2. FrameLen - (k + 1) >= BodyLen - Len(body')
      BY <1>0, <3>1 DEF Within
    <3>3. QED
      BY <3>1, <3>2 DEF Within
  <2>3. QED
    BY <2>1, <2>2
<1>3. QED
  BY <1>1, <1>2

LEMMA ReadsOn ==
    ASSUME TypeOK, ScanByte \/ ReadByte, MarkerApart, pc = "scan" => body = << >>,
           NEW f \in Nat \ {0}, NEW k \in 0..(FrameLen - 1), Reads(f, k),
           Head(ring).frame = f, Head(ring).place = k + 1,
           k < Len(Marker) => Head(ring).value = Marker[k + 1]
    PROVE  IF k + 1 = FrameLen THEN f \in ToSet(packets') ELSE Reads(f, k + 1)'
<1>0. /\ Len(Marker) \in Nat /\ BodyLen \in Nat \ {0} /\ FrameLen = Len(Marker) + BodyLen
      /\ Len(body) \in Nat /\ k \in Nat /\ k + 1 <= FrameLen /\ Marker # << >>
      /\ Len(Marker) >= 1 /\ FrameLen \in Nat
  BY Lengths, LenProperties, EmptySeq DEF TypeOK, MarkerApart
<1>1. CASE k < Len(Marker)
  <2>1. pc = "scan" /\ k <= Len(window) /\ body = << >>
        /\ \E b \in Bodies : Hears(b, FrameLen + k)
    BY <1>0, <1>1 DEF Reads
  <2>2. ScanByte
    BY <2>1 DEF ReadByte
  <2>3. PICK b \in Bodies : Hears(b, FrameLen + k)
    BY <2>1
  <2> DEFINE q == FrameLen + k
  <2>4. /\ q \in Nat /\ q + 1 = FrameLen + (k + 1) /\ k + 1 \in 1..Len(Marker)
        /\ q + 1 \in 1..(FrameLen + Len(Marker)) /\ ~(q + 1 <= Len(Marker))
    BY <1>0, <1>1
  <2>5. Head(ring).value = Stream(b)[q + 1]
    BY <1>1, <2>4, StreamParts
  <2>6. Hears(b, q + 1)'
    BY <1>0, <2>2, <2>3, <2>4, <2>5, HearsOn
  <2>7. /\ Found => q + 1 = FrameLen + Len(Marker)
        /\ Len(window') = Len(Marker) /\ q + 1 = FrameLen + Len(Marker) => Found
    BY <2>2, <2>4, <2>6, FoundWhere
  <2>8. /\ Len(window') \in 1..Len(Marker) /\ k + 1 <= Len(window')
        /\ window'[Len(window')] = Head(ring) /\ body' = << >>
        /\ pc' = IF Found THEN "check" ELSE "scan"
    <3>1. /\ Len(window) \in 0..Len(Marker) /\ Len(window') \in 1..Len(Marker)
          /\ Len(window') = IF Len(window) < Len(Marker) THEN Len(window) + 1
                                                          ELSE Len(window)
      BY <1>0, <2>2, ShiftedWindow
    <3>2. k + 1 <= Len(window')
      BY <1>0, <1>1, <2>1, <3>1
    <3>3. QED
      BY <1>0, <2>1, <2>2, <3>1, <3>2, ShiftedWindow DEF ScanByte
  <2>9. CASE k + 1 = Len(Marker)
    <3>1. Len(window') = Len(Marker) /\ q + 1 = FrameLen + Len(Marker)
      BY <1>0, <2>4, <2>8, <2>9
    <3>2. pc' = "check"
      BY <2>7, <2>8, <3>1
    <3>3. window' # << >> /\ window'[Len(window')].frame = f
      BY <2>8, EmptySeq
    <3>4. Len(body') = 0 /\ k + 1 = Len(Marker) + Len(body') /\ k + 1 # FrameLen
      BY <1>0, <2>8, <2>9, EmptySeq
    <3>5. QED
      BY <3>2, <3>3, <3>4 DEF Reads
  <2>10. CASE k + 1 # Len(Marker)
    <3>1. k + 1 < Len(Marker) /\ q + 1 # FrameLen + Len(Marker) /\ k + 1 # FrameLen
      BY <1>0, <1>1, <2>10
    <3>2. pc' = "scan"
      BY <2>7, <2>8, <3>1
    <3>3. Hears(b, FrameLen + (k + 1))'
      BY <2>4, <2>6
    <3>4. Reads(f, k + 1)'
      BY <2>8, <3>1, <3>2, <3>3 DEF Reads
    <3>5. QED
      BY <3>1, <3>4
  <2>11. QED
    BY <2>9, <2>10
<1>2. CASE ~(k < Len(Marker))
  <2>1. /\ k = Len(Marker) + Len(body) /\ pc # "scan"
        /\ window # << >> /\ window[Len(window)].frame = f
        /\ \A i \in 1..Len(body) : body[i].frame = f /\ body[i].place = Len(Marker) + i
    BY <1>2 DEF Reads
  <2>2. ReadByte
    BY <2>1 DEF ScanByte
  <2> DEFINE x == Append(body, Head(ring))
  <2>3. /\ pc = "read" /\ x \in Seq(Bytes) /\ Len(x) = Len(body) + 1
        /\ \A i \in 1..Len(body) : x[i] = body[i]
        /\ x[Len(body) + 1] = Head(ring)
        /\ Len(body) = BodyLen - 1 => Handle(x)
        /\ Len(body) # BodyLen - 1 => body' = x /\ pc' # "scan" /\ UNCHANGED window
    BY <2>2, BodyGrows
  <2> HIDE DEF x
  <2>4. \A i \in 1..Len(x) : x[i].frame = f /\ x[i].place = Len(Marker) + i
    <3>1. \A i \in 1..Len(x) : i \in 1..Len(body) \/ i = Len(body) + 1
      BY <1>0, <2>3
    <3>2. Len(Marker) + (Len(body) + 1) = k + 1
      BY <1>0, <2>1
    <3>3. QED
      BY <2>1, <2>3, <3>1, <3>2
  <2>5. CASE k + 1 = FrameLen
    <3>1. Len(body) = BodyLen - 1 /\ Len(x) = BodyLen /\ 1 \in 1..BodyLen
      BY <1>0, <2>1, <2>3, <2>5
    <3>2. IsPacket(x) /\ FrameOf(x) = f
      BY <2>4, <3>1 DEF IsPacket, FrameOf
    <3>3. packets' = Append(packets, f)
      BY <2>3, <3>1, <3>2 DEF Handle, Relay
    <3>4. packets \in Seq(Nat) /\ f \in Nat
      BY DEF TypeOK
    <3>5. f \in ToSet(packets')
      BY <3>3, <3>4, ToSetOfAppend
    <3>6. QED
      BY <2>5, <3>5
  <2>6. CASE k + 1 # FrameLen
    <3>1. Len(body) # BodyLen - 1 /\ k + 1 = Len(Marker) + Len(x)
      <4>1. k = Len(Marker) + Len(body) /\ Len(x) = Len(body) + 1
        BY <2>1, <2>3
      <4>2. QED
        BY <1>0, <2>6, <4>1
    <3>2. body' = x /\ pc' # "scan" /\ window' = window
      BY <2>3, <3>1
    <3>3. Reads(f, k + 1)'
      BY <2>1, <2>4, <3>1, <3>2 DEF Reads
    <3>4. QED
      BY <2>6, <3>3
  <2>7. QED
    BY <2>5, <2>6
<1>3. QED
  BY <1>1, <1>2

LEMMA LineIs ==
    ASSUME TypeOK
    PROVE  /\ Line \in Seq(Bytes) /\ Len(Line) \in Nat
           /\ Len(Line) = Len(ring) + Len(outgoing)
           /\ \A i \in 1..Len(ring) : Line[i] = ring[i]
           /\ \A i \in 1..Len(outgoing) : Line[Len(ring) + i] = outgoing[i]
           /\ Line = << >> <=> Len(Line) = 0
<1>1. ring \in Seq(Bytes) /\ outgoing \in Seq(Bytes) /\ Len(ring) \in Nat /\ Len(outgoing) \in Nat
  BY LenProperties DEF TypeOK
<1>2. /\ Line \in Seq(Bytes) /\ Len(Line) = Len(ring) + Len(outgoing)
      /\ \A i \in 1..Len(ring) + Len(outgoing) :
            Line[i] = IF i <= Len(ring) THEN ring[i] ELSE outgoing[i - Len(ring)]
  BY <1>1, ConcatProperties DEF Line
<1>3. Line = << >> <=> Len(Line) = 0
  BY <1>2, EmptySeq
<1>4. \A i \in 1..Len(ring) : Line[i] = ring[i]
  BY <1>1, <1>2
<1>5. ASSUME NEW i \in 1..Len(outgoing) PROVE Line[Len(ring) + i] = outgoing[i]
  <2>1. /\ Len(ring) + i \in 1..Len(ring) + Len(outgoing) /\ ~(Len(ring) + i <= Len(ring))
        /\ Len(ring) + i - Len(ring) = i
    BY <1>1
  <2>2. QED
    BY <1>2, <2>1
<1>6. QED
  BY <1>1, <1>2, <1>3, <1>4, <1>5

\* The task takes the first byte of the line.
LEMMA LineTail ==
    ASSUME TypeOK, ring # << >>, ring' = Tail(ring), outgoing' = outgoing
    PROVE  /\ Line # << >> /\ Head(ring) = Line[1] /\ Line' \in Seq(Bytes)
           /\ Len(Line') \in Nat /\ Len(Line) = Len(Line') + 1
           /\ \A i \in 1..Len(Line') : Line'[i] = Line[i + 1]
           /\ Line' = << >> <=> Len(Line') = 0
<1>1. /\ ring \in Seq(Bytes) /\ outgoing \in Seq(Bytes) /\ Len(ring) \in Nat
      /\ Len(outgoing) \in Nat /\ Len(ring) >= 1
  BY LenProperties, EmptySeq DEF TypeOK
<1>2. /\ ring' \in Seq(Bytes) /\ Len(ring') = Len(ring) - 1 /\ Head(ring) = ring[1]
      /\ \A i \in 1..Len(ring') : ring'[i] = ring[i + 1]
  BY <1>1, HeadTailProperties
<1>3. /\ Line' \in Seq(Bytes) /\ Len(Line') = Len(ring') + Len(outgoing')
      /\ \A i \in 1..Len(ring') + Len(outgoing') :
            Line'[i] = IF i <= Len(ring') THEN ring'[i] ELSE outgoing'[i - Len(ring')]
  BY <1>1, <1>2, ConcatProperties DEF Line
<1>4. Line' = << >> <=> Len(Line') = 0
  BY <1>3, EmptySeq
<1>5. ASSUME NEW i \in 1..Len(Line') PROVE Line'[i] = Line[i + 1]
  <2>1. CASE i <= Len(ring')
    <3>1. i + 1 \in 1..Len(ring)
      BY <1>1, <1>2, <2>1
    <3>2. QED
      BY <1>2, <1>3, <2>1, <3>1, LineIs
  <2>2. CASE ~(i <= Len(ring'))
    <3>1. /\ i - Len(ring') \in 1..Len(outgoing) /\ i \in 1..Len(ring') + Len(outgoing')
          /\ Len(ring) + (i - Len(ring')) = i + 1
      BY <1>1, <1>2, <1>3, <2>2
    <3>2. QED
      BY <1>3, <2>2, <3>1, LineIs
  <2>3. QED
    BY <2>1, <2>2
<1>6. /\ Len(Line') \in Nat /\ Len(Line) = Len(Line') + 1 /\ Line # << >>
      /\ Head(ring) = Line[1]
  BY <1>1, <1>2, <1>3, LineIs
<1>7. QED
  BY <1>3, <1>4, <1>5, <1>6

LEMMA TakeLine ==
    ASSUME TypeOK, NEW sent, LineWhole(sent), ring # << >>, ring' = Tail(ring),
           UNCHANGED <<outgoing, frames, torn>>
    PROVE  LineWhole(sent)'
<1> DEFINE n == Len(Line')
<1>1. /\ Len(Line) = n + 1 /\ n \in Nat
      /\ \A i \in 1..n : Line'[i] = Line[i + 1] /\ i + 1 \in 1..Len(Line)
      /\ Line' = << >> <=> n = 0
  BY LineTail
<1> HIDE DEF n
<1>2. Whole' = Whole
  BY DEF Whole
<1>3. ASSUME NEW i \in 1..n
      PROVE  /\ Line'[i].frame \in 0..frames /\ (Line'[i].frame = 0 => 0 \in torn)
             /\ \A j \in 1..n : i < j => Line'[i].frame <= Line'[j].frame
  <2>1. i + 1 \in 1..Len(Line) /\ Line'[i] = Line[i + 1]
    BY <1>1
  <2>2. /\ Line[i + 1].frame \in 0..frames /\ (Line[i + 1].frame = 0 => 0 \in torn)
        /\ \A j \in 1..Len(Line) : i + 1 < j => Line[i + 1].frame <= Line[j].frame
    BY <2>1 DEF LineWhole
  <2>3. \A j \in 1..n : i < j => i + 1 < j + 1
    BY <1>1
  <2>4. QED
    BY <1>1, <2>1, <2>2, <2>3
<1>4. ASSUME NEW f \in Whole \ {0} PROVE Unbroken(Line', f, sent[f])
  <2> SUFFICES ASSUME NEW i \in 1..n, Line'[i].frame = f
               PROVE  /\ Line'[i].place \in 1..FrameLen
                      /\ Line'[i].value = Stream(sent[f])[Line'[i].place]
                      /\ IF Line'[i].place < FrameLen
                         THEN i < n /\ Line'[i + 1].frame = f
                              /\ Line'[i + 1].place = Line'[i].place + 1
                         ELSE \A j \in (i + 1)..n : Line'[j].frame # f
                      /\ i > 1 /\ Line'[i].place > 1 => Line'[i - 1].frame = f
    BY DEF Unbroken, n
  <2>1. /\ Line[i + 1].frame = f /\ Line'[i] = Line[i + 1] /\ i + 1 \in 1..Len(Line)
    BY <1>1
  <2>2. /\ Line[i + 1].place \in 1..FrameLen
        /\ Line[i + 1].value = Stream(sent[f])[Line[i + 1].place]
        /\ IF Line[i + 1].place < FrameLen
           THEN /\ i + 1 < Len(Line) /\ Line[(i + 1) + 1].frame = f
                /\ Line[(i + 1) + 1].place = Line[i + 1].place + 1
           ELSE \A j \in ((i + 1) + 1)..Len(Line) : Line[j].frame # f
        /\ i + 1 > 1 /\ Line[i + 1].place > 1 => Line[(i + 1) - 1].frame = f
    BY <2>1 DEF LineWhole, Unbroken
  <2>3. CASE Line'[i].place < FrameLen
    <3>1. i < n /\ Line'[i + 1] = Line[(i + 1) + 1]
      BY <1>1, <2>1, <2>2, <2>3
    <3>2. QED
      BY <1>1, <2>1, <2>2, <2>3, <3>1
  <2>4. CASE ~(Line'[i].place < FrameLen)
    <3>1. \A j \in (i + 1)..n : Line'[j] = Line[j + 1] /\ j + 1 \in ((i + 1) + 1)..Len(Line)
      BY <1>1
    <3>2. QED
      BY <1>1, <2>1, <2>2, <2>4, <3>1
  <2>5. QED
    BY <2>3, <2>4
<1>5. ASSUME NEW f \in Whole \ {0}, n # 0, Line'[1].frame < f
      PROVE  \E i \in 1..n : Line'[i].frame = f
  <2>1. 1 \in 1..n /\ Line'[1] = Line[2] /\ 1 \in 1..Len(Line) /\ 2 \in 1..Len(Line)
    BY <1>1, <1>5
  <2>2. Line[1].frame <= Line[2].frame /\ Line[1].frame \in Int /\ Line[2].frame \in Int
    <3>1. frames \in Nat
      BY DEF TypeOK
    <3>2. Line[1].frame \in 0..frames /\ Line[2].frame \in 0..frames
      BY <2>1 DEF LineWhole
    <3>3. Line[1].frame <= Line[2].frame
      BY <2>1 DEF LineWhole
    <3>4. QED
      BY <3>1, <3>2, <3>3
  <2>3. f \in Nat /\ Line[1].frame < f /\ Line # << >>
    <3>1. f \in Nat
      BY DEF Whole, TypeOK
    <3>2. Line # << >>
      BY <2>1, EmptySeq
    <3>3. QED
      BY <1>5, <2>1, <2>2, <3>1, <3>2
  <2>4. PICK i \in 1..Len(Line) : Line[i].frame = f
    BY <2>3 DEF LineWhole, OnLine
  <2>5. i # 1
    BY <2>2, <2>3, <2>4
  <2>6. i - 1 \in 1..n /\ Line'[i - 1] = Line[i]
    BY <1>1, <2>4, <2>5
  <2>7. QED
    BY <2>4, <2>6
<1>6. QED
  BY <1>1, <1>2, <1>3, <1>4, <1>5 DEF LineWhole, OnLine, n

\* Behind a whole frame, the next byte of the line is the first of the next frame.
LEMMA NextFrame ==
    ASSUME TypeOK, NEW sent, LineWhole(sent), Len(Line) > 1,
           Line[2].frame \in Whole \ {0}
    PROVE  LET f == Line[2].frame
           IN  /\ Line[2].place \in 1..FrameLen
               /\ Line[2].place > 1 => /\ Line[1].frame = f
                                       /\ Line[1].place = Line[2].place - 1
               /\ Line[2].place = 1 /\ f - 1 \in Whole =>
                    /\ Line[1].frame = f - 1 /\ f - 1 # 0
                    /\ Line[1].place = FrameLen
<1> DEFINE f == Line[2].frame
           x == Line[1]
           y == Line[2]
<1>0. /\ Len(Line) \in Nat /\ 1 \in 1..Len(Line) /\ 2 \in 1..Len(Line) /\ Line # << >>
      /\ f \in Nat \ {0} /\ FrameLen \in Nat
  <2>1. Len(Line) \in Nat /\ (Line = << >> <=> Len(Line) = 0)
    BY LineIs
  <2>2. f \in Nat \ {0}
    BY DEF Whole, TypeOK
  <2>3. QED
    BY <2>1, <2>2, Lengths
<1>1. /\ y.place \in 1..FrameLen
      /\ y.place > 1 => x.frame = f
      /\ x.frame \in 0..frames /\ x.frame <= f /\ frames \in Nat
      /\ x.frame = 0 => 0 \in torn
  <2>1. Unbroken(Line, f, sent[f])
    BY DEF LineWhole
  <2>2. y.place \in 1..FrameLen /\ (y.place > 1 => x.frame = f)
    BY <1>0, <2>1 DEF Unbroken
  <2>3. /\ x.frame \in 0..frames /\ x.frame <= f /\ frames \in Nat
        /\ x.frame = 0 => 0 \in torn
    BY <1>0 DEF LineWhole, TypeOK
  <2>4. QED
    BY <2>2, <2>3
<1>2. ASSUME x.frame \in Whole \ {0}
      PROVE  /\ x.place \in 1..FrameLen
             /\ IF x.place < FrameLen THEN y.frame = x.frame /\ y.place = x.place + 1
                                      ELSE y.frame # x.frame
  <2>1. Unbroken(Line, x.frame, sent[x.frame])
    BY <1>2 DEF LineWhole
  <2>2. /\ x.place \in 1..FrameLen
        /\ IF x.place < FrameLen
           THEN Line[1 + 1].frame = x.frame /\ Line[1 + 1].place = x.place + 1
           ELSE \A j \in (1 + 1)..Len(Line) : Line[j].frame # x.frame
    BY <1>0, <2>1 DEF Unbroken
  <2>3. QED
    BY <1>0, <2>2
<1>3. ASSUME y.place > 1 PROVE x.frame = f /\ x.place = y.place - 1
  <2>1. x.frame = f
    BY <1>1, <1>3
  <2>2. QED
    BY <1>0, <1>1, <1>2, <2>1
<1>4. ASSUME y.place = 1, f - 1 \in Whole
      PROVE  x.frame = f - 1 /\ f - 1 # 0 /\ x.place = FrameLen
  <2>1. x.frame # f
    BY <1>0, <1>2, <1>4
  <2>2. ~(x.frame < f - 1)
    <3> SUFFICES ASSUME x.frame < f - 1 PROVE FALSE
      OBVIOUS
    <3>1. f - 1 \in Whole \ {0} /\ Line[1].frame < f - 1
      BY <1>0, <1>1, <1>4
    <3>2. PICK i \in 1..Len(Line) : Line[i].frame = f - 1
      BY <1>0, <3>1 DEF LineWhole, OnLine
    <3>3. i # 1 /\ i # 2
      BY <1>0, <3>1, <3>2
    <3>4. Line[2].frame <= Line[i].frame
      BY <1>0, <3>2, <3>3 DEF LineWhole
    <3>5. QED
      BY <1>0, <3>2, <3>4
  <2>3. x.frame = f - 1
    BY <1>0, <1>1, <2>1, <2>2
  <2>4. f - 1 # 0
    BY <1>1, <1>4, <2>3 DEF Whole
  <2>5. QED
    BY <1>0, <1>2, <1>4, <2>3, <2>4
<1>5. QED
  BY <1>1, <1>3, <1>4

\* What the task knows when it has taken a byte of a whole frame.
LEMMA TakenByte ==
    ASSUME TypeOK, MarkerApart, NEW sent \in [1..frames -> Bodies],
           LineWhole(sent), Receiver(sent), ScanByte \/ ReadByte,
           NEW f \in Whole \ {0}, NEW k \in 0..(FrameLen - 1),
           Line[1].frame = f, Line[1].place = k + 1
    PROVE  /\ Within(sent[f], k + 1)'
           /\ f - 1 \in Whole =>
                IF k + 1 = FrameLen THEN f \in ToSet(packets') ELSE Reads(f, k + 1)'
<1>0. /\ ring # << >> /\ ring' = Tail(ring) /\ UNCHANGED <<outgoing, frames, torn>>
  BY DEF ScanByte, ReadByte
<1>1. /\ Line # << >> /\ Head(ring) = Line[1] /\ Len(Line) \in Nat /\ 1 \in 1..Len(Line)
  <2>1. Line # << >> /\ Head(ring) = Line[1]
    BY <1>0, LineTail
  <2>2. QED
    BY <2>1, LineIs
<1>2. f \in 1..frames /\ f \in Nat \ {0} /\ sent[f] \in Bodies /\ frames \in Nat
  BY DEF Whole, TypeOK
<1>3. Head(ring).value = Stream(sent[f])[k + 1]
  <2>1. Unbroken(Line, f, sent[f])
    BY DEF LineWhole
  <2>2. QED
    BY <1>1, <2>1 DEF Unbroken
<1>4. Meets(sent, f, k)
  BY <1>1 DEF Receiver
<1>5. Within(sent[f], k + 1)'
  <2>1. k = 0 \/ Within(sent[f], k)
    BY <1>4, Lengths DEF Meets
  <2>2. QED
    <3> DEFINE b == sent[f]
    <3>1. b \in Bodies /\ Head(ring).value = Stream(b)[k + 1] /\ (k = 0 \/ Within(b, k))
      BY <1>2, <1>3, <2>1
    <3> HIDE DEF b
    <3>2. Within(b, k + 1)'
      BY <3>1, WithinOn
    <3>3. QED
      BY <3>2 DEF b
<1>6. ASSUME f - 1 \in Whole
      PROVE  IF k + 1 = FrameLen THEN f \in ToSet(packets') ELSE Reads(f, k + 1)'
  <2>1. Reads(f, k)
    <3>1. CASE k > 0
      BY <1>4, <1>6, <3>1 DEF Meets
    <3>2. CASE k = 0
      <4>1. Behind(sent, f - 1)
        BY <1>4, <1>6, <3>2 DEF Meets
      <4>2. 0 < Len(Marker) /\ Len(window) \in Nat /\ Len(body) < BodyLen /\ Len(body) \in Nat
        BY Lengths, EmptySeq, LenProperties DEF MarkerApart, TypeOK
      <4>3. pc = "scan" /\ \E b \in Bodies : Hears(b, FrameLen + 0)
        <5>0. FrameLen \in Nat /\ FrameLen + 0 = FrameLen /\ BodyLen \in Nat
          BY Lengths
        <5>1. CASE f - 1 = 0
          <6>1. pc = "scan" /\ Len(window) = 0
            BY <4>1, <5>1, EmptySeq DEF Behind
          <6>2. Hears(sent[f], FrameLen)
            BY <6>1 DEF Hears
          <6>3. QED
            BY <1>2, <5>0, <6>1, <6>2
        <5>2. CASE f - 1 # 0
          <6>1. Within(sent[f - 1], FrameLen)
            BY <4>1, <5>2 DEF Behind
          <6>2. ~(FrameLen - FrameLen >= BodyLen - Len(body))
            BY <4>2, <5>0
          <6>3. pc = "scan" /\ Hears(sent[f - 1], FrameLen)
            BY <6>1, <6>2 DEF Within
          <6>4. f - 1 \in 1..frames
            BY <1>2, <5>2
          <6>5. QED
            BY <5>0, <6>3, <6>4
        <5>3. QED
          BY <5>1, <5>2
      <4>4. Reads(f, 0)
        BY <4>2, <4>3 DEF Reads
      <4>5. QED
        BY <3>2, <4>4
    <3>3. QED
      BY Lengths, <3>1, <3>2
  <2>2. k < Len(Marker) => Head(ring).value = Marker[k + 1]
    <3>1. k < Len(Marker) => k + 1 \in 1..Len(Marker)
      BY Lengths
    <3>2. QED
      BY <1>2, <1>3, <3>1, StreamParts
  <2>3. QED
    BY <1>1, <1>2, <2>1, <2>2, ReadsOn DEF Receiver
<1>7. QED
  BY <1>5, <1>6

LEMMA PacketsGrow ==
    ASSUME TypeOK, ScanByte \/ ReadByte
    PROVE  ToSet(packets) \subseteq ToSet(packets')
<1>1. CASE packets' = packets
  BY <1>1
<1>2. ASSUME NEW f \in Nat, packets' = Append(packets, f)
      PROVE  ToSet(packets) \subseteq ToSet(packets')
  <2>1. packets \in Seq(Nat)
    BY DEF TypeOK
  <2>2. QED
    BY <1>2, <2>1, ToSetOfAppend
<1>3. QED
  <2>1. CASE ScanByte
    BY <1>1, <2>1 DEF ScanByte, results
  <2>2. CASE ReadByte
    <3>0. BodyLen \in Nat
      BY Lengths
    <3> DEFINE x == Append(body, Head(ring))
    <3>1. /\ x \in Seq(Bytes) /\ (Len(body) = BodyLen - 1 => Handle(x) /\ Len(x) = BodyLen)
          /\ Len(body) # BodyLen - 1 => packets' = packets
      BY <2>2, <3>0, BodyGrows
    <3> HIDE DEF x
    <3>2. Handle(x) => packets' = packets \/ packets' = Append(packets, FrameOf(x))
      BY DEF Handle, Relay, results
    <3>3. Len(x) = BodyLen => FrameOf(x) \in Nat
      BY <3>1, FrameOfBytes
    <3>4. QED
      BY <1>1, <1>2, <3>1, <3>2, <3>3
  <2>3. QED
    BY <2>1, <2>2

LEMMA TakeReceiver ==
    ASSUME TypeOK, MarkerApart, NEW sent \in [1..frames -> Bodies],
           LineWhole(sent), Receiver(sent), ScanByte \/ ReadByte
    PROVE  Receiver(sent)'
<1>0. /\ ring # << >> /\ ring' = Tail(ring) /\ UNCHANGED <<outgoing, frames, torn>>
  BY DEF ScanByte, ReadByte
<1>1. /\ Line # << >> /\ Len(Line) = Len(Line') + 1 /\ Len(Line') \in Nat
      /\ \A i \in 1..Len(Line') : Line'[i] = Line[i + 1]
      /\ Line' = << >> <=> Len(Line') = 0
  BY <1>0, LineTail
<1>2. /\ Whole' = Whole /\ Whole \subseteq 0..frames /\ frames \in Nat /\ FrameLen \in Nat
  BY <1>0, Lengths DEF Whole, TypeOK
<1>3. Line[1].frame \in 0..frames /\ (Line[1].frame = 0 => 0 \in torn) /\ 1 \in 1..Len(Line)
  <2>1. 1 \in 1..Len(Line)
    BY <1>1
  <2>2. QED
    BY <2>1 DEF LineWhole
<1>4. pc' = "scan" => body' = << >>
  <2>1. CASE ScanByte
    BY <2>1 DEF ScanByte, Receiver
  <2>2. CASE ReadByte
    BY <2>2, BodyGrows DEF Handle, ScanAnew
  <2>3. QED
    BY <2>1, <2>2
<1>f. ASSUME Line[1].frame \in Whole \ {0}
      PROVE  /\ Line[1].place \in 1..FrameLen
             /\ Line[1].place < FrameLen =>
                  Len(Line) > 1 /\ Line[2].frame = Line[1].frame
  <2>1. Unbroken(Line, Line[1].frame, sent[Line[1].frame])
    BY <1>f DEF LineWhole
  <2>2. /\ Line[1].place \in 1..FrameLen
        /\ Line[1].place < FrameLen => 1 < Len(Line) /\ Line[1 + 1].frame = Line[1].frame
    BY <1>3, <2>1 DEF Unbroken
  <2>3. QED
    BY <1>1, <2>2
<1>l. FrameLen - 1 \in 0..(FrameLen - 1) /\ (FrameLen - 1) + 1 = FrameLen
  BY Lengths
<1>5. ASSUME NEW f \in Whole, Line' = << >>, f = frames PROVE Behind(sent, f)'
  <2>1. Len(Line) = 1
    BY <1>1, <1>5
  <2>2. Line[1].frame = f /\ f # 0
    <3>1. Line[1].frame # 0 \/ frames # 0
      BY <1>3, <1>5 DEF Whole
    <3>2. CASE Line[1].frame < frames
      <4>1. frames \in Whole \ {0}
        BY <1>2, <1>3, <1>5, <3>2
      <4>2. PICK i \in 1..Len(Line) : Line[i].frame = frames
        BY <1>1, <3>2, <4>1 DEF LineWhole, OnLine
      <4>3. i = 1
        BY <2>1, <4>2
      <4>4. QED
        BY <1>2, <3>2, <4>2, <4>3
    <3>3. QED
      BY <1>2, <1>3, <1>5, <3>1, <3>2
  <2>3. Line[1].place = (FrameLen - 1) + 1
    BY <1>2, <1>5, <1>f, <2>1, <2>2
  <2>4. Within(sent[f], (FrameLen - 1) + 1)'
    BY <1>l, <2>2, <2>3, TakenByte
  <2>5. Within(sent[f], FrameLen)'
    BY <1>l, <2>4
  <2>6. QED
    BY <2>2, <2>5 DEF Behind
<1>6. ASSUME NEW f \in Whole, NEW k \in 0..(FrameLen - 1),
             Line' # << >>, Line'[1].frame = f, Line'[1].place = k + 1
      PROVE  Meets(sent, f, k)'
  <2>1. Len(Line) > 1 /\ Line'[1] = Line[2] /\ 2 \in 1..Len(Line)
    BY <1>1, <1>6
  <2>2. f # 0 /\ f \in Nat
    BY <1>2, <1>6, <2>1 DEF LineWhole, Whole
  <2>3. /\ k \in Nat /\ k + 1 > 1 <=> k > 0
        /\ k + 1 = 1 <=> k = 0
        /\ k > 0 => k - 1 \in 0..(FrameLen - 1) /\ (k - 1) + 1 = k /\ k # FrameLen
    BY <1>2
  <2>4. /\ k > 0 => Line[1].frame = f /\ Line[1].place = k
        /\ k = 0 /\ f - 1 \in Whole =>
             Line[1].frame = f - 1 /\ f - 1 # 0 /\ Line[1].place = FrameLen
    <3>1. /\ Line[2].place > 1 => Line[1].frame = f /\ Line[1].place = Line[2].place - 1
          /\ Line[2].place = 1 /\ f - 1 \in Whole =>
             Line[1].frame = f - 1 /\ f - 1 # 0 /\ Line[1].place = FrameLen
      BY <1>6, <2>1, <2>2, NextFrame
    <3>2. Line[2].place = k + 1 /\ (k + 1) - 1 = k
      BY <1>6, <2>1, <2>3
    <3>3. QED
      BY <2>3, <3>1, <3>2
  <2>5. ASSUME k > 0 PROVE Within(sent[f], k)' /\ (f - 1 \in Whole => Reads(f, k)')
    <3>1. /\ Within(sent[f], (k - 1) + 1)'
          /\ f - 1 \in Whole =>
               IF (k - 1) + 1 = FrameLen THEN f \in ToSet(packets')
                                         ELSE Reads(f, (k - 1) + 1)'
      BY <2>2, <2>3, <2>4, <2>5, TakenByte
    <3>2. QED
      BY <2>3, <2>5, <3>1
  <2>6. ASSUME k = 0, f - 1 \in Whole PROVE Behind(sent, f - 1)'
    <3>1. Line[1].frame = f - 1 /\ f - 1 # 0 /\ Line[1].place = (FrameLen - 1) + 1
      BY <1>l, <2>4, <2>6
    <3>2. Within(sent[f - 1], (FrameLen - 1) + 1)'
      BY <1>l, <2>6, <3>1, TakenByte
    <3>3. Within(sent[f - 1], FrameLen)'
      BY <1>l, <3>2
    <3>4. QED
      BY <3>1, <3>3 DEF Behind
  <2>7. QED
    BY <1>2, <2>3, <2>5, <2>6 DEF Meets
<1>7. ASSUME NEW f \in Whole, f # 0, f - 1 \in Whole, ~OnLine(f)'
      PROVE  f \in ToSet(packets')
  <2>1. CASE ~OnLine(f)
    BY <1>7, <2>1, PacketsGrow DEF Receiver
  <2>2. CASE OnLine(f)
    <3>1. PICK i \in 1..Len(Line) : Line[i].frame = f
      BY <2>2 DEF OnLine
    <3>2. \A j \in 1..Len(Line') : Line[j + 1].frame # f
      BY <1>1, <1>7 DEF OnLine
    <3>3. i = 1
      <4> SUFFICES ASSUME i # 1 PROVE FALSE
        OBVIOUS
      <4>1. i - 1 \in 1..Len(Line') /\ (i - 1) + 1 = i
        BY <1>1
      <4>2. QED
        BY <3>1, <3>2, <4>1
    <3>4. Line[1].place = (FrameLen - 1) + 1
      <4> SUFFICES ASSUME Line[1].place # FrameLen PROVE FALSE
        BY <1>l
      <4>1. Len(Line) > 1 /\ Line[2].frame = f
        BY <1>2, <1>7, <1>f, <3>1, <3>3
      <4>2. 1 \in 1..Len(Line') /\ Line[1 + 1].frame = f
        BY <1>1, <4>1
      <4>3. QED
        BY <3>2, <4>2
    <3>5. f \in Whole \ {0} /\ Line[1].frame = f
      BY <1>7, <3>1, <3>3
    <3>6. QED
      BY <1>7, <1>l, <3>4, <3>5, TakenByte
  <2>3. QED
    BY <2>1, <2>2
<1>8. QED
  BY <1>0, <1>2, <1>4, <1>5, <1>6, <1>7 DEF Receiver

\* What is said of the task depends on nothing else.
LEMMA SameTask ==
    ASSUME UNCHANGED <<pc, window, body>>, NEW b, NEW f, NEW k
    PROVE  /\ Within(b, k) => Within(b, k)'
           /\ Reads(f, k) => Reads(f, k)'
<1>1. \A c, q : Hears(c, q) => Hears(c, q)'
  BY DEF Hears
<1>2. QED
  BY <1>1 DEF Within, Reads

\* A new frame comes behind what is in the ring.
LEMMA SendContained ==
    ASSUME TypeOK, Contained, NEW b \in Bodies, Send(b)
    PROVE  Contained'
<1>0. PICK sent \in [1..frames -> Bodies] : LineWhole(sent) /\ Receiver(sent)
  BY DEF Contained
<1>n. PICK n \in Nat : n = frames + 1
  BY DEF TypeOK
<1> DEFINE new == Frame(n, b)
<1>1. /\ frames \in Nat /\ n = frames + 1 /\ frames' = n /\ outgoing = << >> /\ outgoing' = new
      /\ UNCHANGED <<ring, torn, pc, window, body, packets>>
  BY <1>n DEF Send, results, TypeOK
<1>2. /\ new \in Seq(Bytes) /\ Len(new) = FrameLen /\ FrameLen \in Nat /\ FrameLen > 0
      /\ \A i \in 1..FrameLen :
            new[i].frame = n /\ new[i].place = i /\ new[i].value = Stream(b)[i]
  <2>1. /\ new \in Seq(Bytes) /\ Len(new) = FrameLen
        /\ \A i \in 1..FrameLen : /\ new[i].frame = n /\ new[i].place = i
                                  /\ new[i].value = (Marker \o b)[i]
    BY FrameTypes
  <2>2. FrameLen \in Nat /\ FrameLen > 0
    BY Lengths
  <2> HIDE DEF new
  <2>3. QED
    BY <2>1, <2>2, StreamParts
<1>3. PICK sent2 \in [1..n -> Bodies] :
         sent2[n] = b /\ \A f \in 1..frames : sent2[f] = sent[f]
  <2> DEFINE s == [f \in 1..n |-> IF f = n THEN b ELSE sent[f]]
  <2>1. s \in [1..n -> Bodies]
    BY <1>1
  <2>2. s[n] = b /\ \A f \in 1..frames : s[f] = sent[f]
    BY <1>1
  <2> HIDE DEF s
  <2>3. QED
    BY <2>1, <2>2
<1> HIDE DEF new
<1>4. /\ Line = ring /\ Len(ring) \in Nat /\ ring \in Seq(Bytes)
      /\ Len(Line') = Len(ring) + FrameLen
      /\ \A i \in 1..Len(ring) : Line'[i] = Line[i]
      /\ \A i \in 1..FrameLen : Line'[Len(ring) + i] = new[i]
      /\ Line' # << >>
      /\ \A i \in 1..Len(Line') : \/ i \in 1..Len(ring)
                                  \/ i - Len(ring) \in 1..FrameLen /\ Line'[i] = new[i - Len(ring)]
  <2>1. ring \in Seq(Bytes) /\ Len(ring) \in Nat
    BY LenProperties DEF TypeOK
  <2>2. Line = ring
    BY <1>1, <2>1, ConcatEmptySeq DEF Line
  <2>3. /\ Line' \in Seq(Bytes) /\ Len(Line') = Len(ring) + FrameLen
        /\ \A i \in 1..Len(ring) + FrameLen :
              Line'[i] = IF i <= Len(ring) THEN ring[i] ELSE new[i - Len(ring)]
    <3>1. /\ ring \o new \in Seq(Bytes) /\ Len(ring \o new) = Len(ring) + Len(new)
          /\ \A i \in 1..Len(ring) + Len(new) :
                (ring \o new)[i] = IF i <= Len(ring) THEN ring[i] ELSE new[i - Len(ring)]
      BY <1>2, <2>1, ConcatProperties
    <3>2. Line' = ring \o new /\ Len(new) = FrameLen
      BY <1>1, <1>2 DEF Line
    <3>3. QED
      BY <3>1, <3>2
  <2>4. \A i \in 1..Len(ring) : Line'[i] = ring[i]
    <3>1. \A i \in 1..Len(ring) : i \in 1..Len(ring) + FrameLen /\ i <= Len(ring)
      BY <1>2, <2>1
    <3>2. QED
      BY <2>3, <3>1
  <2>5. ASSUME NEW i \in 1..FrameLen PROVE Line'[Len(ring) + i] = new[i]
    <3>1. /\ Len(ring) + i \in 1..Len(ring) + FrameLen /\ ~(Len(ring) + i <= Len(ring))
          /\ Len(ring) + i - Len(ring) = i
      BY <1>2, <2>1
    <3>2. QED
      BY <2>3, <3>1
  <2>6. Line' # << >>
    BY <1>2, <2>1, <2>3, EmptySeq
  <2>7. ASSUME NEW i \in 1..Len(Line'), ~(i \in 1..Len(ring))
        PROVE  i - Len(ring) \in 1..FrameLen /\ Line'[i] = new[i - Len(ring)]
    <3>1. /\ i - Len(ring) \in 1..FrameLen /\ i \in 1..Len(ring) + FrameLen
          /\ ~(i <= Len(ring))
      BY <1>2, <2>1, <2>3, <2>7
    <3>2. QED
      BY <2>3, <3>1
  <2>8. QED
    BY <1>2, <2>1, <2>2, <2>3, <2>4, <2>5, <2>6, <2>7
<1>5. /\ \A f \in Whole' \ {n} : f \in Whole
      /\ Whole' \subseteq 0..n /\ frames \in 0..frames /\ n # frames /\ n # 0
      /\ \A f \in Whole : f \in 0..frames /\ f # n
  BY <1>1 DEF Whole
<1>6. \A i \in 1..Len(ring) :
        /\ Line[i].frame \in 0..frames /\ (Line[i].frame = 0 => 0 \in torn)
        /\ \A j \in 1..Len(ring) : i < j => Line[i].frame <= Line[j].frame
  BY <1>0, <1>4 DEF LineWhole
<1>o. ASSUME NEW j \in 1..Len(Line')
      PROVE  \/ j \in 1..Len(ring) /\ Line'[j] = Line[j] /\ Line'[j].frame \in 0..frames
             \/ ~(j \in 1..Len(ring)) /\ Line'[j].frame = n
  <2>1. CASE j \in 1..Len(ring)
    BY <1>4, <1>6, <2>1
  <2>2. CASE ~(j \in 1..Len(ring))
    <3>1. j - Len(ring) \in 1..FrameLen /\ Line'[j] = new[j - Len(ring)]
      BY <1>4, <2>2
    <3>2. QED
      BY <1>2, <2>2, <3>1
  <2>3. QED
    BY <2>1, <2>2
<1>7. ASSUME NEW f \in Whole' \ {0} PROVE Unbroken(Line', f, sent2[f])
  <2> DEFINE x == Line'
             g == sent2[f]
  <2>1. CASE f = n
    <3>1. ASSUME NEW i \in 1..Len(x), x[i].frame = f
          PROVE  /\ x[i].place \in 1..FrameLen
                 /\ x[i].value = Stream(g)[x[i].place]
                 /\ IF x[i].place < FrameLen
                    THEN i < Len(x) /\ x[i + 1].frame = f /\ x[i + 1].place = x[i].place + 1
                    ELSE \A j \in (i + 1)..Len(x) : x[j].frame # f
                 /\ i > 1 /\ x[i].place > 1 => x[i - 1].frame = f
      <4> DEFINE r == Len(ring)
                 p == i - r
      <4>0. FrameLen \in Nat
        BY <1>2
      <4>1. p \in 1..FrameLen /\ x[i] = new[p]
        <5>1. i \in 1..Len(ring) => x[i].frame \in 0..frames
          BY <1>4, <1>6
        <5>2. QED
          BY <1>1, <1>4, <2>1, <3>1, <5>1
      <4>2. x[i].place = p /\ x[i].value = Stream(g)[p] /\ r \in Nat /\ i = r + p
            /\ Len(x) = r + FrameLen
        BY <1>2, <1>3, <1>4, <2>1, <4>1
      <4> HIDE DEF x, g, r, p
      <4>3. ASSUME p < FrameLen
            PROVE  i < Len(x) /\ x[i + 1].frame = f /\ x[i + 1].place = p + 1
        <5>1. p + 1 \in 1..FrameLen /\ i + 1 = r + (p + 1)
          BY <1>2, <4>1, <4>2, <4>3
        <5>2. x[i + 1] = new[p + 1]
          BY <1>4, <5>1 DEF x, r
        <5>3. QED
          BY <1>2, <2>1, <4>1, <4>2, <4>3, <5>1, <5>2
      <4>4. i > 1 /\ p > 1 => x[i - 1].frame = f
        <5> SUFFICES ASSUME p > 1 PROVE x[i - 1].frame = f
          OBVIOUS
        <5>1. p - 1 \in 1..FrameLen /\ i - 1 = r + (p - 1)
          BY <1>2, <4>1, <4>2
        <5>2. x[i - 1] = new[p - 1]
          BY <1>4, <5>1 DEF x, r
        <5>3. QED
          BY <1>2, <2>1, <5>1, <5>2
      <4>5. QED
        <5>1. p < FrameLen \/ p = FrameLen
          BY <1>2, <4>1
        <5>2. IF p < FrameLen
              THEN i < Len(x) /\ x[i + 1].frame = f /\ x[i + 1].place = p + 1
              ELSE \A j \in (i + 1)..Len(x) : x[j].frame # f
          <6>1. CASE p < FrameLen
            BY <4>2, <4>3, <6>1
          <6>2. CASE p = FrameLen
            <7>1. i = Len(x) /\ Len(x) \in Nat
              BY <4>0, <4>2, <6>2
            <7>2. QED
              BY <4>0, <6>2, <7>1
          <6>3. QED
            BY <5>1, <6>1, <6>2
        <5>3. p \in 1..FrameLen /\ x[i].place = p /\ x[i].value = Stream(g)[p]
          BY <4>1, <4>2
        <5>4. IF x[i].place < FrameLen
              THEN i < Len(x) /\ x[i + 1].frame = f /\ x[i + 1].place = x[i].place + 1
              ELSE \A j \in (i + 1)..Len(x) : x[j].frame # f
          BY <5>2, <5>3
        <5>5. i > 1 /\ x[i].place > 1 => x[i - 1].frame = f
          BY <4>4, <5>3
        <5>6. x[i].place \in 1..FrameLen /\ x[i].value = Stream(g)[x[i].place]
          BY <5>3
        <5>7. QED
          BY <5>4, <5>5, <5>6
    <3>2. QED
      BY <3>1 DEF Unbroken
  <2>2. CASE f # n
    <3>1. f \in Whole \ {0} /\ f \in 1..frames /\ g = sent[f]
      BY <1>3, <1>5, <2>2
    <3>2. Unbroken(Line, f, g)
      BY <1>0, <3>1 DEF LineWhole
    <3>3. ASSUME NEW i \in 1..Len(x), x[i].frame = f
          PROVE  /\ x[i].place \in 1..FrameLen
                 /\ x[i].value = Stream(g)[x[i].place]
                 /\ IF x[i].place < FrameLen
                    THEN i < Len(x) /\ x[i + 1].frame = f /\ x[i + 1].place = x[i].place + 1
                    ELSE \A j \in (i + 1)..Len(x) : x[j].frame # f
                 /\ i > 1 /\ x[i].place > 1 => x[i - 1].frame = f
      <4>1. i \in 1..Len(ring) /\ x[i] = Line[i]
        BY <1>2, <1>4, <2>2, <3>3
      <4>2. /\ Line[i].place \in 1..FrameLen
            /\ Line[i].value = Stream(g)[Line[i].place]
            /\ IF Line[i].place < FrameLen
               THEN /\ i < Len(ring) /\ Line[i + 1].frame = f
                    /\ Line[i + 1].place = Line[i].place + 1
               ELSE \A j \in (i + 1)..Len(ring) : Line[j].frame # f
            /\ i > 1 /\ Line[i].place > 1 => Line[i - 1].frame = f
        BY <1>4, <3>2, <3>3, <4>1 DEF Unbroken
      <4>3. Len(ring) <= Len(x)
        BY <1>2, <1>4
      <4>4. i < Len(ring) => x[i + 1] = Line[i + 1]
        BY <1>4, <4>1
      <4>5. i > 1 => x[i - 1] = Line[i - 1]
        <5>1. i > 1 => i - 1 \in 1..Len(ring)
          BY <1>4, <4>1
        <5>2. QED
          BY <1>4, <5>1
      <4>6. ASSUME NEW j \in (i + 1)..Len(x), x[j].frame = f
            PROVE  j \in (i + 1)..Len(ring) /\ Line[j].frame = f
        <5>1. j \in 1..Len(x)
          BY <1>4
        <5>2. j \in 1..Len(ring) /\ x[j] = Line[j]
          BY <1>o, <2>2, <4>6, <5>1
        <5>3. QED
          BY <4>6, <5>2
      <4> HIDE DEF x, g
      <4>7. CASE x[i].place < FrameLen
        BY <1>4, <4>1, <4>2, <4>3, <4>4, <4>5, <4>7
      <4>8. CASE ~(x[i].place < FrameLen)
        <5>1. \A j \in (i + 1)..Len(x) : x[j].frame # f
          BY <4>1, <4>2, <4>6, <4>8
        <5>2. QED
          BY <4>1, <4>2, <4>5, <4>8, <5>1
      <4>9. QED
        BY <4>7, <4>8
    <3>4. QED
      BY <3>3 DEF Unbroken
  <2>3. QED
    BY <2>1, <2>2
<1>8. ASSUME NEW f \in Whole' \ {0}, Line'[1].frame < f
      PROVE  \E i \in 1..Len(Line') : Line'[i].frame = f
  <2>1. CASE f = n
    <3>1. Len(ring) + 1 \in 1..Len(Line') /\ Line'[Len(ring) + 1] = new[1] /\ new[1].frame = n
      BY <1>2, <1>4
    <3>2. QED
      BY <2>1, <3>1
  <2>2. CASE f # n
    <3>1. f \in Whole \ {0} /\ f \in 1..frames
      BY <1>5, <2>2
    <3>2. Len(ring) # 0
      <4> SUFFICES ASSUME Len(ring) = 0 PROVE FALSE
        OBVIOUS
      <4>1. 0 + 1 = 1 /\ 1 \in 1..FrameLen
        BY <1>2
      <4>2. Line'[1].frame = n
        BY <1>2, <1>4, <4>1
      <4>3. QED
        BY <1>1, <1>8, <3>1, <4>2
    <3>3. Line # << >> /\ 1 \in 1..Len(ring) /\ Line'[1] = Line[1]
      BY <1>4, <3>2, EmptySeq
    <3>4. PICK i \in 1..Len(ring) : Line[i].frame = f
      BY <1>0, <1>4, <1>8, <3>1, <3>3 DEF LineWhole, OnLine
    <3>5. i \in 1..Len(Line') /\ Line'[i] = Line[i]
      BY <1>2, <1>4
    <3>6. QED
      BY <3>4, <3>5
  <2>3. QED
    BY <2>1, <2>2
<1>9. ASSUME NEW i \in 1..Len(Line')
      PROVE  /\ Line'[i].frame \in 0..frames' /\ (Line'[i].frame = 0 => 0 \in torn)
             /\ \A j \in 1..Len(Line') : i < j => Line'[i].frame <= Line'[j].frame
  <2>1. \A j \in 1..Len(Line') :
          \/ j \in 1..Len(ring) /\ Line'[j].frame \in 0..frames /\ Line'[j] = Line[j]
          \/ Line'[j].frame = n /\ ~(j \in 1..Len(ring))
    BY <1>o
  <2>2. CASE i \in 1..Len(ring)
    <3>1. Line'[i] = Line[i] /\ Line[i].frame \in 0..frames
      BY <1>4, <1>6, <2>2
    <3>2. ASSUME NEW j \in 1..Len(Line'), i < j PROVE Line'[i].frame <= Line'[j].frame
      <4>1. CASE j \in 1..Len(ring)
        BY <1>4, <1>6, <2>2, <3>2, <4>1
      <4>2. CASE Line'[j].frame = n
        BY <1>1, <3>1, <4>2
      <4>3. QED
        BY <2>1, <4>1, <4>2
    <3>3. QED
      BY <1>1, <1>6, <2>2, <3>1, <3>2
  <2>3. CASE ~(i \in 1..Len(ring))
    <3>1. Line'[i].frame = n
      BY <2>1, <2>3
    <3>2. \A j \in 1..Len(Line') : i < j => ~(j \in 1..Len(ring))
      BY <1>4, <2>3
    <3>3. \A j \in 1..Len(Line') : i < j => Line'[j].frame = n
      BY <2>1, <3>2
    <3>4. n <= n /\ n \in 0..n /\ n # 0
      BY <1>1
    <3>5. QED
      BY <1>1, <3>1, <3>3, <3>4
  <2>4. QED
    BY <2>2, <2>3
<1>10. LineWhole(sent2)'
  <2>1. \A i \in 1..Len(outgoing') : outgoing'[i].frame = frames'
    BY <1>1, <1>2
  <2>2. QED
    BY <1>1, <1>7, <1>8, <1>9, <2>1 DEF LineWhole, OnLine
<1>11. ASSUME NEW f \in Whole', NEW k \in 0..(FrameLen - 1),
              Line'[1].frame = f, Line'[1].place = k + 1
       PROVE  Meets(sent2, f, k)'
  <2>1. CASE Len(ring) = 0
    <3>0. 0 + 1 = 1 /\ 1 \in 1..FrameLen
      BY <1>2
    <3>1. Line'[1] = new[1] /\ f = n /\ k = 0 /\ Line = << >>
      <4>1. Line'[1] = new[1] /\ new[1].frame = n /\ new[1].place = 1
        BY <1>2, <1>4, <2>1, <3>0
      <4>2. f = n /\ k = 0
        BY <1>2, <1>11, <4>1
      <4>3. QED
        BY <1>4, <2>1, <4>1, <4>2, EmptySeq
    <3>2. f - 1 = frames /\ ~(k > 0)
      BY <1>1, <3>1
    <3>3. ASSUME f - 1 \in Whole' PROVE Behind(sent2, f - 1)'
      <4>1. f - 1 \in Whole
        BY <1>5, <3>1, <3>2, <3>3
      <4>2. Behind(sent, f - 1)
        BY <1>0, <3>1, <3>2, <4>1 DEF Receiver
      <4>3. f - 1 # 0 => f - 1 \in 1..frames
        BY <1>1, <3>1, <3>2
      <4>4. f - 1 # 0 => sent2[f - 1] = sent[f - 1]
        BY <1>3, <4>3
      <4>5. QED
        BY <1>1, <4>2, <4>4, SameTask DEF Behind
    <3>4. QED
      BY <3>1, <3>2, <3>3 DEF Meets
  <2>2. CASE Len(ring) # 0
    <3>1. 1 \in 1..Len(ring) /\ Line'[1] = Line[1] /\ Line # << >> /\ Line[1].frame \in 0..frames
      <4>1. 1 \in 1..Len(ring)
        BY <1>4, <2>2
      <4>2. QED
        BY <1>4, <1>6, <4>1, EmptySeq
    <3>2. f \in Whole /\ f \in 0..frames
      BY <1>1, <1>5, <1>11, <3>1
    <3>3. Meets(sent, f, k)
      BY <1>0, <1>11, <3>1, <3>2 DEF Receiver
    <3>4. f # 0
      BY <1>6, <1>11, <3>1, <3>2 DEF Whole
    <3>5. /\ sent2[f] = sent[f]
          /\ f - 1 \in Whole' => f - 1 \in Whole /\ (f - 1 # 0 => sent2[f - 1] = sent[f - 1])
      BY <1>1, <1>3, <1>5, <3>2, <3>4
    <3>6. k > 0 => Within(sent2[f], k)'
      BY <1>1, <3>3, <3>5, SameTask DEF Meets
    <3>7. f - 1 \in Whole' /\ k = 0 => Behind(sent2, f - 1)'
      BY <1>1, <3>3, <3>5, SameTask DEF Meets, Behind
    <3>8. f - 1 \in Whole' /\ k > 0 => Reads(f, k)'
      BY <1>1, <3>3, <3>5, SameTask DEF Meets
    <3>9. QED
      BY <3>6, <3>7, <3>8 DEF Meets
  <2>3. QED
    BY <2>1, <2>2
<1>12. ASSUME NEW f \in Whole', f # 0, f - 1 \in Whole', ~OnLine(f)'
       PROVE  f \in ToSet(packets)
  <2>1. f # n
    <3>1. Len(ring) + 1 \in 1..Len(Line') /\ Line'[Len(ring) + 1].frame = n
      BY <1>2, <1>4
    <3>2. QED
      BY <1>12, <3>1 DEF OnLine
  <2>2. f \in Whole /\ f \in 1..frames /\ f - 1 # n
    BY <1>1, <1>5, <1>12, <2>1
  <2>3. f - 1 \in Whole
    BY <1>5, <1>12, <2>2
  <2>4. ~OnLine(f)
    <3> SUFFICES ASSUME NEW i \in 1..Len(ring), Line[i].frame = f PROVE FALSE
      BY <1>4 DEF OnLine
    <3>1. i \in 1..Len(Line') /\ Line'[i].frame = f
      BY <1>2, <1>4
    <3>2. QED
      BY <1>12, <3>1 DEF OnLine
  <2>5. QED
    BY <1>0, <1>12, <2>2, <2>3, <2>4 DEF Receiver
<1>13. Receiver(sent2)'
  BY <1>0, <1>1, <1>4, <1>11, <1>12 DEF Receiver
<1>14. QED
  BY <1>1, <1>3, <1>10, <1>13 DEF Contained

\* A byte that goes from one sequence to the other stays where it is on the line.
LEMMA OneAcross ==
    ASSUME NEW r \in Seq(Bytes), NEW o \in Seq(Bytes), o # << >>
    PROVE  Append(r, Head(o)) \o Tail(o) = r \o o
<1> DEFINE x == Append(r, Head(o))
           y == Tail(o)
<1>1. /\ Len(r) \in Nat /\ Len(o) \in Nat \ {0} /\ Head(o) = o[1] /\ Head(o) \in Bytes
      /\ y \in Seq(Bytes) /\ Len(y) = Len(o) - 1
      /\ \A i \in 1..Len(y) : y[i] = o[i + 1]
  BY HeadTailProperties, EmptySeq, LenProperties
<1>2. /\ x \in Seq(Bytes) /\ Len(x) = Len(r) + 1 /\ x[Len(r) + 1] = o[1]
      /\ \A i \in 1..Len(r) : x[i] = r[i]
  BY <1>1, AppendProperties
<1> HIDE DEF x, y
<1>3. /\ x \o y \in Seq(Bytes) /\ Len(x \o y) = Len(x) + Len(y)
      /\ \A i \in 1..Len(x) + Len(y) :
            (x \o y)[i] = IF i <= Len(x) THEN x[i] ELSE y[i - Len(x)]
  BY <1>1, <1>2, ConcatProperties
<1>4. /\ r \o o \in Seq(Bytes) /\ Len(r \o o) = Len(r) + Len(o)
      /\ \A i \in 1..Len(r) + Len(o) :
            (r \o o)[i] = IF i <= Len(r) THEN r[i] ELSE o[i - Len(r)]
  BY ConcatProperties
<1>5. Len(x \o y) = Len(r \o o)
  BY <1>1, <1>2, <1>3, <1>4
<1>6. ASSUME NEW i \in 1..Len(x \o y) PROVE (x \o y)[i] = (r \o o)[i]
  <2>1. /\ i \in 1..Len(x) + Len(y) /\ i \in 1..Len(r) + Len(o)
    BY <1>3, <1>4, <1>5, <1>6
  <2>2. CASE i <= Len(r)
    <3>1. i \in 1..Len(r) /\ i <= Len(x)
      BY <1>1, <1>2, <2>1, <2>2
    <3>2. (x \o y)[i] = x[i] /\ (r \o o)[i] = r[i]
      BY <1>3, <1>4, <2>1, <2>2, <3>1
    <3>3. QED
      BY <1>2, <3>1, <3>2
  <2>3. CASE i = Len(r) + 1
    <3>1. /\ i <= Len(x) /\ ~(i <= Len(r)) /\ i - Len(r) = 1
      BY <1>1, <1>2, <2>3
    <3>2. (x \o y)[i] = x[i] /\ (r \o o)[i] = o[1]
      BY <1>3, <1>4, <2>1, <3>1
    <3>3. QED
      BY <1>2, <2>3, <3>2
  <2>4. CASE i > Len(r) + 1
    <3>1. /\ ~(i <= Len(x)) /\ ~(i <= Len(r)) /\ i - Len(x) \in 1..Len(y)
          /\ i - Len(x) + 1 = i - Len(r)
      BY <1>1, <1>2, <2>1, <2>4
    <3>2. (x \o y)[i] = y[i - Len(x)] /\ (r \o o)[i] = o[i - Len(r)]
      BY <1>3, <1>4, <2>1, <3>1
    <3>3. y[i - Len(x)] = o[i - Len(x) + 1]
      BY <1>1, <3>1
    <3>4. QED
      BY <3>1, <3>2, <3>3
  <2>5. i \in Int /\ Len(r) \in Int
    BY <1>1, <2>1
  <2>6. i <= Len(r) \/ i = Len(r) + 1 \/ i > Len(r) + 1
    BY <2>5
  <2>7. QED
    BY <2>2, <2>3, <2>4, <2>6
<1>7. x \o y = r \o o
  BY <1>3, <1>4, <1>5, <1>6, SeqEqual
<1>8. QED
  BY <1>7 DEF x, y

\* A byte is lost: its frame, the last one, is whole no more.
LEMMA LoseContained ==
    ASSUME TypeOK, Contained, Lose
    PROVE  Contained'
<1>0. PICK sent \in [1..frames -> Bodies] : LineWhole(sent) /\ Receiver(sent)
  BY DEF Contained
<1> DEFINE r == Len(ring)
<1>1. /\ frames \in Nat /\ outgoing # << >> /\ outgoing' = Tail(outgoing)
      /\ torn' = torn \cup {Head(outgoing).frame}
      /\ UNCHANGED <<frames, ring, pc, window, body, packets>>
      /\ ring \in Seq(Bytes) /\ outgoing \in Seq(Bytes)
  BY DEF Lose, results, TypeOK
<1>2. /\ Len(outgoing) \in Nat \ {0} /\ Head(outgoing) = outgoing[1]
      /\ Tail(outgoing) \in Seq(Bytes) /\ Len(Tail(outgoing)) = Len(outgoing) - 1
      /\ \A i \in 1..(Len(outgoing) - 1) : Tail(outgoing)[i] = outgoing[i + 1]
      /\ r \in Nat
  BY <1>1, HeadTailProperties, EmptySeq, LenProperties
<1>3. /\ \A i \in 1..Len(outgoing) : outgoing[i].frame = frames
      /\ torn' = torn \cup {frames}
  <2>1. \A i \in 1..Len(outgoing) : outgoing[i].frame = frames
    BY <1>0 DEF LineWhole
  <2>2. 1 \in 1..Len(outgoing)
    BY <1>2
  <2>3. QED
    BY <1>1, <1>2, <2>1, <2>2
<1>4. \A i \in 1..(Len(outgoing) - 1) : Tail(outgoing)[i].frame = frames
  <2>1. \A i \in 1..(Len(outgoing) - 1) : i + 1 \in 1..Len(outgoing)
    BY <1>2
  <2>2. QED
    BY <1>2, <1>3, <2>1
<1>5. Whole' = Whole \ {frames} /\ Whole \subseteq 0..frames
  BY <1>1, <1>3 DEF Whole
<1>6. /\ Len(Line) = r + Len(outgoing) /\ Line # << >>
      /\ \A i \in 1..Len(Line) : i \in 1..r \/ (~(i \in 1..r) /\ Line[i].frame = frames)
  <2>1. Len(Line) = r + Len(outgoing) /\ (Line = << >> <=> Len(Line) = 0)
        /\ \A i \in 1..Len(outgoing) : Line[r + i] = outgoing[i]
    BY LineIs
  <2>2. ASSUME NEW i \in 1..Len(Line), ~(i \in 1..r) PROVE Line[i].frame = frames
    <3>1. i - r \in 1..Len(outgoing) /\ r + (i - r) = i
      BY <1>2, <2>1, <2>2
    <3>2. QED
      BY <1>3, <2>1, <3>1
  <2>3. QED
    BY <1>2, <2>1, <2>2
<1>7. /\ Len(Line') = r + (Len(outgoing) - 1)
      /\ \A i \in 1..r : Line'[i] = Line[i]
      /\ \A i \in 1..Len(Line') :
            \/ i \in 1..r /\ Line'[i] = Line[i]
            \/ ~(i \in 1..r) /\ Line'[i].frame = frames
  <2> DEFINE x == Tail(outgoing)
  <2>1. /\ ring \o x \in Seq(Bytes) /\ Len(ring \o x) = Len(ring) + Len(x)
        /\ \A i \in 1..Len(ring) + Len(x) :
              (ring \o x)[i] = IF i <= Len(ring) THEN ring[i] ELSE x[i - Len(ring)]
    BY <1>1, <1>2, ConcatProperties
  <2>2. Line' = ring \o x /\ Len(x) = Len(outgoing) - 1
    BY <1>1, <1>2 DEF Line
  <2>3. \A i \in 1..Len(x) : x[i].frame = frames
    BY <1>4, <2>2
  <2> HIDE DEF x
  <2>4. /\ Len(Line') = r + Len(x)
        /\ \A i \in 1..r + Len(x) : Line'[i] = IF i <= r THEN ring[i] ELSE x[i - r]
    BY <2>1, <2>2
  <2>5. ASSUME NEW i \in 1..r PROVE Line'[i] = Line[i]
    <3>1. i \in 1..r + Len(x) /\ i <= r
      BY <1>2, <2>2
    <3>2. QED
      BY <2>4, <3>1, LineIs
  <2>6. ASSUME NEW i \in 1..Len(Line'), ~(i \in 1..r) PROVE Line'[i].frame = frames
    <3>1. i - r \in 1..Len(x) /\ ~(i <= r) /\ i \in 1..r + Len(x)
      BY <1>2, <2>2, <2>4, <2>6
    <3>2. QED
      BY <2>3, <2>4, <3>1
  <2>7. QED
    BY <2>2, <2>4, <2>5, <2>6
<1> HIDE DEF r
<1>8. ASSUME NEW f \in Whole' \ {0} PROVE Unbroken(Line', f, sent[f])
  <2> DEFINE x == Line'
             g == sent[f]
  <2>1. f \in Whole \ {0} /\ f # frames
    BY <1>5
  <2>2. Unbroken(Line, f, g)
    BY <1>0, <2>1 DEF LineWhole
  <2>3. ASSUME NEW i \in 1..Len(x), x[i].frame = f
        PROVE  /\ x[i].place \in 1..FrameLen
               /\ x[i].value = Stream(g)[x[i].place]
               /\ IF x[i].place < FrameLen
                  THEN i < Len(x) /\ x[i + 1].frame = f /\ x[i + 1].place = x[i].place + 1
                  ELSE \A j \in (i + 1)..Len(x) : x[j].frame # f
               /\ i > 1 /\ x[i].place > 1 => x[i - 1].frame = f
    <3>1. i \in 1..r /\ x[i] = Line[i] /\ i \in 1..Len(Line)
      BY <1>2, <1>6, <1>7, <2>1, <2>3
    <3>2. /\ Line[i].place \in 1..FrameLen
          /\ Line[i].value = Stream(g)[Line[i].place]
          /\ IF Line[i].place < FrameLen
             THEN i < Len(Line) /\ Line[i + 1].frame = f /\ Line[i + 1].place = Line[i].place + 1
             ELSE \A j \in (i + 1)..Len(Line) : Line[j].frame # f
          /\ i > 1 /\ Line[i].place > 1 => Line[i - 1].frame = f
      BY <2>2, <2>3, <3>1 DEF Unbroken
    <3>3. i > 1 => x[i - 1] = Line[i - 1]
      <4>1. i > 1 => i - 1 \in 1..r
        BY <1>2, <3>1
      <4>2. QED
        BY <1>7, <4>1
    <3>4. CASE x[i].place < FrameLen
      <4>1. i + 1 \in 1..Len(Line) /\ Line[i + 1].frame = f
        BY <1>2, <3>1, <3>2, <3>4
      <4>2. i + 1 \in 1..r
        BY <1>6, <2>1, <4>1
      <4>3. x[i + 1] = Line[i + 1] /\ i < Len(x)
        BY <1>2, <1>7, <3>1, <4>2
      <4>4. QED
        BY <3>1, <3>2, <3>3, <3>4, <4>3
    <3>5. CASE ~(x[i].place < FrameLen)
      <4>1. ASSUME NEW j \in (i + 1)..Len(x) PROVE x[j].frame # f
        <5>1. j \in 1..Len(x)
          BY <1>2, <1>7, <3>1
        <5>2. CASE ~(j \in 1..r)
          BY <1>7, <2>1, <5>1, <5>2
        <5>3. CASE j \in 1..r
          <6>1. x[j] = Line[j] /\ j \in (i + 1)..Len(Line)
            BY <1>2, <1>6, <1>7, <5>3
          <6>2. QED
            BY <3>1, <3>2, <3>5, <6>1
        <5>4. QED
          BY <5>2, <5>3
      <4>2. QED
        BY <3>1, <3>2, <3>3, <3>5, <4>1
    <3>6. QED
      BY <3>4, <3>5
  <2>4. QED
    BY <2>3 DEF Unbroken
<1>9. ASSUME NEW f \in Whole', OnLine(f) PROVE OnLine(f)'
  <2>1. f # frames
    BY <1>5
  <2>2. PICK i \in 1..Len(Line) : Line[i].frame = f
    BY <1>9 DEF OnLine
  <2>3. i \in 1..r
    BY <1>6, <2>1, <2>2
  <2>4. i \in 1..Len(Line') /\ Line'[i].frame = f
    BY <1>2, <1>7, <2>2, <2>3
  <2>5. QED
    BY <2>4 DEF OnLine
<1>10. ASSUME NEW f \in Whole' \ {0}, Line' # << >>, Line'[1].frame <= f
       PROVE  f \in Whole \ {0} /\ Line'[1] = Line[1] /\ Line # << >>
  <2>1. f \in Whole \ {0} /\ f # frames /\ f \in 0..frames
    BY <1>5
  <2>2. Len(Line') # 0
    <3>1. Line' \in Seq(Bytes)
      BY <1>1, <1>2, ConcatProperties DEF Line
    <3>2. QED
      BY <1>10, <3>1, EmptySeq
  <2>3. 1 \in 1..Len(Line')
    BY <1>2, <1>7, <2>2
  <2>4. 1 \in 1..r
    BY <1>1, <1>7, <1>10, <2>1, <2>3
  <2>5. QED
    BY <1>6, <1>7, <2>1, <2>4
<1>11. LineWhole(sent)'
  <2>1. ASSUME NEW i \in 1..Len(Line')
        PROVE  /\ Line'[i].frame \in 0..frames' /\ (Line'[i].frame = 0 => 0 \in torn')
               /\ \A j \in 1..Len(Line') : i < j => Line'[i].frame <= Line'[j].frame
    <3>1. CASE ~(i \in 1..r)
      <4>1. Line'[i].frame = frames
        BY <1>7, <3>1
      <4>2. \A j \in 1..Len(Line') : i < j => ~(j \in 1..r)
        BY <1>2, <1>7, <3>1
      <4>3. \A j \in 1..Len(Line') : i < j => Line'[j].frame = frames
        BY <1>7, <4>2
      <4>4. QED
        BY <1>1, <1>3, <4>1, <4>3
    <3>2. CASE i \in 1..r
      <4>1. i \in 1..Len(Line) /\ Line'[i] = Line[i]
        BY <1>2, <1>6, <1>7, <3>2
      <4>2. /\ Line[i].frame \in 0..frames /\ (Line[i].frame = 0 => 0 \in torn)
            /\ \A j \in 1..Len(Line) : i < j => Line[i].frame <= Line[j].frame
        BY <1>0, <4>1 DEF LineWhole
      <4>3. ASSUME NEW j \in 1..Len(Line'), i < j PROVE Line'[i].frame <= Line'[j].frame
        <5>1. CASE j \in 1..r
          <6>1. j \in 1..Len(Line) /\ Line'[j] = Line[j]
            BY <1>2, <1>6, <1>7, <5>1
          <6>2. QED
            BY <4>1, <4>2, <4>3, <6>1
        <5>2. CASE ~(j \in 1..r)
          <6>1. Line'[j].frame = frames
            BY <1>7, <5>2
          <6>2. QED
            BY <1>1, <4>1, <4>2, <6>1
        <5>3. QED
          BY <5>1, <5>2
      <4>4. QED
        BY <1>1, <1>3, <4>1, <4>2, <4>3
    <3>3. QED
      BY <3>1, <3>2
  <2>2. \A i \in 1..Len(outgoing') : outgoing'[i].frame = frames'
    BY <1>1, <1>2, <1>4
  <2>3. ASSUME NEW f \in Whole' \ {0}, Line' # << >>, Line'[1].frame < f PROVE OnLine(f)'
    <3>1. 1 \in 1..Len(Line') \/ Len(Line') = 0
      BY <1>2, <1>7
    <3>2. f \in Whole \ {0} /\ Line'[1] = Line[1] /\ Line # << >>
      <4>1. Line' \in Seq(Bytes)
        BY <1>1, <1>2, ConcatProperties DEF Line
      <4>2. 1 \in 1..Len(Line')
        BY <2>3, <3>1, <4>1, EmptySeq
      <4>3. Line'[1].frame \in 0..frames /\ f \in 0..frames
        BY <1>1, <1>5, <2>1, <4>2
      <4>4. QED
        BY <1>1, <1>10, <2>3, <4>3
    <3>3. OnLine(f)
      BY <1>0, <2>3, <3>2 DEF LineWhole
    <3>4. QED
      BY <1>9, <3>3
  <2>4. QED
    BY <1>8, <2>1, <2>2, <2>3 DEF LineWhole
<1>12. Receiver(sent)'
  <2>1. ASSUME NEW f \in Whole', NEW k \in 0..(FrameLen - 1),
               Line' # << >>, Line'[1].frame = f, Line'[1].place = k + 1
        PROVE  Meets(sent, f, k)'
    <3>1. f # 0
      <4>1. Line' \in Seq(Bytes)
        BY <1>1, <1>2, ConcatProperties DEF Line
      <4>2. 1 \in 1..Len(Line')
        BY <1>2, <1>7, <2>1, <4>1, EmptySeq
      <4>3. Line'[1].frame = 0 => 0 \in torn'
        BY <1>11, <4>2 DEF LineWhole
      <4>4. QED
        BY <2>1, <4>3 DEF Whole
    <3>2. f \in Whole \ {0} /\ Line'[1] = Line[1] /\ Line # << >>
      <4>1. f <= f
        BY <1>1, <1>5
      <4>2. QED
        BY <1>10, <2>1, <3>1, <4>1
    <3>3. Meets(sent, f, k)
      BY <1>0, <2>1, <3>2 DEF Receiver
    <3>4. f - 1 \in Whole' => f - 1 \in Whole
      BY <1>5
    <3>5. k > 0 => Within(sent[f], k)'
      BY <1>1, <3>3, SameTask DEF Meets
    <3>6. f - 1 \in Whole' /\ k = 0 => Behind(sent, f - 1)'
      BY <1>1, <3>3, <3>4, SameTask DEF Meets, Behind
    <3>7. f - 1 \in Whole' /\ k > 0 => Reads(f, k)'
      BY <1>1, <3>3, <3>4, SameTask DEF Meets
    <3>8. QED
      BY <3>5, <3>6, <3>7 DEF Meets
  <2>2. ASSUME NEW f \in Whole', f # 0, f - 1 \in Whole', ~OnLine(f)'
        PROVE  f \in ToSet(packets')
    BY <1>0, <1>1, <1>5, <1>9, <2>2 DEF Receiver
  <2>3. ASSUME NEW f \in Whole' PROVE f # frames'
    BY <1>1, <1>5
  <2>4. pc' = "scan" => body' = << >>
    BY <1>0, <1>1 DEF Receiver
  <2>5. QED
    BY <2>1, <2>2, <2>3, <2>4 DEF Receiver
<1>13. QED
  BY <1>0, <1>1, <1>11, <1>12 DEF Contained

\* The task starts anew; a frame it had begun is torn.
LEMMA GiveUpContained ==
    ASSUME TypeOK, MarkerApart, Contained, GiveUp
    PROVE  Contained'
<1>0. PICK sent \in [1..frames -> Bodies] : LineWhole(sent) /\ Receiver(sent)
  BY DEF Contained
<1>1. /\ pc = "check" /\ torn' = torn \cup FramesOf(window) \cup FramesOf(body)
      /\ pc' = "scan" /\ window' = << >> /\ body' = << >>
      /\ UNCHANGED <<frames, outgoing, ring, packets>>
      /\ Line' = Line /\ Len(window') = 0 /\ Len(Marker) > 0 /\ Len(Marker) \in Nat
  BY Lengths, EmptySeq DEF GiveUp, ScanAnew, radio, results, Line, MarkerApart
<1>2. Whole' \subseteq Whole /\ Whole \subseteq 0..frames /\ frames \in Nat
  BY <1>1 DEF Whole, TypeOK
<1>3. \A b, k : k > 0 => Within(b, k)'
  BY <1>1 DEF Within, Hears
<1>4. LineWhole(sent)'
  BY <1>0, <1>1, <1>2 DEF LineWhole, OnLine
<1>5. \A f : Behind(sent, f)'
  <2>1. FrameLen > 0
    BY Lengths
  <2>2. QED
    BY <1>1, <1>3, <2>1 DEF Behind
<1>6. ASSUME NEW f \in Whole', NEW k \in 0..(FrameLen - 1),
             Line # << >>, Line[1].frame = f, Line[1].place = k + 1,
             f - 1 \in Whole', k > 0
      PROVE  FALSE
  <2>1. Reads(f, k)
    BY <1>0, <1>2, <1>6 DEF Receiver, Meets
  <2>2. window # << >> /\ window[Len(window)].frame = f
    BY <1>1, <2>1 DEF Reads
  <2>3. Len(window) \in 1..Len(window)
    BY <2>2, EmptySeq DEF TypeOK
  <2>4. f \in torn'
    BY <1>1, <2>2, <2>3 DEF FramesOf
  <2>5. QED
    BY <1>6, <2>4 DEF Whole
<1>7. Receiver(sent)'
  <2>1. \A f \in Whole', k \in 0..(FrameLen - 1) :
           Line' # << >> /\ Line'[1].frame = f /\ Line'[1].place = k + 1
             => Meets(sent, f, k)'
    BY <1>1, <1>3, <1>5, <1>6 DEF Meets
  <2>2. \A f \in Whole' : f # 0 /\ f - 1 \in Whole' /\ ~OnLine(f)' => f \in ToSet(packets')
    BY <1>0, <1>1, <1>2 DEF Receiver, OnLine
  <2>3. QED
    BY <1>1, <1>5, <2>1, <2>2 DEF Receiver
<1>8. QED
  BY <1>0, <1>1, <1>4, <1>7 DEF Contained

LEMMA InitContained == Init => Contained
<1> SUFFICES ASSUME Init PROVE Contained
  OBVIOUS
<1>1. PICK n \in Noises : /\ ring = [i \in 1..Len(n) |-> Byte(n[i], 0, 0)]
                          /\ torn = IF n = << >> THEN {} ELSE {0}
  BY DEF Init
<1>2. /\ frames = 0 /\ outgoing = << >> /\ pc = "scan" /\ window = << >> /\ body = << >>
      /\ Len(outgoing) = 0
  BY EmptySeq DEF Init
<1>3. n \in Seq(0..255) /\ Len(n) \in Nat /\ (Len(n) # 0 => 0 \in torn)
  BY <1>1, UartAssumption, LenProperties, EmptySeq
<1>4. /\ Line = ring /\ Len(ring) = Len(n)
      /\ \A i \in 1..Len(ring) : ring[i].frame = 0
  <2>1. ring \in Seq(Bytes)
    BY TypeInit DEF TypeOK
  <2>2. QED
    BY <1>1, <1>2, <1>3, <2>1, ConcatEmptySeq DEF Line, Byte
<1>5. Whole \ {0} = {}
  BY <1>2 DEF Whole
<1>6. PICK sent \in [1..frames -> Bodies] : TRUE
  <2>1. [f \in 1..0 |-> f] \in [1..0 -> Bodies]
    OBVIOUS
  <2>2. QED
    BY <1>2, <2>1
<1>7. LineWhole(sent)
  BY <1>2, <1>3, <1>4, <1>5 DEF LineWhole
<1>8. Receiver(sent)
  <2>1. Line # << >> => Line[1].frame = 0 /\ 0 \in torn
    <3>1. Line # << >> => Len(n) # 0 /\ 1 \in 1..Len(ring)
      BY <1>3, <1>4, TypeInit, EmptySeq DEF TypeOK
    <3>2. QED
      BY <1>3, <1>4, <3>1
  <2>2. \A f \in Whole : f = 0 /\ 0 \notin torn
    BY <1>2 DEF Whole
  <2>3. QED
    BY <1>2, <2>1, <2>2 DEF Receiver, Behind
<1>9. QED
  BY <1>7, <1>8 DEF Contained

LEMMA ContainedStep == MarkerApart /\ TypeOK /\ Contained /\ [Next]_vars => Contained'
<1> SUFFICES ASSUME MarkerApart, TypeOK, Contained, [Next]_vars PROVE Contained'
  OBVIOUS
<1>0. PICK sent \in [1..frames -> Bodies] : LineWhole(sent) /\ Receiver(sent)
  BY DEF Contained
<1>1. CASE ScanByte \/ ReadByte
  <2>1. /\ ring # << >> /\ ring' = Tail(ring) /\ UNCHANGED <<outgoing, frames, torn>>
    BY <1>1 DEF ScanByte, ReadByte
  <2>2. LineWhole(sent)' /\ Receiver(sent)'
    BY <1>0, <1>1, <2>1, TakeLine, TakeReceiver
  <2>3. QED
    BY <2>1, <2>2 DEF Contained
<1>2. CASE Arrive \/ ReadOn \/ ReadTimesOut \/ Tick \/ UNCHANGED vars
  <2>1. /\ UNCHANGED <<frames, torn, window, body, packets>>
        /\ pc' = pc \/ (pc # "scan" /\ pc' # "scan")
    BY <1>2 DEF Arrive, ReadOn, ReadTimesOut, Tick, vars, radio, reading, results
  <2>2. Line' = Line /\ \A i \in 1..Len(outgoing') : outgoing'[i].frame = frames
    <3>1. CASE UNCHANGED <<ring, outgoing>>
      BY <1>0, <3>1 DEF Line, LineWhole
    <3>2. CASE Arrive
      <4>1. /\ outgoing # << >> /\ ring' = Append(ring, Head(outgoing))
            /\ outgoing' = Tail(outgoing)
            /\ ring \in Seq(Bytes) /\ outgoing \in Seq(Bytes)
        BY <3>2 DEF Arrive, TypeOK
      <4>2. Append(ring, Head(outgoing)) \o Tail(outgoing) = ring \o outgoing
        BY <4>1, OneAcross
      <4>3. ASSUME NEW i \in 1..Len(outgoing') PROVE outgoing'[i].frame = frames
        <5>1. outgoing'[i] = outgoing[i + 1] /\ i + 1 \in 1..Len(outgoing)
          BY <4>1, HeadTailProperties, LenProperties
        <5>2. QED
          BY <1>0, <5>1 DEF LineWhole
      <4>4. QED
        BY <4>1, <4>2, <4>3 DEF Line
    <3>3. QED
      BY <1>2, <3>1, <3>2 DEF ReadOn, ReadTimesOut, Tick, vars, radio
  <2>3. Whole' = Whole
    BY <2>1 DEF Whole
  <2>4. LineWhole(sent)'
    BY <1>0, <2>1, <2>2, <2>3 DEF LineWhole, OnLine
  <2>5. \A b, q : Hears(b, q) => Hears(b, q)'
    BY <2>1 DEF Hears
  <2>6. \A b, k : Within(b, k) => Within(b, k)'
    BY <2>1, <2>5 DEF Within
  <2>7. \A f, k : Reads(f, k) => Reads(f, k)'
    BY <2>1, <2>5 DEF Reads
  <2>8. \A f : Behind(sent, f) => Behind(sent, f)'
    <3>1. Len(body) < BodyLen /\ Len(body) \in Nat /\ FrameLen \in Nat /\ BodyLen \in Nat
      BY Lengths, LenProperties DEF TypeOK
    <3>2. QED
      BY <2>1, <2>6, <3>1 DEF Behind
  <2>9. \A f, k : Meets(sent, f, k) => Meets(sent, f, k)'
    BY <2>3, <2>6, <2>7, <2>8 DEF Meets
  <2>10. Receiver(sent)'
    BY <1>0, <2>1, <2>2, <2>3, <2>8, <2>9 DEF Receiver, OnLine
  <2>11. QED
    BY <2>1, <2>4, <2>10 DEF Contained
<1>3. QED
  BY <1>1, <1>2, SendContained, LoseContained, GiveUpContained DEF Next

\* A loss costs the frame it hits and at most the next one, whatever the bytes of
\* the packets are as long as the marker is found only where it was sent.
THEOREM LossIsContained == MarkerApart => (Spec => []LossContained)
<1> SUFFICES ASSUME MarkerApart PROVE Spec => []LossContained
  OBVIOUS
<1>1. TypeOK /\ Contained => LossContained
  <2> SUFFICES ASSUME TypeOK, Contained, NEW f \in 1..frames, Past(f),
                      f \notin torn, f - 1 \notin torn
               PROVE  f \in ToSet(packets)
    BY DEF LossContained
  <2>1. PICK sent \in [1..frames -> Bodies] : LineWhole(sent) /\ Receiver(sent)
    BY DEF Contained
  <2>2. f \in Whole /\ f - 1 \in Whole /\ f # 0
    BY DEF Whole, TypeOK
  <2>3. ~OnLine(f)
    <3>1. \A i \in 1..Len(ring) : ring[i].frame # f
      BY DEF Past, FramesOf
    <3>2. \A i \in 1..Len(outgoing) : outgoing[i].frame # f
      BY DEF Past, FramesOf
    <3>3. ASSUME NEW i \in 1..Len(Line) PROVE Line[i].frame # f
      <4>1. CASE i \in 1..Len(ring)
        BY <3>1, <4>1, LineIs
      <4>2. CASE ~(i \in 1..Len(ring))
        <5>1. /\ Len(ring) \in Nat /\ Len(outgoing) \in Nat
              /\ Len(Line) = Len(ring) + Len(outgoing)
          BY LineIs, LenProperties DEF TypeOK
        <5>2. i - Len(ring) \in 1..Len(outgoing) /\ Len(ring) + (i - Len(ring)) = i
          BY <4>2, <5>1
        <5>3. Line[i] = outgoing[i - Len(ring)]
          BY <5>2, LineIs
        <5>4. QED
          BY <3>2, <5>2, <5>3
      <4>3. QED
        BY <4>1, <4>2
    <3>4. QED
      BY <3>3 DEF OnLine
  <2>4. QED
    BY <2>1, <2>2, <2>3 DEF Receiver
<1>2. TypeOK /\ Contained /\ [Next]_vars => Contained'
  BY ContainedStep
<1>3. QED
  BY <1>1, <1>2, InitContained, TypeCorrect, PTL DEF Spec
=============================================================================
