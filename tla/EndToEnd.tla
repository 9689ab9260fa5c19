------------------------------ MODULE EndToEnd ------------------------------
(***************************************************************************)
(* A frame on its way from the OBU to the Deduplicator of the adapter,     *)
(* over both paths: by WiFi, and by XBee and the RSU.  The OBU builds one  *)
(* packet of a frame (can_rx_task) and offers it to both; each path loses  *)
(* packets and keeps the order of the others (see LossyFifo and what       *)
(* implements it); the radio damages some on their way to the RSU, which   *)
(* validates a packet before it relays it (uart_rx_task); the adapter      *)
(* decodes what comes and asks the Deduplicator (handleMessage).           *)
(***************************************************************************)
EXTENDS Dedup, Packet, FiniteSets

CONSTANTS
    CanFrame,   \* what the n-th frame is: [canId, data]
    Damages,    \* what the radio may do to one packet; << >> is nothing
    MaxDelay,   \* assumption: no path takes longer
    MaxFlight   \* bound of the model: packets on the way by one path

\* What is assumed of the constants: a device id is six bytes, and what the packet has
\* four bytes for is a uint32_t.
EndToEndAssumption ==
    /\ MaxDelay \in 0..Window
    /\ << >> \in Damages
    /\ \A d \in Devices : d \in Seq(0..255) /\ Len(d) = 6
    /\ \A n \in Seqs : /\ CanFrame[n].data \in Seq(0..255)
                       /\ Len(CanFrame[n].data) <= CanDataSize
    /\ \A n \in {MaxSeq, MaxTime} \cup {CanFrame[m].canId : m \in Seqs} :
         n \in Nat /\ n \div 2^24 < 2^8

VARIABLES
    sequence,  \* s_sequence, of each device
    wifi,      \* packets from each OBU to the adapter
    xbee,      \* packets from each OBU to the RSU
    relay,     \* packets from the RSU to the adapter
    arrived,   \* ghost: keys of which this process got a copy
    stored     \* ghost: the packets this process handed on

paths == <<wifi, xbee, relay>>
evars == <<vars, sequence, paths, arrived, stored>>

\* Millis when the clock shows t; it does not fit a word.
Timestamp(t) == <<t, 1>>

\* A damage maps the bytes it hits to the bits it flips in them.
Damaged(raw, damage) ==
    [k \in 1..Len(raw) |->
       IF k \in DOMAIN damage THEN ByteXor(raw[k], damage[k]) ELSE raw[k]]

\* A copy of a packet on a path, and its bytes.
Copies == [device : Devices, n : Seqs, at : 0..MaxTime, damage : Damages]

Wire(copy) ==
    LET frame == CanFrame[copy.n]
    IN  Damaged(PacketInit(copy.device, copy.n, Timestamp(copy.at), frame.canId, frame.data),
                copy.damage)

\* The copies that pass the check of the RSU, and what the adapter makes of those
\* that pass its own.
Received == {[copy |-> copy, raw |-> Wire(copy)] : copy \in Copies}
Validated == {r.copy : r \in {r \in Received : PacketValidate(r.raw)}}
Decoded ==
    {[copy |-> r.copy, pkt |-> DecodePacket(r.raw)] :
       r \in {r \in Received : PacketDecodes(r.raw)}}

EInit ==
    /\ Init
    /\ sequence = [d \in Devices |-> 0]
    /\ wifi = [d \in Devices |-> << >>]
    /\ xbee = [d \in Devices |-> << >>]
    /\ relay = [d \in Devices |-> << >>]
    /\ arrived = {} /\ stored = << >>

-----------------------------------------------------------------------------

\* can_rx_task: one packet for both queues.
CanRx(d) ==
    LET copy == [device |-> d, n |-> sequence[d], at |-> now, damage |-> << >>]
    IN  /\ sequence[d] <= MaxSeq
        /\ Len(wifi[d]) < MaxFlight /\ Len(xbee[d]) < MaxFlight
        /\ wifi' = [wifi EXCEPT ![d] = Append(@, copy)]
        /\ xbee' = [xbee EXCEPT ![d] = Append(@, copy)]
        /\ sequence' = [sequence EXCEPT ![d] = @ + 1]
        /\ UNCHANGED <<vars, relay, arrived, stored>>

\* A path loses a packet: a full queue, a failed publish, a lost byte.
Lose(d) ==
    /\ \/ wifi[d] # << >> /\ wifi' = [wifi EXCEPT ![d] = Tail(@)] /\ UNCHANGED <<xbee, relay>>
       \/ xbee[d] # << >> /\ xbee' = [xbee EXCEPT ![d] = Tail(@)] /\ UNCHANGED <<wifi, relay>>
       \/ relay[d] # << >> /\ relay' = [relay EXCEPT ![d] = Tail(@)] /\ UNCHANGED <<wifi, xbee>>
    /\ UNCHANGED <<vars, sequence, arrived, stored>>

\* uart_rx_task: the RSU relays a packet as it is when it is valid.
UartRx(d, damage) ==
    /\ xbee[d] # << >>
    /\ LET copy == [Head(xbee[d]) EXCEPT !.damage = damage]
       IN  relay' = IF copy \in Validated THEN [relay EXCEPT ![d] = Append(@, copy)] ELSE relay
    /\ xbee' = [xbee EXCEPT ![d] = Tail(@)]
    /\ UNCHANGED <<vars, sequence, wifi, arrived, stored>>

\* handleMessage, for one packet: dropped when it does not decode or when it is a
\* duplicate, and handed on otherwise.
HandlePacket(copy) ==
    IF \A r \in Decoded : r.copy # copy
    THEN UNCHANGED <<vars, arrived, stored>>
    ELSE \E r \in Decoded :
           /\ r.copy = copy
           /\ arrived' = arrived \cup {<<r.pkt.device, r.pkt.sequence>>}
           /\ IF IsDuplicate(r.pkt.device, r.pkt.sequence)
              THEN UNCHANGED <<vars, stored>>
              ELSE /\ Accept(r.pkt.device, r.pkt.sequence)
                   /\ stored' = Append(stored, r.pkt)

FromObu(d) ==
    /\ wifi[d] # << >>
    /\ HandlePacket(Head(wifi[d]))
    /\ wifi' = [wifi EXCEPT ![d] = Tail(@)]
    /\ UNCHANGED <<sequence, xbee, relay>>

FromRsu(d) ==
    /\ relay[d] # << >>
    /\ HandlePacket(Head(relay[d]))
    /\ relay' = [relay EXCEPT ![d] = Tail(@)]
    /\ UNCHANGED <<sequence, wifi, xbee>>

\* Time passes as long as no packet is overdue.
EndToEndTick ==
    /\ \A d \in Devices : \A path \in {wifi[d], xbee[d], relay[d]} :
         path # << >> => now - Head(path).at < MaxDelay
    /\ Tick
    /\ UNCHANGED <<sequence, paths, arrived, stored>>

EndToEndSweep == Sweep /\ UNCHANGED <<sequence, paths, arrived, stored>>

\* The adapter's process is replaced; the packets on the way are not.
EndToEndRestart ==
    /\ Restart
    /\ arrived' = {} /\ stored' = << >>
    /\ UNCHANGED <<sequence, paths>>

ENext ==
    \/ \E d \in Devices :
         \/ CanRx(d) \/ Lose(d) \/ FromObu(d) \/ FromRsu(d)
         \/ \E damage \in Damages : UartRx(d, damage)
    \/ EndToEndTick
    \/ EndToEndSweep
    \/ EndToEndRestart

ESpec == EInit /\ [][ENext]_evars

-----------------------------------------------------------------------------
(* Properties *)

\* The CRC tells a damaged packet from one that is as it was built.
CrcTells == \A copy \in Copies : PacketValidate(Wire(copy)) <=> copy.damage = << >>

\* The purpose of the two paths ("the same packet can legitimately reach us
\* twice", handleMessage): a frame of which any copy got through is handed on, and
\* once, whichever copy came first and however the paths overtook each other.
EveryArrivalOnce ==
    \A k \in Keys :
        Cardinality({j \in 1..Len(accepted) : accepted[j].key = k})
            = IF k \in arrived THEN 1 ELSE 0

\* What is handed on is what the OBU captured, field for field, whatever the radio
\* did to the copy that came over the RSU: a damaged packet is refused (CrcTells).
StoredAsCaptured ==
    \A j \in 1..Len(stored) :
        LET key == accepted[j].key
            pkt == stored[j]
        IN  /\ <<pkt.device, pkt.sequence>> = key
            /\ \E t \in 0..now : pkt.timestamp = Timestamp(t)
            /\ pkt.canId = CanFrame[key[2]].canId
            /\ SubSeq(pkt.data, 1, pkt.dlc) = CanFrame[key[2]].data
=============================================================================
