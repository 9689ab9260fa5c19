---------------------------- MODULE ObuPipeline ----------------------------
(***************************************************************************)
(* The data path of the OBU (obu/main/main.c): the CAN receive interrupt   *)
(* feeds s_can_rx_queue; can_rx_task numbers each frame, builds the packet *)
(* and offers it to two queues; xbee_tx_task writes to the XBee UART and   *)
(* nats_task (module NatsUplink) publishes over WiFi.                      *)
(*                                                                         *)
(* A frame is its ordinal on the bus.  A packet is the frame together with *)
(* the s_sequence it was given; the other fields are copied unread.        *)
(* can_rx_task has the highest priority on a single core, so one iteration *)
(* of it is one step; only the interrupt may come between two of them.     *)
(***************************************************************************)
EXTENDS Integers, Sequences, SequencesExt

CONSTANTS
    CanQueueLen,    \* OBU_CAN_RX_QUEUE_LEN
    XbeeQueueLen,   \* OBU_XBEE_TX_QUEUE_LEN
    QueueLen,       \* OBU_NATS_QUEUE_LEN
    BatchMax,       \* OBU_NATS_BATCH_MAX_PACKETS
    RingSize,       \* OBU_XBEE_TX_BUF_SIZE, in bytes
    SyncSize,       \* length of the sync marker
    PacketSize,     \* sizeof(zc2x_packet_t)
    MaxFrames       \* bound of the model: frames on the bus

ASSUME ObuAssumption ==
    /\ {CanQueueLen, XbeeQueueLen, QueueLen, BatchMax} \subseteq Nat \ {0}
    /\ {SyncSize, PacketSize} \subseteq Nat \ {0}
    /\ RingSize \in Nat /\ RingSize >= SyncSize + PacketSize
    /\ MaxFrames \in Nat

VARIABLES
    captured,    \* frames seen on the bus
    canQueue,    \* s_can_rx_queue
    s_sequence,  \* the number the next packet gets
    xbeeQueue,   \* s_xbee_tx_queue
    xpc,         \* where xbee_tx_task is
    xpkt,        \* its local pkt, as a sequence of at most one packet
    ring,        \* bytes in the UART driver's TX ring buffer
    xbeeSent,    \* packets completely written to the ring
    linkUp, queue, pc, sock, batch, published   \* as in NatsUplink

canVars == <<captured, canQueue, s_sequence>>
xbeeVars == <<xbeeQueue, xpc, xpkt, ring, xbeeSent>>
natsVars == <<linkUp, queue, pc, sock, batch, published>>
vars == <<canVars, xbeeVars, natsVars>>

Nats == INSTANCE NatsUplink WITH offered <- s_sequence, MaxPackets <- MaxFrames

Init ==
    /\ captured = 0 /\ canQueue = << >> /\ s_sequence = 0
    /\ xbeeQueue = << >> /\ xpc = "wait" /\ xpkt = << >>
    /\ ring = 0 /\ xbeeSent = << >>
    /\ linkUp = FALSE /\ queue = << >> /\ pc = "top"
    /\ sock = FALSE /\ batch = << >> /\ published = << >>

-----------------------------------------------------------------------------
(* Capture.                                                                *)

\* Mutant: the interrupt does not look for room.
OnCanRxDoneUnbounded ==
    /\ captured < MaxFrames
    /\ captured' = captured + 1
    /\ canQueue' = Append(canQueue, captured + 1)
    /\ UNCHANGED <<s_sequence, xbeeVars, natsVars>>

\* on_can_rx_done(): the frame is dropped, unnumbered, when there is no room.
OnCanRxDone ==
    /\ captured < MaxFrames
    /\ captured' = captured + 1
    /\ canQueue' = IF Len(canQueue) < CanQueueLen
                   THEN Append(canQueue, captured + 1)
                   ELSE canQueue
    /\ UNCHANGED <<s_sequence, xbeeVars, natsVars>>

EnqueueXbee(q, p) == IF Len(q) < XbeeQueueLen THEN Append(q, p) ELSE q

\* Mutant: the xQueueSend to the XBee queue waits for room.
OfferToBothWaiting(pkt) ==
    /\ Len(xbeeQueue) < XbeeQueueLen
    /\ xbeeQueue' = EnqueueXbee(xbeeQueue, pkt)
    /\ queue' = Nats!Enqueue(queue, pkt)

\* Mutant: a packet that finds the XBee queue full is not sent over WiFi.
OfferToBothOrNone(pkt) ==
    /\ xbeeQueue' = EnqueueXbee(xbeeQueue, pkt)
    /\ queue' = IF xbeeQueue' = xbeeQueue THEN queue ELSE Nats!Enqueue(queue, pkt)

\* The two xQueueSend() of can_rx_task; neither waits.
OfferToBoth(pkt) ==
    /\ xbeeQueue' = EnqueueXbee(xbeeQueue, pkt)
    /\ queue' = Nats!Enqueue(queue, pkt)

\* Mutant: a number is used up only by a packet for which XBee has room.
CanRxReusesNumber ==
    /\ canQueue # << >>
    /\ OfferToBoth([seq |-> s_sequence, frame |-> Head(canQueue)])
    /\ canQueue' = Tail(canQueue)
    /\ s_sequence' = IF xbeeQueue' = xbeeQueue THEN s_sequence ELSE s_sequence + 1
    /\ UNCHANGED <<captured, xpc, xpkt, ring, xbeeSent>>
    /\ UNCHANGED <<linkUp, pc, sock, batch, published>>

\* One iteration of can_rx_task.  packet_init cannot fail: the interrupt has
\* clamped dlc to 8.
CanRx ==
    /\ canQueue # << >>
    /\ OfferToBoth([seq |-> s_sequence, frame |-> Head(canQueue)])
    /\ canQueue' = Tail(canQueue)
    /\ s_sequence' = s_sequence + 1
    /\ UNCHANGED <<captured, xpc, xpkt, ring, xbeeSent>>
    /\ UNCHANGED <<linkUp, pc, sock, batch, published>>

-----------------------------------------------------------------------------
(* The XBee path.                                                          *)

\* Mutant: the sync marker is forgotten.
FrameSizeWithoutSync == PacketSize

FrameSize == SyncSize + PacketSize   \* XBEE_FRAME_SIZE
Free == RingSize - ring              \* uart_get_tx_buffer_free_size()

\* Mutant: xQueuePeek instead of xQueueReceive.
XbeePeek ==
    /\ xpc = "wait" /\ xbeeQueue # << >>
    /\ IF Free < FrameSize
       THEN UNCHANGED <<xpc, xpkt>>
       ELSE xpc' = "sync" /\ xpkt' = <<Head(xbeeQueue)>>
    /\ UNCHANGED <<xbeeQueue, ring, xbeeSent, canVars, natsVars>>

\* xbee_tx_task takes a packet and drops it unless a whole frame fits.
XbeeTake ==
    /\ xpc = "wait" /\ xbeeQueue # << >>
    /\ xbeeQueue' = Tail(xbeeQueue)
    /\ IF Free < FrameSize
       THEN UNCHANGED <<xpc, xpkt>>
       ELSE xpc' = "sync" /\ xpkt' = <<Head(xbeeQueue)>>
    /\ UNCHANGED <<ring, xbeeSent, canVars, natsVars>>

\* The two uart_write_bytes() of xbee_send_packet(); each would wait (or
\* spin) while the ring has no room for its bytes.
WriteSync ==
    /\ xpc = "sync" /\ Free >= SyncSize
    /\ ring' = ring + SyncSize
    /\ xpc' = "packet"
    /\ UNCHANGED <<xbeeQueue, xpkt, xbeeSent, canVars, natsVars>>

WritePacket ==
    /\ xpc = "packet" /\ Free >= PacketSize
    /\ ring' = ring + PacketSize
    /\ xbeeSent' = xbeeSent \o xpkt
    /\ xpkt' = << >>
    /\ xpc' = "wait"
    /\ UNCHANGED <<xbeeQueue, canVars, natsVars>>

\* The UART sends a byte from the ring.
UartDrain ==
    /\ ring > 0
    /\ ring' = ring - 1
    /\ UNCHANGED <<xbeeQueue, xpc, xpkt, xbeeSent, canVars, natsVars>>

XbeeTask == XbeeTake \/ WriteSync \/ WritePacket

-----------------------------------------------------------------------------
(* The WiFi path: nats_task and its link, unchanged from NatsUplink.       *)

NatsStep ==
    /\ Nats!LinkChange \/ Nats!NatsTask
    /\ UNCHANGED <<captured, canQueue, xbeeVars>>

Next == OnCanRxDone \/ CanRx \/ XbeeTask \/ UartDrain \/ NatsStep

Spec == Init /\ [][Next]_vars

(***************************************************************************)
(* Only can_rx_task, which has the highest priority, is sure to run: the   *)
(* two output tasks may be starved, blocked or stuck for ever.             *)
(***************************************************************************)
FairSpec == Spec /\ WF_vars(CanRx)

-----------------------------------------------------------------------------
(* Properties.                                                             *)

Packet == [seq : Nat, frame : Nat]

TypeOK ==
    /\ captured \in Nat /\ s_sequence \in Nat
    /\ canQueue \in Seq(Nat) /\ Len(canQueue) <= CanQueueLen
    /\ xbeeQueue \in Seq(Packet) /\ Len(xbeeQueue) <= XbeeQueueLen
    /\ xpc \in {"wait", "sync", "packet"}
    /\ xpkt \in Seq(Packet) /\ Len(xpkt) <= 1
    /\ ring \in 0..RingSize
    /\ xbeeSent \in Seq(Packet)
    /\ queue \in Seq(Packet) /\ Len(queue) <= QueueLen
    /\ batch \in Seq(Packet) /\ published \in Seq(Packet)

XbeePackets == ToSet(xbeeSent) \cup ToSet(xpkt) \cup ToSet(xbeeQueue)
NatsPackets == ToSet(published) \cup ToSet(batch) \cup ToSet(queue)

\* (device_id, sequence) names one captured frame on both paths, and the
\* numbers follow the order of the bus: what the deduplication of
\* services/input/nats relies on when it keeps whichever copy comes first.
OneSequenceOneFrame ==
    \A p, q \in XbeePackets \cup NatsPackets :
        /\ p.seq = q.seq <=> p.frame = q.frame
        /\ p.seq < q.seq <=> p.frame < q.frame

\* xbee_tx_task never enters uart_write_bytes() without room for its bytes,
\* where the driver would spin on a full ring, although the free size was
\* read before both writes.
UartHasRoom ==
    /\ xpc = "sync" => Free >= FrameSize
    /\ xpc = "packet" => Free >= PacketSize

\* Neither a saturated XBee link nor a lost WiFi link stops the capture: every
\* frame that got into s_can_rx_queue is taken out and numbered.
CaptureGoesOn == \A f \in 1..MaxFrames :
    f \in ToSet(canQueue) ~> f \notin ToSet(canQueue)

Ordinals(q) == [i \in 1..Len(q) |-> q[i].seq + 1]

\* Each path alone is a lossy FIFO of the packets built by can_rx_task...
XbeeFifo == INSTANCE LossyFifo
    WITH sent <- s_sequence, delivered <- Ordinals(xbeeSent)
XbeeFifoSpec == XbeeFifo!Spec

\* ... and the OBU with both paths implements the uplink of NatsUplink, with
\* can_rx_task as its producer.
Uplink == INSTANCE NatsUplink
    WITH offered <- s_sequence, MaxPackets <- MaxFrames,
         queue <- Ordinals(queue), batch <- Ordinals(batch),
         published <- Ordinals(published)
UplinkSpec == Uplink!Spec
=============================================================================
