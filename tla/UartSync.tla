------------------------------ MODULE UartSync ------------------------------
(***************************************************************************)
(* The receiving side of the XBee link: uart_rx_task and uart_read_exact   *)
(* of the RSU (rsu main.c).  The OBU sends every packet behind a marker;   *)
(* the task reads byte by byte until it has seen the marker, then reads as *)
(* many bytes as a packet has, validates them, and queues the packet for   *)
(* nats_task.  The radio may lose bytes anywhere and pause anywhere.       *)
(*                                                                         *)
(* A byte is its value, the frame it was sent in and its place in that     *)
(* frame, marker included; noise is of frame 0, place 0.  The validation   *)
(* and its CRC are taken to accept exactly the bytes of one packet in      *)
(* order; the task itself looks at nothing but values.                     *)
(***************************************************************************)
EXTENDS Integers, Sequences

CONSTANTS
    Marker,      \* the values of the sync marker
    Bodies,      \* the packets, as sequences of values
    BodyLen,     \* sizeof(zc2x_packet_t)
    Noises,      \* what may be on the line at startup, as sequences of values
    Timeout,     \* RSU_UART_PACKET_READ_TIMEOUT_MS, in ticks
    TickMod,     \* the tick counter wraps here: 2^32
    RingLen,     \* RSU_XBEE_UART_RX_BUF_SIZE
    MaxFrames    \* bound of the model: frames sent

ASSUME UartAssumption ==
    /\ BodyLen \in Nat \ {0} /\ RingLen \in Nat \ {0} /\ MaxFrames \in Nat
    /\ TickMod \in Nat /\ Timeout \in 1..(TickMod - 1)
    /\ Marker \in Seq(0..255)
    /\ \A b \in Bodies : b \in Seq(0..255) /\ Len(b) = BodyLen
    /\ \A n \in Noises : n \in Seq(0..255) /\ Len(n) <= RingLen

VARIABLES
    frames,    \* how many frames the OBU has sent
    outgoing,  \* bytes of the last frame still in the XBees
    ring,      \* bytes in the UART's ring buffer
    torn,      \* ghost: frames that lost a byte or were given up half-way
    pc,        \* scan for the marker, check the deadline, or read the packet
    window,    \* sync[]: the last bytes read
    body,      \* what uart_read_exact has collected
    tick,      \* xTaskGetTickCount()
    deadline,  \* deadline of uart_read_exact
    wait,      \* ticks uart_read_bytes will still wait
    packets,   \* ghost: the frames of the packets that were valid, in order
    relayed    \* the frames put into s_packet_queue, in order

radio == <<frames, outgoing, ring>>
reading == <<deadline, wait>>
results == <<packets, relayed>>
vars == <<radio, torn, pc, window, body, tick, reading, results>>

FrameLen == Len(Marker) + BodyLen
Byte(v, f, p) == [value |-> v, frame |-> f, place |-> p]
Values(bytes) == [i \in 1..Len(bytes) |-> bytes[i].value]
FramesOf(bytes) == {bytes[i].frame : i \in 1..Len(bytes)}
ToSet(s) == {s[i] : i \in 1..Len(s)}

Frame(f, b) ==
    [i \in 1..FrameLen |-> Byte((Marker \o b)[i], f, i)]

Bytes == [value : 0..255, frame : Nat, place : 0..FrameLen]

TypeOK ==
    /\ frames \in 0..MaxFrames
    /\ outgoing \in Seq(Bytes)
    /\ ring \in Seq(Bytes) /\ Len(ring) <= RingLen
    /\ torn \subseteq Nat
    /\ pc \in {"scan", "check", "read"}
    /\ window \in Seq(Bytes) /\ Len(window) <= Len(Marker)
    /\ body \in Seq(Bytes) /\ Len(body) < BodyLen
    /\ tick \in 0..(TickMod - 1) /\ deadline \in 0..(TickMod - 1)
    /\ wait \in 0..(TickMod - 1)
    /\ packets \in Seq(Nat) /\ relayed \in Seq(Nat)

Init ==
    /\ frames = 0 /\ outgoing = << >>
    /\ \E n \in Noises :
         /\ ring = [i \in 1..Len(n) |-> Byte(n[i], 0, 0)]
         /\ torn = IF n = << >> THEN {} ELSE {0}
    /\ pc = "scan" /\ window = << >> /\ body = << >>
    /\ tick = 0 /\ deadline = 0 /\ wait = 0
    /\ packets = << >> /\ relayed = << >>

-----------------------------------------------------------------------------
(* The radio *)

Send(b) ==
    /\ frames < MaxFrames /\ outgoing = << >>
    /\ frames' = frames + 1
    /\ outgoing' = Frame(frames + 1, b)
    /\ UNCHANGED <<ring, torn, pc, window, body, tick, reading, results>>

Arrive ==
    /\ outgoing # << >> /\ Len(ring) < RingLen
    /\ ring' = Append(ring, Head(outgoing))
    /\ outgoing' = Tail(outgoing)
    /\ UNCHANGED <<frames, torn, pc, window, body, tick, reading, results>>

\* A byte is lost on the air, or the ring buffer is full.
Lose ==
    /\ outgoing # << >>
    /\ torn' = torn \cup {Head(outgoing).frame}
    /\ outgoing' = Tail(outgoing)
    /\ UNCHANGED <<frames, ring, pc, window, body, tick, reading, results>>

-----------------------------------------------------------------------------
(* uart_rx_task *)

\* sync[] moves up by one byte.
Shifted(b) ==
    LET w == Append(window, b)
    IN  IF Len(w) > Len(Marker) THEN Tail(w) ELSE w

Found == Values(window') = Marker

\* One byte is read and shifted into sync[]; behind the marker a packet is
\* awaited, for Timeout ticks from now.
ScanByte ==
    /\ pc = "scan" /\ ring # << >>
    /\ window' = Shifted(Head(ring))
    /\ ring' = Tail(ring)
    /\ IF Found
       THEN /\ pc' = "check"
            /\ deadline' = (tick + Timeout) % TickMod
       ELSE UNCHANGED <<pc, deadline>>
    /\ UNCHANGED <<frames, outgoing, torn, body, tick, wait, results>>

Remaining == IF deadline > tick THEN deadline - tick ELSE 0

\* sync[] is cleared where the scan starts anew; what uart_read_exact kept is
\* gone.
ScanAnew ==
    /\ pc' = "scan"
    /\ window' = << >> /\ body' = << >>
    /\ deadline' = 0 /\ wait' = 0

\* The loop of uart_read_exact goes on: uart_read_bytes may take this long.
ReadOn ==
    /\ pc = "check" /\ Remaining > 0
    /\ pc' = "read"
    /\ wait' = Remaining
    /\ UNCHANGED <<radio, torn, window, body, tick, deadline, results>>

\* No time is left; the bytes read so far are discarded.
GiveUp ==
    /\ pc = "check" /\ Remaining = 0
    /\ torn' = torn \cup FramesOf(window) \cup FramesOf(body)
    /\ ScanAnew
    /\ UNCHANGED <<radio, tick, results>>

\* zc2x_packet_validate: all the bytes of one packet, in order.
IsPacket(bytes) ==
    /\ \A i \in 1..BodyLen : bytes[i].place = Len(Marker) + i
    /\ \A i, j \in 1..BodyLen : bytes[i].frame = bytes[j].frame

\* The frame a packet is of; Noise when its bytes are of several.
Noise == 0
FrameOf(bytes) == IF IsPacket(bytes) THEN bytes[1].frame ELSE Noise

\* xQueueSend without waiting: the packet is dropped when the queue is full.
Relay(bytes) ==
    /\ packets' = Append(packets, FrameOf(bytes))
    /\ relayed' = relayed \/ relayed' = Append(relayed, FrameOf(bytes))

\* Mutant: the length is taken for proof enough.
RelayUnchecked(bytes) ==
    /\ ScanAnew
    /\ Relay(bytes)

\* Mutant: after an invalid packet the next one is read without a scan.
HandleWithoutScan(bytes) ==
    IF IsPacket(bytes)
    THEN Relay(bytes) /\ ScanAnew
    ELSE /\ pc' = "check" /\ body' = << >>
         /\ deadline' = (tick + Timeout) % TickMod
         /\ UNCHANGED <<window, wait, results>>

\* A complete packet: relay it if it is valid, and scan anew.
Handle(bytes) ==
    /\ ScanAnew
    /\ IF IsPacket(bytes) THEN Relay(bytes) ELSE UNCHANGED results

\* uart_read_bytes takes a byte; the last one completes the packet.  After any
\* other it may return to the loop or wait for more.
ReadByte ==
    /\ pc = "read" /\ ring # << >>
    /\ ring' = Tail(ring)
    /\ LET bytes == Append(body, Head(ring))
       IN  IF Len(bytes) = BodyLen
           THEN Handle(bytes)
           ELSE /\ body' = bytes
                /\ pc' \in {"read", "check"}
                /\ UNCHANGED <<window, reading, results>>
    /\ UNCHANGED <<frames, outgoing, torn, tick>>

\* uart_read_bytes has waited long enough for bytes that do not come.
ReadTimesOut ==
    /\ pc = "read" /\ wait = 0 /\ ring = << >>
    /\ pc' = "check"
    /\ UNCHANGED <<radio, torn, window, body, tick, reading, results>>

\* Time.  The task has the CPU when it needs it: no time passes while it has
\* something to do.
Tick ==
    /\ \/ pc = "scan" /\ ring = << >> /\ wait' = wait
       \/ pc = "read" /\ ring = << >> /\ wait > 0 /\ wait' = wait - 1
    /\ tick' = (tick + 1) % TickMod
    /\ UNCHANGED <<radio, torn, pc, window, body, deadline, results>>

Next ==
    \/ \E b \in Bodies : Send(b)
    \/ Arrive \/ Lose
    \/ ScanByte \/ ReadOn \/ GiveUp \/ ReadByte \/ ReadTimesOut
    \/ Tick

Spec == Init /\ [][Next]_vars

-----------------------------------------------------------------------------
(* Properties *)

\* Seen from the server the link is a lossy FIFO: what is relayed was sent,
\* once and in order, however often the scanner is misled.
Fifo == INSTANCE LossyFifo WITH sent <- frames, delivered <- relayed

FifoSpec == Fifo!Spec

\* All bytes of frame f have been read or lost.
Past(f) == f <= frames /\ f \notin FramesOf(ring) \cup FramesOf(outgoing)

\* The marker is found only where it was sent: nowhere else in a frame, nor where
\* the marker of the next frame adjoins it.
MarkerApart ==
    /\ Marker # << >>
    /\ \A b \in Bodies : \A i \in 2..FrameLen :
          \E j \in 1..Len(Marker) : (Marker \o b \o Marker)[i + j - 1] # Marker[j]

\* A loss costs the frame it hits and at most the next one: a frame that came
\* whole, behind one that came whole, is read as a packet.  This is what the
\* marker is for (rsu main.c:493-499); it takes MarkerApart.
LossContained ==
    pc = "scan" =>
        \A f \in 1..frames :
            Past(f) /\ f \notin torn /\ f - 1 \notin torn => f \in ToSet(packets)
=============================================================================
