-------------------------------- MODULE TtuTx --------------------------------
(***************************************************************************)
(* The TTU (ttu main.c): readings of the tyre sensors come in over ESP-NOW *)
(* and are queued; can_tx_task takes them one by one, makes a CAN frame of *)
(* each on its stack, and hands a pointer to it to the driver.  The frame  *)
(* and the payload of every reading are in the same place, Stack.          *)
(***************************************************************************)
EXTENDS CanDriver

CONSTANTS
    Messages,     \* the CAN ids 304 and 336
    Garbage,      \* what is on the stack before
    Stack,        \* where payload and message_frame are
    EspQueueLen,  \* length of s_esp_now_queue, 1024
    MaxReadings   \* bound of the model: readings received

VARIABLES
    readings,  \* ghost: readings received so far
    espq,      \* s_esp_now_queue
    reading,   \* data_packet
    pc         \* receive, payload, frame or transmit

vars == <<driver, readings, espq, reading, pc>>

Init ==
    /\ mem = [s \in Slots |-> [message |-> Garbage, first |-> 0, rest |-> 0]]
    /\ txq = << >> /\ wire = << >> /\ accepted = << >>
    /\ readings = 0 /\ espq = << >> /\ pc = "receive"
    /\ reading = [message |-> Garbage, first |-> 0, rest |-> 0]

\* esp_now_recv_cb: a reading is dropped when the queue is full.
EspNowRecv(m) ==
    /\ readings < MaxReadings
    /\ readings' = readings + 1
    /\ espq' = IF Len(espq) < EspQueueLen
               THEN Append(espq, [message |-> m, first |-> readings', rest |-> readings'])
               ELSE espq
    /\ UNCHANGED <<driver, reading, pc>>

Receive ==
    /\ pc = "receive" /\ espq # << >>
    /\ reading' = Head(espq)
    /\ espq' = Tail(espq)
    /\ pc' = "payload"
    /\ UNCHANGED <<driver, readings>>

\* payload is written, in two steps as in EcuTx, and message_frame after it.
WritePayload ==
    /\ pc = "payload"
    /\ mem' = [mem EXCEPT ![Stack].first = reading.first]
    /\ pc' = "frame"
    /\ UNCHANGED <<txq, wire, accepted, readings, espq, reading>>

WriteFrame ==
    /\ pc = "frame"
    /\ mem' = [mem EXCEPT ![Stack] = reading]
    /\ pc' = "transmit"
    /\ UNCHANGED <<txq, wire, accepted, readings, espq, reading>>

TransmitOk ==
    /\ pc = "transmit"
    /\ Queue(Stack, reading)
    /\ pc' = "receive"
    /\ UNCHANGED <<readings, espq, reading>>

\* Any error, as in EcuTx: the reading is dropped.
TransmitFail ==
    /\ pc = "transmit"
    /\ pc' = "receive"
    /\ UNCHANGED <<driver, readings, espq, reading>>

Transmit == PutOnBus /\ UNCHANGED <<readings, espq, reading, pc>>

Next ==
    \/ \E m \in Messages : EspNowRecv(m)
    \/ Receive \/ WritePayload \/ WriteFrame \/ TransmitOk \/ TransmitFail
    \/ Transmit

Spec == Init /\ [][Next]_vars

-----------------------------------------------------------------------------
(* Property *)

\* Frames go out as they were handed in: "Persistent per-message storage ...
\* why this can't be stack-local" (ttu main.c:103-104).
FramesIntact == Intact
=============================================================================
