------------------------------ MODULE CanDriver ------------------------------
(***************************************************************************)
(* The CAN driver as its callers describe it (comment above                *)
(* s_payload_buffers in ecu main.c): twai_node_transmit queues a pointer   *)
(* to the frame and returns; the frame and its payload are read when the   *)
(* hardware gets to them.                                                  *)
(*                                                                         *)
(* A frame is the message it is of and the two parts of its payload, each  *)
(* the ordinal of the encoding that wrote it; a payload is whole when they *)
(* are equal.                                                              *)
(***************************************************************************)
EXTENDS Integers, Sequences

CONSTANTS
    Slots,      \* places in memory that hold a frame
    QueueDepth  \* ECU_CAN_TX_QUEUE_DEPTH

VARIABLES
    mem,       \* what each slot holds
    txq,       \* the driver's queue of pointers
    wire,      \* the frames that went out on the bus, in order
    accepted   \* ghost: the frames twai_node_transmit returned ESP_OK for

driver == <<mem, txq, wire, accepted>>

DriverFull == Len(txq) >= QueueDepth

\* twai_node_transmit returns ESP_OK; f is the frame the caller means.
Queue(slot, f) ==
    /\ ~DriverFull
    /\ txq' = Append(txq, slot)
    /\ accepted' = Append(accepted, f)
    /\ UNCHANGED <<mem, wire>>

\* The hardware takes the next frame, as it is in memory now.
PutOnBus ==
    /\ txq # << >>
    /\ wire' = Append(wire, mem[Head(txq)])
    /\ txq' = Tail(txq)
    /\ UNCHANGED <<mem, accepted>>

\* What goes out is what was handed in: the frames on the bus, followed by those
\* the queue points to, are the frames accepted.
Intact == wire \o [k \in 1..Len(txq) |-> mem[txq[k]]] = accepted
=============================================================================
