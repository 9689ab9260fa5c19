---------------------------- MODULE NatsUplink -----------------------------
(***************************************************************************)
(* nats_task of the OBU firmware (obu/main/main.c; the RSU runs the same   *)
(* code): it drains s_nats_queue into a batch and publishes a batch as one *)
(* NATS message when it is full or when no packet arrives for a while.     *)
(*                                                                         *)
(* The producer task (can_rx_task, uart_rx_task) never waits for it: a     *)
(* packet that finds the queue full is dropped.  WIFI_CONNECTED_BIT is     *)
(* written by wifi_event_handler (module WifiFailover) and changes here at *)
(* any moment; the task looks at it only at the top of its loop.           *)
(*                                                                         *)
(* Packets are the ordinals in which the producer offered them.  What the  *)
(* network does with bytes that send() accepted is outside: "published"    *)
(* is the sequence of packets handed to a connected socket.                *)
(***************************************************************************)
EXTENDS Integers, Sequences

CONSTANTS
    QueueLen,    \* OBU_NATS_QUEUE_LEN, RSU_NATS_QUEUE_LEN
    BatchMax,    \* OBU_NATS_BATCH_MAX_PACKETS, the length of batch[]
    MaxPackets   \* bound of the model: how many packets the producer offers

ASSUME UplinkAssumption ==
    /\ QueueLen \in Nat \ {0}
    /\ BatchMax \in Nat \ {0}
    /\ MaxPackets \in Nat

VARIABLES
    linkUp,      \* WIFI_CONNECTED_BIT
    offered,     \* packets the producer has offered so far
    queue,       \* s_nats_queue
    pc,          \* where nats_task is in its loop
    sock,        \* nats_sock >= 0
    batch,       \* batch[0 .. batch_count-1]
    published    \* packets of every nats_publish() that returned 0

vars == <<linkUp, offered, queue, pc, sock, batch, published>>
link == <<linkUp, sock>>

PCs == {"top", "connect", "receive", "publish", "process"}

Init ==
    /\ linkUp = FALSE
    /\ offered = 0
    /\ queue = << >>
    /\ pc = "top"
    /\ sock = FALSE
    /\ batch = << >>
    /\ published = << >>

-----------------------------------------------------------------------------
(* The environment of the task.                                            *)

\* wifi_event_handler sets or clears WIFI_CONNECTED_BIT.
LinkChange ==
    /\ linkUp' = ~linkUp
    /\ UNCHANGED <<offered, queue, pc, sock, batch, published>>

\* Mutant: the queue takes one packet too many.
EnqueueOneTooMany(q, p) == IF Len(q) <= QueueLen THEN Append(q, p) ELSE q

\* Mutant: xQueueSendToFront.
EnqueueAtFront(q, p) == IF Len(q) < QueueLen THEN <<p>> \o q ELSE q

\* xQueueSend(s_nats_queue, &pkt, 0): the packet is dropped when there is
\* no room.
Enqueue(q, p) == IF Len(q) < QueueLen THEN Append(q, p) ELSE q

Offer ==
    /\ offered < MaxPackets
    /\ offered' = offered + 1
    /\ queue' = Enqueue(queue, offered + 1)
    /\ UNCHANGED <<linkUp, pc, sock, batch, published>>

-----------------------------------------------------------------------------
(* nats_task, one action per blocking call and outcome.                    *)

\* Mutant: batch_count is not reset.
LinkDownKeepsBatch ==
    /\ pc = "top" /\ ~linkUp
    /\ sock' = FALSE
    /\ UNCHANGED <<linkUp, offered, queue, pc, batch, published>>

\* No WiFi: the socket is closed and a partial batch is given up.
LinkDown ==
    /\ pc = "top" /\ ~linkUp
    /\ sock' = FALSE
    /\ batch' = << >>
    /\ UNCHANGED <<linkUp, offered, queue, pc, published>>

LinkSeenUp ==
    /\ pc = "top" /\ linkUp
    /\ pc' = IF sock THEN "receive" ELSE "connect"
    /\ UNCHANGED <<link, offered, queue, batch, published>>

ConnectOk ==
    /\ pc = "connect"
    /\ sock' = TRUE
    /\ pc' = "receive"
    /\ UNCHANGED <<linkUp, offered, queue, batch, published>>

ConnectFail ==
    /\ pc = "connect"
    /\ pc' = "top"
    /\ UNCHANGED <<link, offered, queue, batch, published>>

\* xQueueReceive(s_nats_queue, &batch[batch_count], ...) = pdTRUE.
Receive ==
    /\ pc = "receive" /\ queue # << >>
    /\ batch' = Append(batch, Head(queue))
    /\ queue' = Tail(queue)
    /\ pc' = IF Len(batch') < BatchMax THEN "top" ELSE "publish"
    /\ UNCHANGED <<link, offered, published>>

\* Mutant: only a full batch is published.
ReceiveTimeoutWaitsForFull ==
    /\ pc = "receive" /\ queue = << >>
    /\ pc' = "process"
    /\ UNCHANGED <<link, offered, queue, batch, published>>

\* Nothing came within OBU_NATS_BATCH_MAX_AGE_MS.
ReceiveTimeout ==
    /\ pc = "receive" /\ queue = << >>
    /\ pc' = IF batch = << >> THEN "process" ELSE "publish"
    /\ UNCHANGED <<link, offered, queue, batch, published>>

\* Mutant: batch_count is not reset.
PublishOkKeepsBatch ==
    /\ pc = "publish"
    /\ published' = published \o batch
    /\ pc' = "process"
    /\ UNCHANGED <<link, offered, queue, batch>>

PublishOk ==
    /\ pc = "publish"
    /\ published' = published \o batch
    /\ batch' = << >>
    /\ pc' = "process"
    /\ UNCHANGED <<link, offered, queue>>

\* Mutant: the batch is kept for another try.
PublishFailKeepsBatch ==
    /\ pc = "publish"
    /\ sock' = FALSE
    /\ pc' = "top"
    /\ UNCHANGED <<linkUp, offered, queue, batch, published>>

PublishFail ==
    /\ pc = "publish"
    /\ sock' = FALSE
    /\ batch' = << >>
    /\ pc' = "top"
    /\ UNCHANGED <<linkUp, offered, queue, published>>

\* nats_process(): answer a PING, or find the connection dead.
ProcessOk ==
    /\ pc = "process"
    /\ pc' = "top"
    /\ UNCHANGED <<link, offered, queue, batch, published>>

ProcessFail ==
    /\ pc = "process"
    /\ sock' = FALSE
    /\ pc' = "top"
    /\ UNCHANGED <<linkUp, offered, queue, batch, published>>

NatsTask ==
    \/ LinkDown \/ LinkSeenUp
    \/ ConnectOk \/ ConnectFail
    \/ Receive \/ ReceiveTimeout
    \/ PublishOk \/ PublishFail
    \/ ProcessOk \/ ProcessFail

Next == LinkChange \/ Offer \/ NatsTask

Spec == Init /\ [][Next]_vars

(***************************************************************************)
(* FreeRTOS runs nats_task whenever it is ready: every blocking call of it *)
(* returns (nats_connect() and send() by a TCP time-out at the latest).    *)
(***************************************************************************)
FairSpec == Spec /\ WF_vars(NatsTask)

-----------------------------------------------------------------------------
(* Properties.                                                             *)

TypeOK ==
    /\ linkUp \in BOOLEAN
    /\ offered \in Nat
    /\ queue \in Seq(Nat) /\ Len(queue) <= QueueLen
    /\ pc \in PCs
    /\ sock \in BOOLEAN
    /\ batch \in Seq(Nat)
    /\ published \in Seq(Nat)

\* The whole way of a packet: order is strict from what was published over
\* the open batch to the queue, and nothing is newer than what was offered.
Increasing(s) == \A i, j \in 1..Len(s) : i < j => s[i] < s[j]
Before(s, t) == \A i \in 1..Len(s), j \in 1..Len(t) : s[i] < t[j]
Within(s, n) == \A i \in 1..Len(s) : s[i] \in 1..n

\* A packet is published at most once and never after a younger one, whatever
\* drops, lost links, failed publishes and reconnections lie between.
FifoOrder ==
    /\ Increasing(published) /\ Increasing(batch) /\ Increasing(queue)
    /\ Before(published, batch) /\ Before(batch, queue)
    /\ Before(published, queue)
    /\ Within(published, offered) /\ Within(batch, offered)
    /\ Within(queue, offered)

\* xQueueReceive writes to batch[batch_count]: there is always a free slot
\* when the task gets there, though batch_count is reset in four places.
BatchFits ==
    /\ Len(batch) <= BatchMax
    /\ pc \in {"top", "connect", "receive"} => Len(batch) < BatchMax

\* A batch never outlives the connection it was collected for, and send() and
\* recv() are never called on a closed socket.
BatchHasSocket ==
    /\ batch # << >> => sock
    /\ pc \in {"receive", "publish", "process"} => sock
    /\ pc = "publish" => batch # << >>

\* A started batch does not wait for ever for the packets that would fill it
\* (nor for a link that is down): it is published or given up.
BatchFlushed == batch # << >> ~> batch = << >>

\* The task implements the lossy FIFO of module LossyFifo.
Fifo == INSTANCE LossyFifo WITH sent <- offered, delivered <- published
FifoSpec == Fifo!Spec
=============================================================================
