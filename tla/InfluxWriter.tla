---------------------------- MODULE InfluxWriter ----------------------------
(***************************************************************************)
(* The service services/output/influxdb3: Run (internal/writer.go) pulls   *)
(* decoded records from a durable JetStream consumer, collects them, and   *)
(* writes a batch when it is full or when the ticker fires.  Messages are  *)
(* acknowledged after the write; what is not acknowledged is delivered     *)
(* again, to this process or to the next.                                  *)
(*                                                                         *)
(* A record is the identity of the point BuildPoint makes of it (table,    *)
(* tags and time stamp in milliseconds), or Malformed.  InfluxDB keeps one *)
(* point per identity.  A message is its position in the stream.           *)
(***************************************************************************)
EXTENDS Integers, Sequences, FiniteSets

CONSTANTS
    PointIds,       \* identities of points
    Malformed,      \* a record that does not parse or has an unknown kind
    BatchSize,      \* INFLUXDB_BATCH_SIZE, 5000
    MaxAckPending,  \* the server's limit of unacknowledged messages, 1000
    Prefetch,       \* messages the client library holds ready, 500
    MaxMessages,    \* bound of the model: length of the stream
    MaxExits        \* bound of the model: ends of the process

ASSUME InfluxAssumption ==
    /\ Malformed \notin PointIds
    /\ BatchSize \in Nat \ {0}
    /\ MaxMessages \in Nat /\ MaxExits \in Nat

VARIABLES
    stream,   \* ZC2X_TELEMETRY: the records published so far
    status,   \* what the consumer knows of each: new, pending, acked, termed
    inbox,    \* messages delivered to the iterator, not taken yet
    hand,     \* what the goroutine of iter.Next() offers on msgCh, or Nothing
    pc,       \* select, write, ack, or down when no process runs
    mode,     \* running, or returning: Run returns after the flush
    points,   \* points: the messages they were built from
    pending,  \* pending: the messages still to be acknowledged
    store,    \* InfluxDB: the message that wrote each point last, or Nothing
    exits     \* how often the process ended

server == <<stream, status>>
batch == <<points, pending>>
vars == <<server, inbox, hand, pc, mode, batch, store, exits>>

Nothing == 0
Messages == 1..Len(stream)
ToSet(s) == {s[i] : i \in 1..Len(s)}

TypeOK ==
    /\ stream \in Seq(PointIds \cup {Malformed})
    /\ status \in Seq({"new", "pending", "acked", "termed"})
    /\ Len(status) = Len(stream)
    /\ inbox \in Seq(Messages)
    /\ hand \in Messages \cup {Nothing}
    /\ pc \in {"select", "write", "ack", "down"}
    /\ mode \in {"running", "returning"}
    /\ points \in Seq(Messages) /\ Len(points) <= BatchSize
    /\ pc \in {"select", "down"} => Len(points) < BatchSize
    /\ pending \in Seq(Messages)
    /\ store \in [PointIds -> Messages \cup {Nothing}]
    /\ exits \in 0..MaxExits

Init ==
    /\ stream = << >> /\ status = << >>
    /\ inbox = << >> /\ hand = Nothing
    /\ pc = "select" /\ mode = "running"
    /\ points = << >> /\ pending = << >>
    /\ store = [p \in PointIds |-> Nothing]
    /\ exits = 0

-----------------------------------------------------------------------------
(* JetStream *)

\* The input adapter publishes a record.  Two records have the same identity
\* when two frames of a CAN id were decoded within the same millisecond.
Publish(r) ==
    /\ Len(stream) < MaxMessages
    /\ stream' = Append(stream, r)
    /\ status' = Append(status, "new")
    /\ UNCHANGED <<inbox, hand, pc, mode, batch, store, exits>>

HasRoom == pc # "down" /\ Len(inbox) < Prefetch

\* The oldest new message, unless too many are unacknowledged.
Deliver ==
    /\ HasRoom
    /\ Cardinality({m \in Messages : status[m] = "pending"}) < MaxAckPending
    /\ \E m \in Messages :
         /\ status[m] = "new"
         /\ \A l \in Messages : status[l] = "new" => m <= l
         /\ status' = [status EXCEPT ![m] = "pending"]
         /\ inbox' = Append(inbox, m)
    /\ UNCHANGED <<stream, hand, pc, mode, batch, store, exits>>

\* AckWait (30 s) has passed since the last delivery, or a Nak has arrived.
\* An earlier copy may still be in the process: a write may take as long.
Redeliver(m) ==
    /\ HasRoom
    /\ status[m] = "pending"
    /\ inbox' = Append(inbox, m)
    /\ UNCHANGED <<server, hand, pc, mode, batch, store, exits>>

-----------------------------------------------------------------------------
(* Run *)

\* The goroutine that calls iter.Next().
Pump ==
    /\ pc # "down" /\ hand = Nothing /\ inbox # << >>
    /\ hand' = Head(inbox)
    /\ inbox' = Tail(inbox)
    /\ UNCHANGED <<server, pc, mode, batch, store, exits>>

\* A malformed record is terminated; the error of Term is ignored.
Reject ==
    /\ pc = "select" /\ hand # Nothing /\ stream[hand] = Malformed
    /\ hand' = Nothing
    /\ status' = [status EXCEPT ![hand] = "termed"] \/ UNCHANGED status
    /\ UNCHANGED <<stream, inbox, pc, mode, batch, store, exits>>

\* Mutant: the length is tested before the point is appended.
CollectLate ==
    /\ pc = "select" /\ hand # Nothing /\ stream[hand] # Malformed
    /\ points' = Append(points, hand)
    /\ pending' = Append(pending, hand)
    /\ pc' = IF Len(points) >= BatchSize THEN "write" ELSE "select"
    /\ hand' = Nothing
    /\ UNCHANGED <<server, inbox, mode, store, exits>>

\* A point is appended; a full batch is flushed.
Collect ==
    /\ pc = "select" /\ hand # Nothing /\ stream[hand] # Malformed
    /\ points' = Append(points, hand)
    /\ pending' = Append(pending, hand)
    /\ pc' = IF Len(points') >= BatchSize THEN "write" ELSE "select"
    /\ hand' = Nothing
    /\ UNCHANGED <<server, inbox, mode, store, exits>>

\* Mutant: the ticker, too, waits for a full batch.
TickWaitsForFull ==
    /\ pc = "select"
    /\ pc' = IF Len(points) < BatchSize THEN "select" ELSE "write"
    /\ UNCHANGED <<server, inbox, hand, mode, batch, store, exits>>

\* The ticker fires; an empty batch is not written.
Tick ==
    /\ pc = "select"
    /\ pc' = IF points = << >> THEN "select" ELSE "write"
    /\ UNCHANGED <<server, inbox, hand, mode, batch, store, exits>>

\* ctx is cancelled or the iterator fails: flush and return.
Stop ==
    /\ pc = "select" /\ mode = "running" /\ exits < MaxExits
    /\ mode' = "returning"
    /\ pc' = IF points = << >> THEN "down" ELSE "write"
    /\ exits' = exits + 1
    /\ IF points = << >> THEN inbox' = << >> /\ hand' = Nothing
                         ELSE UNCHANGED <<inbox, hand>>
    /\ UNCHANGED <<server, batch, store>>

\* flush is over; a process that ends loses what it held.
EndFlush ==
    /\ pc' = IF mode = "returning" THEN "down" ELSE "select"
    /\ IF mode = "returning" THEN inbox' = << >> /\ hand' = Nothing
                             ELSE UNCHANGED <<inbox, hand>>
    /\ points' = << >>

\* The points at the indices in S are written.  Of two points of a batch with
\* the same identity InfluxDB may keep either.
Writes(S) ==
    /\ store' \in [PointIds -> ToSet(points) \cup {store[p] : p \in PointIds}]
    /\ \A p \in PointIds :
         LET written == {points[i] : i \in {i \in S : stream[points[i]] = p}}
         IN  store'[p] \in IF written = {} THEN {store[p]} ELSE written

WriteOk ==
    /\ pc = "write"
    /\ Writes(1..Len(points))
    /\ pc' = "ack"
    /\ UNCHANGED <<server, inbox, hand, mode, batch, exits>>

\* Mutant: pending is not emptied after a failed write.
WriteFailKeepsPending ==
    /\ pc = "write"
    /\ EndFlush
    /\ \E S \in SUBSET (1..Len(points)) : Writes(S)
    /\ UNCHANGED <<server, pending, mode, exits>>

\* The write fails or takes longer than 30 s; some points may have been
\* written all the same.  Every message is Nak'ed, and Redeliver may follow.
WriteFail ==
    /\ pc = "write"
    /\ EndFlush
    /\ \E S \in SUBSET (1..Len(points)) : Writes(S)
    /\ pending' = << >>
    /\ UNCHANGED <<server, mode, exits>>

NextAck ==
    /\ pc = "ack" /\ pending # << >>
    /\ pending' = Tail(pending)
    /\ IF Len(pending) = 1 THEN EndFlush
                           ELSE UNCHANGED <<pc, inbox, hand, points>>
    /\ UNCHANGED <<stream, mode, store, exits>>

AckOk(m) ==
    /\ NextAck
    /\ Head(pending) = m
    /\ status' = [status EXCEPT ![m] = "acked"]

\* The error is logged; the server never hears of it.
AckFail ==
    /\ NextAck
    /\ UNCHANGED status

\* The process dies at any point.
Crash ==
    /\ pc # "down" /\ exits < MaxExits
    /\ pc' = "down"
    /\ exits' = exits + 1
    /\ inbox' = << >> /\ hand' = Nothing
    /\ points' = << >> /\ pending' = << >>
    /\ UNCHANGED <<server, mode, store>>

\* "restart: unless-stopped".  The durable consumer is where it was.
Restart ==
    /\ pc = "down"
    /\ pc' = "select" /\ mode' = "running"
    /\ UNCHANGED <<server, inbox, hand, batch, store, exits>>

Next ==
    \/ \E r \in PointIds \cup {Malformed} : Publish(r)
    \/ Deliver
    \/ \E m \in Messages : Redeliver(m) \/ AckOk(m)
    \/ Pump \/ Reject \/ Collect \/ Tick \/ Stop
    \/ WriteOk \/ WriteFail \/ AckFail
    \/ Crash \/ Restart

Spec == Init /\ [][Next]_vars

(***************************************************************************)
(* The goroutines run, the ticker fires, and the container is restarted    *)
(* (WF).  The server delivers what is due whenever it can, and again what  *)
(* the process no longer has; that copies of what it has come meanwhile    *)
(* and fill its batch is possible (AckWait) and is not relied on.  No      *)
(* message is for ever in a batch that fails, for ever not acknowledged,   *)
(* or for ever refused by Term: outages of InfluxDB and NATS end (SF).     *)
(***************************************************************************)
Holds(m) == m \in ToSet(points)
Has(m) == Holds(m) \/ m = hand \/ m \in ToSet(inbox)

Fairness ==
    /\ WF_vars(Pump) /\ WF_vars(Collect) /\ WF_vars(Reject)
    /\ WF_vars(Tick) /\ WF_vars(Restart)
    /\ WF_vars(WriteOk \/ WriteFail)
    /\ WF_vars(AckFail \/ \E m \in 1..MaxMessages : AckOk(m))
    /\ SF_vars(Deliver)
    /\ \A m \in 1..MaxMessages :
        /\ SF_vars(m \in Messages /\ ~Has(m) /\ Redeliver(m))
        /\ SF_vars(Holds(m) /\ WriteOk)
        /\ SF_vars(m \in Messages /\ AckOk(m))
        /\ SF_vars(hand = m /\ Reject /\ status' # status)

FairSpec == Spec /\ Fairness

-----------------------------------------------------------------------------
(* Properties *)

InStore(m) == stream[m] # Malformed /\ store[stream[m]] # Nothing

\* The server forgets a message only when its point is in the store or when it
\* can never become one: "Ack'd only after a successful write" (writer.go:24).
\* It must hold across redeliveries, failed writes and the death of the process.
SettledIsStored ==
    \A m \in Messages :
        /\ status[m] = "acked" => InStore(m)
        /\ status[m] = "termed" => stream[m] = Malformed

\* Every record gets settled: an outage "delays telemetry rather than silently
\* dropping it" (writer.go:25), malformed records do not come back for ever, and
\* a batch that can never fill, because the server stops at MaxAckPending, is
\* written when the ticker fires.
EveryRecordSettled ==
    \A m \in 1..MaxMessages :
        (m \in Messages) ~> (m \in Messages /\ status[m] \in {"acked", "termed"})
=============================================================================
