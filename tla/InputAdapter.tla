--------------------------- MODULE InputAdapter ----------------------------
(***************************************************************************)
(* The adapter of services/input/nats (internal/adapter.go, signals.go):   *)
(* NATS Core messages from OBUs and RSUs wait in a channel; one goroutine  *)
(* takes a message, and for each packet in it validates, deduplicates      *)
(* (module Dedup), publishes the packet to the raw JetStream stream and    *)
(* then its signals to the telemetry stream.  The same goroutine sweeps.   *)
(*                                                                         *)
(* A device restarts its sequence numbers from 0 when it reboots; "boot"   *)
(* tells the packets of its lives apart, which the adapter cannot.         *)
(***************************************************************************)
EXTENDS Integers, Sequences, SequencesExt

CONSTANTS
    Devices, MaxSeq, Window, MaxTime,   \* as in Dedup
    SweepEvery,   \* period of the sweep ticker: DedupWindow / 2
    PublishTime,  \* the longest a packet's js.Publish calls wait for an answer
    ChanLen,      \* capacity of msgs, the subscription's channel: 64
    Payloads,     \* what a message may hold: sequences of [seq, good]
    MaxMessages,  \* bound of the model: messages published by OBUs and RSUs
    MaxBoots      \* bound of the model: reboots of a device

ASSUME AdapterAssumption ==
    /\ {SweepEvery, ChanLen} \subseteq Nat \ {0}
    /\ {MaxSeq, Window, MaxTime} \subseteq Nat
    /\ {MaxMessages, MaxBoots, PublishTime} \subseteq Nat
    /\ Payloads \subseteq Seq([seq : 0..MaxSeq, good : BOOLEAN])

VARIABLES
    now, swept, seen, lastSeq, accepted, reported,   \* as in Dedup
    boot,        \* the current boot of each device
    messages,    \* messages published so far
    msgs,        \* the channel between the NATS client and the goroutine
    todo,        \* packets of the message being handled, first one next
    step,        \* "select", "packet", "publish" or "signals"
    waited,      \* how long the current step has been blocked
    raw,         \* packets this process added to the raw stream, in order
    telemetry,   \* packets whose telemetry it published, in order
    taken,       \* ghost: packets it accepted, in order
    rejected     \* ghost: packets it dropped as duplicates

dedupVars == <<now, swept, seen, lastSeq, accepted, reported>>
streams == <<raw, telemetry>>
ghosts == <<taken, rejected>>
control == <<step, waited>>
vars == <<dedupVars, boot, messages, msgs, todo, control, streams, ghosts>>

D == INSTANCE Dedup

Init ==
    /\ D!Init
    /\ boot = [d \in Devices |-> 0]
    /\ messages = 0
    /\ msgs = << >> /\ todo = << >>
    /\ step = "select" /\ waited = 0
    /\ raw = << >> /\ telemetry = << >>
    /\ taken = << >> /\ rejected = {}

-----------------------------------------------------------------------------
(* The devices and the NATS client.                                        *)

Packet(d, b, c) == [device |-> d, boot |-> b, seq |-> c.seq, good |-> c.good]

\* Mutant: the channel is not bounded.
ArriveUnbounded ==
    /\ messages < MaxMessages
    /\ messages' = messages + 1
    /\ \E d \in Devices, p \in Payloads : \E b \in 0..boot[d] :
          msgs' = Append(msgs, [i \in 1..Len(p) |-> Packet(d, b, p[i])])
    /\ UNCHANGED <<dedupVars, boot, todo, control, streams, ghosts>>

\* A message arrives over either path, possibly late from an earlier boot; the
\* client drops it when the channel is full (ChanSubscribe).
Arrive ==
    /\ messages < MaxMessages
    /\ messages' = messages + 1
    /\ \E d \in Devices, p \in Payloads : \E b \in 0..boot[d] :
          LET m == [i \in 1..Len(p) |-> Packet(d, b, p[i])]
          IN  msgs' = IF Len(msgs) < ChanLen THEN Append(msgs, m) ELSE msgs
    /\ UNCHANGED <<dedupVars, boot, todo, control, streams, ghosts>>

Reboot(d) ==
    /\ boot[d] < MaxBoots
    /\ boot' = [boot EXCEPT ![d] = @ + 1]
    /\ UNCHANGED <<dedupVars, messages, msgs, todo, control, streams, ghosts>>

-----------------------------------------------------------------------------
(* Run and handleMessage.                                                  *)

Goto(s) == step' = s /\ waited' = 0

\* The select takes a message.  A payload whose size is not a positive
\* multiple of PacketSize (here: the empty one) is dropped whole.
TakeMessage ==
    /\ step = "select" /\ msgs # << >>
    /\ todo' = Head(msgs)
    /\ msgs' = Tail(msgs)
    /\ Goto(IF todo' = << >> THEN "select" ELSE "packet")
    /\ UNCHANGED <<dedupVars, boot, messages, streams, ghosts>>

\* The select takes the tick of the sweep ticker.
SweepTick ==
    /\ step = "select"
    /\ now - swept >= SweepEvery
    /\ D!Sweep
    /\ UNCHANGED <<boot, messages, msgs, todo, control, streams, ghosts>>

pkt == Head(todo)

\* Go on with the next packet, or return to the select.
NextPacket ==
    /\ todo' = Tail(todo)
    /\ Goto(IF Tail(todo) = << >> THEN "select" ELSE "packet")

\* Mutant: the loop does not move past a packet that cannot be decoded.
SkipInvalidStays ==
    /\ step = "packet" /\ ~pkt.good
    /\ Goto("packet")
    /\ UNCHANGED <<dedupVars, boot, messages, msgs, todo, streams, ghosts>>

\* DecodePacket fails: wrong type, dlc or CRC.
SkipInvalid ==
    /\ step = "packet" /\ ~pkt.good
    /\ NextPacket
    /\ UNCHANGED <<dedupVars, boot, messages, msgs, streams, ghosts>>

\* Mutant: a duplicate renews the time of its entry.
SkipDuplicateRenews ==
    /\ step = "packet" /\ pkt.good
    /\ D!IsDuplicate(pkt.device, pkt.seq)
    /\ rejected' = rejected \cup {pkt}
    /\ NextPacket
    /\ seen' = [seen EXCEPT ![<<pkt.device, pkt.seq>>] = now]
    /\ UNCHANGED <<now, swept, lastSeq, accepted, reported>>
    /\ UNCHANGED <<boot, messages, msgs, streams, taken>>

SkipDuplicate ==
    /\ step = "packet" /\ pkt.good
    /\ D!IsDuplicate(pkt.device, pkt.seq)
    /\ rejected' = rejected \cup {pkt}
    /\ NextPacket
    /\ UNCHANGED <<dedupVars, boot, messages, msgs, streams, taken>>

AcceptPacket ==
    /\ step = "packet" /\ pkt.good
    /\ D!Accept(pkt.device, pkt.seq)
    /\ taken' = Append(taken, pkt)
    /\ Goto("publish")
    /\ UNCHANGED <<boot, messages, msgs, todo, streams, rejected>>

\* js.Publish succeeds: stored and acknowledged.
PublishOk ==
    /\ step = "publish"
    /\ raw' = Append(raw, pkt)
    /\ Goto("signals")
    /\ UNCHANGED <<dedupVars, boot, messages, msgs, todo, telemetry, ghosts>>

\* Mutant: the error is logged and the packet decoded all the same.
PublishFailGoesOn ==
    /\ step = "publish"
    /\ raw' = raw \/ raw' = Append(raw, pkt)
    /\ Goto("signals")
    /\ UNCHANGED <<dedupVars, boot, messages, msgs, todo, telemetry, ghosts>>

\* js.Publish returns an error; the server may have stored the packet when
\* only its acknowledgement was late or lost.  The packet is not retried.
PublishFail ==
    /\ step = "publish"
    /\ raw' = raw \/ raw' = Append(raw, pkt)
    /\ NextPacket
    /\ UNCHANGED <<dedupVars, boot, messages, msgs, telemetry, ghosts>>

\* decodeAndPublishSignals: nothing for an unknown CAN id; a record that
\* cannot be published is logged and skipped.
PublishSignals ==
    /\ step = "signals"
    /\ telemetry' = telemetry \/ telemetry' = Append(telemetry, pkt)
    /\ NextPacket
    /\ UNCHANGED <<dedupVars, boot, messages, msgs, raw, ghosts>>

\* The clock.  At the select a due sweep is taken before the clock moves on;
\* a js.Publish waits for its answer, five seconds if none comes.
Blocked == step \in {"publish", "signals"} /\ waited < PublishTime

Tick ==
    /\ D!Tick
    /\ \/ step = "select" /\ now - swept < SweepEvery /\ UNCHANGED waited
       \/ Blocked /\ waited' = waited + 1
    /\ UNCHANGED <<boot, messages, msgs, todo, step, streams, ghosts>>

\* The process ends, at whatever point, and a new one subscribes: what the old
\* one had in its channel, its hands and its memory is gone.
Restart ==
    /\ D!Restart
    /\ msgs' = << >> /\ todo' = << >>
    /\ Goto("select")
    /\ raw' = << >> /\ telemetry' = << >>
    /\ taken' = << >> /\ rejected' = {}
    /\ UNCHANGED <<boot, messages>>

HandleMessage ==
    \/ TakeMessage \/ SkipInvalid \/ SkipDuplicate \/ AcceptPacket
    \/ PublishOk \/ PublishFail \/ PublishSignals

Next ==
    \/ Arrive
    \/ \E d \in Devices : Reboot(d)
    \/ HandleMessage
    \/ SweepTick
    \/ Tick
    \/ Restart

Spec == Init /\ [][Next]_vars

(***************************************************************************)
(* The goroutine is scheduled, and every js.Publish returns.  Go's select  *)
(* chooses at random among ready cases, so a waiting message is taken.     *)
(***************************************************************************)
FairSpec == Spec /\ WF_vars(HandleMessage)

-----------------------------------------------------------------------------
(* Properties.                                                             *)

PacketSet == [device : Devices, boot : 0..MaxBoots, seq : 0..MaxSeq,
              good : BOOLEAN]

TypeOK ==
    /\ D!TypeOK
    /\ boot \in [Devices -> 0..MaxBoots]
    /\ messages \in 0..MaxMessages
    /\ msgs \in Seq(Seq(PacketSet)) /\ Len(msgs) <= ChanLen
    /\ todo \in Seq(PacketSet)
    /\ step \in {"select", "packet", "publish", "signals"}
    /\ waited \in 0..PublishTime
    /\ (step = "select") = (todo = << >>)
    /\ raw \in Seq(PacketSet) /\ telemetry \in Seq(PacketSet)
    /\ taken \in Seq(PacketSet) /\ rejected \subseteq PacketSet

\* s is t with some elements left out.
FollowsIn(s, t) ==
    \E place \in [1..Len(s) -> 1..Len(t)] :
        /\ \A i, j \in 1..Len(s) : i < j => place[i] < place[j]
        /\ \A i \in 1..Len(s) : s[i] = t[place[i]]

\* Telemetry follows the raw stream, which follows the accepted packets: the
\* same packets in the same order, some left out.  With OnceInWindow, a packet
\* is stored and decoded at most once in a window.
StreamsFollow ==
    /\ FollowsIn(telemetry, raw)
    /\ FollowsIn(raw, taken)
    /\ \A i \in 1..Len(taken) : taken[i].good

\* The adapter takes the same (device_id, sequence) again only when more than the
\* window has passed since it last did ("within window of its first arrival",
\* dedup.go:19).  A number comes again as the copy of the other path, and from a
\* device that rebooted and counts from 0 again; entries expire at ticks that a
\* blocked publish delays.
OnceInWindow == D!OnceInWindow

\* What the adapter does to its Deduplicator is what module Dedup allows, so
\* that the theorems about Dedup hold of the adapter.
DedupSpec == D!Spec

\* A message is handled to its end, whatever of it is invalid, a duplicate or
\* cannot be published; and a full channel has room again.
MessagesHandled ==
    /\ todo # << >> ~> todo = << >>
    /\ Len(msgs) = ChanLen ~> Len(msgs) < ChanLen

\* dedup.go:20-22: "whichever of OBU's direct link or RSU's relay delivers a given
\* (device_id, sequence) first is kept; the later duplicate is dropped": a copy is
\* dropped only when the one before it was kept, in the raw stream.
DuplicateWasDelivered == rejected \subseteq ToSet(raw)
=============================================================================
