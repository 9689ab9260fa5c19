-------------------------------- MODULE EcuTx --------------------------------
(***************************************************************************)
(* can_tx_task of the ECU simulator (ecu main.c): on every tick it goes    *)
(* through the table of messages, encodes those that are due into their    *)
(* buffers and hands them to the CAN driver, which reads the buffers later.*)
(*                                                                         *)
(* An encoding writes its payload in several statements, two here.  What   *)
(* it moves and writes is in CarSignals, what the input service makes of   *)
(* it in Candb.                                                            *)
(***************************************************************************)
EXTENDS CanDriver, CarSignals, Candb

CONSTANTS
    Benches,   \* bounds of the model: parts of s_messages, with the rounds to run,
               \* the draws to consider, and the rounds in which the node may be off
               \* the bus
    Places     \* where the car starts: "boot", "low", "high"

\* As in s_messages: no message twice, and those of the PDM by their numbers.
InOrder(table) ==
    \A j, k \in 1..Len(table) :
        j < k => /\ table[j] # table[k]
                 /\ table[j][1] = "PD" /\ table[k][1] = "PD" => table[j][2] < table[k][2]

ASSUME EcuAssumption ==
    /\ \A b \in Benches :
         /\ b.table \in Seq(Messages) /\ b.rounds \in Nat
         /\ b.draws \subseteq Int /\ b.off \subseteq Nat
         /\ 1..Len(b.table) \subseteq Slots  \* s_payload_buffers, s_frames
         /\ InOrder(b.table) /\ b.rounds <= MaxRounds
    /\ QueueDepth \in Nat \ {0} /\ Places \subseteq {"boot", "low", "high"}

\* A value of lo to hi that is put as field f and decoded as sig: the same bytes, in
\* which it fits, and within the declared range.
SameField(f, sig, lo, hi) ==
    /\ {f.off, lo, hi, sig.min, sig.max} \subseteq Int
    /\ f.at = sig.at /\ f.size = sig.size /\ f.res = sig.scale /\ sig.bias = -f.off
    /\ <<f.size, sig.type>> \in {<<0, "Bit">>, <<1, "Uint8">>, <<2, "Uint16">>, <<4, "Int32">>}
    /\ f.res \in (IF f.size = 4 THEN {One, Deg7} ELSE {One, Deci, Fifth, Centi, Milli})
    /\ f.size = 0 => f.move = "flip" /\ f.res = One
    /\ IF f.size \in {0, 4} THEN f.off = 0 ELSE f.off % 10^(3 - f.res[2]) = 0
    /\ IF f.size = 4 THEN lo >= -MaxInt /\ hi <= MaxInt
       ELSE lo + f.off >= 0 /\ (hi + f.off) \div Lsb(f.size, f.res) < 256^Width(f)
    /\ sig.min <= lo /\ (sig.min + f.off) % Lsb(f.size, f.res) = 0
    /\ hi <= sig.max \/ f.move = "sum"
    /\ ValueKind(sig) = "bool" =>
         f.res = One /\ f.off = 0 /\ (f.move = "flip" \/ (lo = hi /\ lo \in {0, 1000}))

\* So are the k-th value of m, whatever its channel may hold, and its k-th signal.
FieldsAgree(m, k) ==
    LET put == Puts[m][k]
        lo == Least(put.owner, put.channel)
        hi == Most(put.owner, put.channel)
    IN  /\ put.owner \in Messages /\ put.channel \in 1..Len(Channels[put.owner])
        /\ put.field.move = Channels[put.owner][put.channel].move
        /\ put.owner \notin WalkedBy(m) => SimStateInit(put.owner)[put.channel] \in lo..hi
        /\ SameField(put.field, MessagesById[CanId[m]].signals[k], lo, hi)

\* What the simulator sends as m is what the input service knows by its identifier.
MessagesAgree(m) ==
    LET n == Len(Puts[m])
        f(k) == Puts[m][k].field
    IN  /\ CanId[m] \in DOMAIN MessagesById
        /\ n \in Nat \ {0} /\ Len(MessagesById[CanId[m]].signals) = n /\ MessagesById[CanId[m]].dlc <= Dlc(m)
        /\ \A k \in 1..n : FieldsAgree(m, k) /\ (f(k).size = 0 <=> f(1).size = 0)
        /\ \A k, l \in 1..n :
             k # l => f(k).at + Width(f(k)) <= f(l).at \/ f(l).at + Width(f(l)) <= f(k).at
        /\ \A k \in 1..n :
             f(k).at \in Nat /\ f(k).at + Width(f(k)) <= (IF f(1).size = 0 THEN 8 * Dlc(m) ELSE Dlc(m))

\* Both tables are written down in full, in CarSignals and in Candb.
ASSUME TablesAssumption == \A m \in Messages : ChannelsHold(m) /\ MessagesAgree(m)

VARIABLES
    bench,   \* the part of s_messages in use, with its bounds; never changes
    car,     \* state, a sim_state_t
    tick,    \* tick
    i,       \* the index of the for loop
    pc,      \* loop, encode, transmit, or delay
    encoded, \* ghost: the encodings so far, each its message and the values sent
    late     \* ghost: a round began before the driver's queue was empty

task == <<tick, i, pc>>
vars == <<driver, bench, car, task, encoded, late>>

NumMessages == Len(bench.table)
Count == Len(encoded)
Frames == [message : Nat, first : Nat, rest : Nat]

\* The car is left out: its values are bounded by the walks of CarSignals.
TypeOK ==
    /\ mem \in [Slots -> Frames]
    /\ txq \in Seq(1..NumMessages) /\ Len(txq) <= QueueDepth
    /\ wire \in Seq(Frames) /\ accepted \in Seq(Frames)
    /\ Len(wire) + Len(txq) = Len(accepted)
    /\ bench \in Benches
    /\ tick \in 0..bench.rounds /\ i \in 1..(NumMessages + 1)
    /\ pc \in {"loop", "encode", "transmit", "delay"}
    /\ pc \in {"encode", "transmit"} => i <= NumMessages
    /\ late \in BOOLEAN

\* The buffers are static, hence zero.  The car is at rest or, for a task that
\* has run for long, anywhere.
Init ==
    /\ bench \in Benches
    /\ \E place \in Places : car = CarAt(place)
    /\ mem = [s \in Slots |-> [message |-> 0, first |-> 0, rest |-> 0]]
    /\ txq = << >> /\ wire = << >> /\ accepted = << >>
    /\ tick = 0 /\ i = 1 /\ pc = "loop"
    /\ encoded = << >> /\ late = FALSE

-----------------------------------------------------------------------------

\* Mutant: one buffer for all messages, as on the stack.
OneSlot(m) == 1

\* s_payload_buffers[i], s_frames[i]
Slot(m) == m

Due == tick % PeriodTicks[bench.table[i]] = 0

Skip ==
    /\ pc = "loop" /\ i <= NumMessages /\ ~Due
    /\ i' = i + 1
    /\ UNCHANGED <<driver, tick, pc, bench, car, encoded, late>>

\* encode begins: the first statements have written the buffer.
EncodeFirst ==
    /\ pc = "loop" /\ i <= NumMessages /\ Due
    /\ \E d \in bench.draws : car' = Moved(car, bench.table[i], d)
    /\ encoded' = Append(encoded, [message |-> i, values |-> Sent(car', bench.table[i])])
    /\ mem' = [mem EXCEPT ![Slot(i)].first = Count + 1]
    /\ pc' = "encode"
    /\ UNCHANGED <<txq, wire, accepted, bench, tick, i, late>>

\* encode returns, and s_frames[i] is filled in.
EncodeRest ==
    /\ pc = "encode"
    /\ mem' = [mem EXCEPT ![Slot(i)].rest = Count, ![Slot(i)].message = i]
    /\ pc' = "transmit"
    /\ UNCHANGED <<txq, wire, accepted, tick, i, bench, car, encoded, late>>

TransmitOk ==
    /\ pc = "transmit"
    /\ Queue(Slot(i), [message |-> i, first |-> Count, rest |-> Count])
    /\ i' = i + 1 /\ pc' = "loop"
    /\ UNCHANGED <<tick, bench, car, encoded, late>>

\* twai_node_transmit returns an error: the queue was full for 100 ms or, with room
\* in the queue as without, the node is off the bus.
Fails == DriverFull \/ tick \in bench.off

\* Mutant: a message that fails is tried again for ever.
TransmitRetry ==
    /\ pc = "transmit" /\ Fails
    /\ UNCHANGED vars

\* Whatever the error, the message is dropped, with its buffer already rewritten.
TransmitFail ==
    /\ pc = "transmit" /\ Fails
    /\ i' = i + 1 /\ pc' = "loop"
    /\ UNCHANGED <<driver, tick, bench, car, encoded, late>>

EndRound ==
    /\ pc = "loop" /\ i > NumMessages
    /\ tick < bench.rounds
    /\ tick' = tick + 1
    /\ pc' = "delay"
    /\ UNCHANGED <<driver, i, bench, car, encoded, late>>

\* vTaskDelay(ECU_CAN_TICK_MS) returns.
NextRound ==
    /\ pc = "delay"
    /\ late' = (late \/ txq # << >>)
    /\ i' = 1 /\ pc' = "loop"
    /\ UNCHANGED <<driver, bench, car, tick, encoded>>

Transmit == PutOnBus /\ UNCHANGED <<tick, i, pc, bench, car, encoded, late>>

Next ==
    \/ Skip \/ EncodeFirst \/ EncodeRest
    \/ TransmitOk \/ TransmitFail
    \/ EndRound \/ NextRound
    \/ Transmit

Spec == Init /\ [][Next]_vars

\* The task runs; nothing is assumed of the bus.
Fairness ==
    WF_vars(Skip \/ EncodeFirst \/ EncodeRest \/ TransmitOk \/ TransmitFail
            \/ EndRound \/ NextRound)

-----------------------------------------------------------------------------
(* Properties *)

\* "One buffer/frame per message index ... keeps each message's memory untouched
\* until that same message is due again" (ecu main.c, above s_payload_buffers):
\* as long as the driver's queue is empty when a round begins, every frame goes
\* out as it was handed in.  Within a round a message is encoded while pointers
\* to others wait.
FramesIntact == ~late => Intact

\* On a bus that is too busy for that, frames are repeated and torn, but what
\* goes out as a message is that message's, never another's, and never older
\* than what went out before.
NeverOlder ==
    /\ \A k \in 1..Len(wire) :
         LET f == wire[k]
         IN  /\ f.first \in 1..Count /\ encoded[f.first].message = f.message
             /\ f.rest \in 1..f.first /\ encoded[f.rest].message = f.message
    /\ \A k, l \in 1..Len(wire) :
         k < l /\ wire[k].message = wire[l].message
             => wire[k].first <= wire[l].first /\ wire[k].rest <= wire[l].rest

\* A value v that was put as field and is decoded as sig is got.
Arrives(v, field, sig, got) ==
    /\ Decimals(field.size, field.res) = Decimals(sig.size, sig.scale)
    /\ v - got \in 0..(Lsb(field.size, field.res) - 1)
    /\ got \in sig.min..sig.max \/ field.move = "sum"
    /\ ValueKind(sig) = "bool" => got \in {0, 1000}
    /\ ValueKind(sig) = "int" /\ sig.size < 4 => got % 1000 = 0

AllArrive(puts, values, msg, data) ==
    /\ Len(msg.signals) = Len(values)
    /\ \A k \in 1..Len(values) :
         Arrives(values[k], puts[k].field, msg.signals[k], DecodeSignals(msg, data)[k])

\* The tables of the simulator and of the input service agree ("keep both in sync
\* by hand", device_config.h and candb.go): a frame that goes out whole is
\* known, long enough, and decodes to the values that were sent, each cut off to
\* its own resolution, within the declared range and of the published kind.  The
\* sum of the output currents is not bound to the range of PDMTotalCurrent.
SignalsDecode ==
    LET f == wire[Len(wire)]
        e == encoded[f.first]
        m == bench.table[e.message]
    IN  wire # << >> /\ f.first = f.rest =>
          /\ Decodes(CanId[m], Payload(m, e.values))
          /\ AllArrive(Puts[m], e.values, MessagesById[CanId[m]], Payload(m, e.values))

\* Which of the first n encodings are of the k-th PD message, and the last of them.
Encodings(k, n) == {e \in 1..n : bench.table[encoded[e].message] = <<"PD", k>>}
Latest(k, n) == {e \in Encodings(k, n) : \A f \in Encodings(k, n) : f <= e}

\* "The walk happens exactly once per cycle regardless of how many messages read
\* slices of the result within that same cycle" (encode_pd_currents): the four
\* messages of the output currents are of one moment, for the total that PD1 sends
\* in the next cycle is the sum of what they sent.
OneWalkPerCycle ==
    \A n \in Encodings(1, Count) :
        \A a \in Latest(2, n), b \in Latest(3, n), c \in Latest(4, n), d \in Latest(5, n) :
            encoded[n].values[2] = SumOf8(encoded[a].values, 0) + SumOf8(encoded[b].values, 0)
                                     + SumOf8(encoded[c].values, 0) + SumOf8(encoded[d].values, 0)

\* A dead bus costs frames and time, but the task goes on: every round ends.
RoundsEnd ==
    \A t \in 0..4 : tick = t /\ t < bench.rounds ~> tick = t + 1
=============================================================================
