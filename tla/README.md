# A TLA+ model of zc2x

zc2x takes CAN frames from a vehicle, numbers them, and sends each of them over
two redundant radio paths to a server that removes the duplicates, stores the
packets and decodes them into telemetry. This directory specifies the parts of
the system in which order, loss, failure and concurrency decide whether it is
correct, model-checks them with TLC and proves the main results with TLAPS.

Paths below are relative to the repository. `obu`, `rsu`, `ecu` and `ttu` stand
for `platform/esp-idf/firmware/<name>/main/main.c`.

    ECU, TTU -- CAN bus --> OBU --- WiFi: NATS Core zc2x.can.obu ---------> input adapter
                             \                                          /      |
                              -- XBee UART --> RSU -- WiFi: zc2x.can.rsu       v
                                                                    JetStream raw + telemetry
                                                                        |            |
                                                                  InfluxDB writer  web pages

## 1. Inventory

| component | code | state | operations | what is hard | what makes it correct |
|---|---|---|---|---|---|
| OBU capture and fan-out | `obu` `on_can_rx_done`, `can_rx_task`, `xbee_tx_task` | `s_can_rx_queue`, `s_sequence`, `s_xbee_tx_queue`, `s_nats_queue`, UART ring | receive a frame in the interrupt, number it, offer it to both queues, write it to the UART | four tasks and an interrupt, full queues, a driver that spins on a full ring | a sequence number names one frame on both paths; no path stalls the other or the capture; each path keeps the order |
| Uplink (OBU and RSU) | `obu`/`rsu` `nats_task`, `nats_connect`, `nats_publish`, `nats_process` | `nats_sock`, `batch[]`, `batch_count` | connect, batch, publish, keepalive | the link, the connection or a publish fails at any point, with a batch open | at most once, in order; no overrun of `batch[]`; no use of a closed socket; a batch is always got rid of |
| WiFi failover (OBU and RSU) | `wifi_event_handler`, `wifi_apply_candidate`, link-down branch of `nats_task` | candidate index, fail count, start time, `s_wifi_force_advance`, `WIFI_CONNECTED_BIT` | retry, advance, force a disconnect | two tasks share variables without a lock; the driver answers with events | one connect per attempt; an idle station is always reconnected; every candidate gets its turn |
| RSU receive path | `rsu` `uart_rx_task`, `uart_read_exact` | sync window, `s_packet_queue` | find the marker, read a packet, validate, relay | lost bytes, markers inside data, a tick counter that wraps | what is relayed was sent; alignment is regained |
| Packet library | `framework/core/packet` | none | init, validate, CRC-16 | a C struct on one side, byte ranges in Go on the other; damage on the radio | what is decoded is what was captured; a damaged packet is refused |
| The two paths together | `obu`, `rsu`, `adapter.go`, `dedup.go` | packets on the way | lose, damage, delay, overtake | copies come in any order, one, both or none, across sweeps and restarts | a frame of which a copy arrives is handed on once |
| Input adapter | `services/input/nats/internal/adapter.go`, `signals.go` | NATS channel, the message in hand | receive, validate, deduplicate, publish raw, publish telemetry, sweep | blocking publishes, lost acknowledgements, restarts, rebooting devices | each packet stored once in a window, telemetry follows the raw stream, no message gets stuck |
| Deduplicator | `services/input/nats/internal/dedup.go` | `seen`, `lastSeq` | `Accept`, `Sweep` | expiry, late and out-of-order packets | once in a window; remembers all it must and nothing else; gaps are reported |
| Signal decoder | `services/input/nats/internal/candb`, `signals.go` | a table of 52 messages and 284 signals | look up, extract, scale, round | sign extension, byte order, a table written by hand that must fit the ECU's encoders | a frame decodes to what was encoded |
| InfluxDB writer | `services/output/influxdb3` | points and messages of a batch | pull, write, ack or nak | redelivery racing a slow write | acknowledged only when stored |
| ECU firmware | `ecu`, its `device_config.h` | the simulated car, buffers and frames of 52 messages, the driver's queue of pointers to them | walk, encode, transmit | buffers reused while the driver reads them; values shared by the messages of a bank; scales, offsets, widths | what goes out was handed in; messages of one cycle are of one moment; values stay in range |
| TTU firmware | `ttu` | ESP-NOW queue, driver queue | receive, transmit on CAN | one buffer, on the stack, for all frames | what goes out was handed in |
| Web dashboard | `apps/web` | NATS connection, telemetry store | subscribe, update, select | async initialisation, reconnects | shows the latest value |
| Simulator | `services/input/nats/cmd/simulator` | none of lasting interest | publish random packets | - | - |

`framework/core/{bus,config,logger,time}`, `framework/{hal,protocols,services,
transports,utilities}` and `applications/` are placeholders; `infra/` is
configuration.

## 2. Modules

| module | models | refines |
|---|---|---|
| `LossyFifo` | the abstract promise of every packet path: what comes out was put in, once, in order | |
| `NatsUplink` | `nats_task` of OBU and RSU with its queue, batch and socket | `LossyFifo` |
| `ObuPipeline` | interrupt, `can_rx_task`, `xbee_tx_task` and `nats_task` of the OBU together | `LossyFifo` (XBee path), `NatsUplink` (WiFi path) |
| `WifiFailover` | `wifi_event_handler` and the link watching of `nats_task`, over the WiFi driver | |
| `Dedup` | the Deduplicator with clock and restarts; checked as a part of `EndToEnd` and `InputAdapter` | |
| `Packet` | layout of the packet, its CRC-16, `zc2x_packet_init`, `zc2x_packet_validate`, `DecodePacket` | |
| `EndToEnd` | a frame on both paths, from the OBU's packet to the Deduplicator: extends `Dedup` and `Packet` | |
| `InputAdapter` | `Run`, `handleMessage`, `decodeAndPublishSignals` | `Dedup` |
| `UartSync` | `uart_rx_task` and `uart_read_exact` of the RSU, over a serial line that loses bytes and a tick counter that wraps | `LossyFifo` |
| `InfluxWriter` | `Run` of the output service, over a durable JetStream consumer and a store that keeps one point per identity | |
| `TelemetryStore` | the store behind the can2 dashboard and its catalog in localStorage | |
| `SignalUnits` | decimal numbers and little-endian bytes, common to encoder and decoder | |
| `CarSignals` | the ECU's table of messages, the random walks of the car and the layouts of the `encode_*()` | |
| `Candb` | the database of the input service, `DecodeSignals`, `ValueKind` and the rounding of `signals.go` | |
| `CanDriver` | the CAN driver's queue of pointers, as the comments of its callers describe it | |
| `EcuTx` | `can_tx_task` of the ECU on `CanDriver`, with the encoders of `CarSignals`; what goes out is decoded with `Candb` | |
| `TtuTx` | `esp_now_recv_cb` and `can_tx_task` of the TTU on `CanDriver` | |
| `ConsumerProofs` | theorems about `InfluxWriter` and `TelemetryStore` | |
| `DedupProofs` | theorems about `Dedup` and `EndToEnd` | |
| the other `*Proofs` | theorems about the module of that name | |
| `MC*` | TLC instances; each extends its module, so that its `ASSUME` is evaluated | |

The type invariant is in the cfg of a run where it says more than the others; those
of `UartSync`, `WifiFailover` and `EcuTx` are not, they are proved (section 4).

Definitions with a comment that starts with "Mutant:" are not part of the model:
each is a plausible wrong version of the definition that follows it, kept to
show that a property would notice (`PROJECT.json`, "mutants").

### Correspondence of state and actions

The `nats_task`, `nats_*` and `wifi_*` functions of the OBU and the RSU are the
same but for names, comments and one assertion; their actions are mapped to the
OBU, and `WifiEventHandler` and `NatsTask`, which sum them up, to the RSU.

`NatsUplink`. `linkUp` is `WIFI_CONNECTED_BIT`, `queue` is `s_nats_queue`,
`sock` is `nats_sock >= 0`, `batch` is `batch[0..batch_count-1]`; `pc` is the
place in the loop of `nats_task`, one value per blocking call. Every outcome of
a call is an action of its own: `ConnectOk`/`ConnectFail`,
`Receive`/`ReceiveTimeout`, `PublishOk`/`PublishFail`,
`ProcessOk`/`ProcessFail`. Packets are the ordinals in which the producer
offered them. `published` is what was handed to a connected socket: what TCP
and the server make of it is outside.

`ObuPipeline`. A frame is its ordinal on the bus, a packet a record of frame and
`s_sequence`. `can_rx_task` has the highest priority on a single core and never
blocks within an iteration, so one iteration is one step; the interrupt
(`OnCanRxDone`) may come before and after. `ring` counts bytes in the UART ring
buffer, so that the check before and the two writes of `xbee_send_packet` can be
told apart.

`WifiFailover`. `events` is the queue of the default event loop, `radio` the
state of the station in the driver. `hpc` and `npc` are the next statements of
the handler and of `nats_task`; the steps are cut where the other task may come
between, including the two statements that read and clear
`s_wifi_force_advance`. Time is `age`, ticks since
`s_wifi_candidate_started_us`, saturated at the time-out; `outage` is a ghost.

`Dedup`. `seen` and `lastSeq` are the maps of the code with `Never` for an
absent key. `now` is the clock. The mutex makes each call atomic. `accepted`
(what `Accept` returned true for, and when) and `reported` (the numbers named
in gap lines) are ghosts. A restart of the process empties everything.

`InputAdapter`. `msgs` is the channel of `ChanSubscribe`, `todo` the packets of
the message in hand; `step` says which call the goroutine is in. A packet is
its device, its sequence number, whether it decodes, and the boot of the device
it stems from, which the adapter cannot see. `js.Publish` may fail before or
after the server stored the packet. `raw` and `telemetry` are what this process
added to the two streams.

`UartSync`. A byte is its value and, for the properties only, the frame and place
it comes from; the task compares values. `window` is `sync[]` (without the zeros
it starts with, which the marker does not contain), `body` what
`uart_read_exact` has collected, `deadline` and `tick` wrap at `TickMod`; `wait`
is what is left of the time-out given to `uart_read_bytes`, which may return
after any byte. The packet validation is abstracted to "all bytes of one packet
in order", that is, the CRC is taken to be perfect; `Packet` and `EndToEnd` have
the real one. The assumptions say that marker, packets and noise are bytes, that
a packet is as long as the struct, and that noise fits into the ring.

`Packet`. Bytes, at the offsets of `zc2x_packet_t`. The CRC is computed byte by
byte as in the code, on a register of two bytes; the eight turns of the inner loop
come from a table of the same turns, for the loop is linear. An `ASSUME` of
`MCEndToEnd` compares it with the published check value of CRC-16/CCITT-FALSE. The 64-bit time
stamp is two words, for TLC's integers have 32 bits. Null pointers are left out.

`EndToEnd`. A copy of a packet on a path is its device, its number, when it was
captured and what the radio did to it; `Wire` makes its bytes. `wifi`, `xbee` and
`relay` are lossy FIFOs, which is what `NatsUplink`, `ObuPipeline` and `UartSync`
are shown to implement. `UartRx` is the RSU's check and relay, `HandlePacket` the
part of `handleMessage` up to the Deduplicator. `arrived` and `stored` are ghosts:
what this process of the adapter got a copy of, and what it handed on. That no
path takes longer than the window (`MaxDelay <= Window`) is an assumption, the one
`dedup.go` 27-29 states.

`InfluxWriter`. `status` is what the consumer knows of each message, `inbox` what
the client library holds ready, `hand` the message the pump goroutine offers on
`msgCh`; `points` and `pending` are the slices of those names. A record is the
identity of the point `BuildPoint` makes of it. `Redeliver` is the end of
AckWait or the effect of a Nak, at any time, while earlier copies are still in
the process. A failed write may have stored any part of the batch.

`TelemetryStore`. `live`, `summary`, `lastSeen` and `catalog` are the maps the
callback changes, `shown` the snapshots the components read, `unflushed` the four
flags, `frame` is `framePending`, `storage` the localStorage entry. A record's
time stamp and value are its ordinal. The formulas of its specification have the
prefix `Store`, so that `ConsumerProofs` can extend `InfluxWriter` beside it.

`EcuTx`, `TtuTx`. `mem` is the memory the pointers in `txq` point to. A payload
has two parts that are written one after the other, each the ordinal of the
encoding it stems from, so that torn frames show. The ECU has a slot per message
(`s_payload_buffers[i]`, `s_frames[i]`), the TTU one for all, its stack. `bench`
is the part of `s_messages` that is in use, with the bounds of its run: the other
messages do the same to buffers of their own. A transmission can fail because the
queue is full and, in the rounds `bench.off`, for any other reason (`Fails`): a bound
of the runs; the proofs allow every round. `car` is `sim_state_t`;
`encoded` is a ghost, the values each encoding sent.

`CarSignals`, `Candb`. A value is an integer: a number of thousandths of its unit,
or, for signals of four bytes, of its own last digit. So truncation, offsets, widths
and rounding show, and `float` and `float64` are taken to be exact (in the code a
raw value may be one less by rounding). A draw of the random generator moves all
values of a message by the same part of their step. Names of messages and signals
are left out, their order in the tables stands for them. Two counters only grow,
`fuel_used_raw` and `ec_run_time_total_s`: `MaxCounter` bounds what they begin with and
`MaxRounds` the rounds that run (500000, or 83 minutes), so that both stay below 2^31,
beyond which the decoder takes them for negative (section 3, `candb.go` 323).

## 3. Runs

| run | shows | bounds, and why they are enough |
|---|---|---|
| `nats_uplink` | at most once and in order; no overrun; sockets; every batch leaves; implements `LossyFifo` | queue 2, batch 3, 6 packets: a full queue, a full and a partial batch, several batches, and every failure between them |
| `obu_pipeline` | sequence numbers; room in the UART; capture goes on; both paths keep their specification | queues of 2, 1 and 1, batch 2, 4 frames, ring of 4 bytes for frames of 1+2: each queue and the ring fill and drain |
| `wifi_failover` | one connect per attempt, no forgotten idle station, the bit is corrected, every candidate is tried for ever | 3 candidates, 3 retries, time-out 3, steps that may take any time |
| `wifi_escape_hatch` | violation, see below | 3 candidates, 2 retries, time-out 2, tasks prompt compared with the time-out |
| `dedup` | of the two paths together: handed on once and as captured whenever a copy arrives, remembered exactly, no silent gap | 1 device, sequence numbers 0..2, window 2, 5 instants, delays up to the window, 2 packets in flight on a path; frames of 0, 3 and 8 bytes; the radio flips any single bit position, pairs of bits or bursts of 16: copies meet in every order, expire, and outlive a restart |
| `input_adapter` | streams follow each other, a number accepted once in a window, implements `Dedup`, every message handled | 1 device with a reboot, 2 numbers, 3 messages of 0, 1 or 2 packets, one of them corrupt; window 2 of 4 instants, publishes that block for 1: a number comes again from the other path and from a new boot, within the window, at its end and after it; channel of 1, so that it overflows |
| `adapter_delivered` | violation, see below | as above, 2 messages, no reboot, 3 instants |
| `influx_writer` | acknowledged only when stored, terminated only when malformed, every record settled in the end | 2 points, 2 messages, batches of 2, one death of the process: same and different identities, batches of copies, a batch that no further message fills; what the small stream leaves open for safety is proved |
| `uart_sync` | what is relayed was sent, once and in order; a loss costs at most the frame behind it | marker of 2 bytes, packets of 3 that share bytes with it, ring of 2, time-out 2, ticks modulo 4, 3 frames, noise that looks like the marker: false locks that span two frames, wraps within a time-out, losses everywhere |
| `telemetry_store` | no update forgotten, everything shown in the end, saved catalog only grows | one tab, 2 devices over 2 origins, 2 messages, histories of 2, 3 records, one page load |
| `ecu_tx` | frames intact while the driver keeps up, never another's and never older on a busy bus, decoded to what was encoded, one walk per cycle, rounds end on a dead bus | driver queue of 2. Three messages with two periods over three more rounds: a round does not fit in the queue, and a message is due again while its buffer waits; in one round the node may be off the bus. The five messages of the output currents over two cycles. Every message, or group that shares values, once, from a car at boot, at its lowest and at its highest, with small and large draws either way; each flag of the bit fields flipped |
| `ttu_tx` | violation, see below | 2 messages, 3 readings |

### What the violations show

* `wifi_escape_hatch`: `s_wifi_force_advance` can be left set for a station that
  will send no disconnect event (it was idle between the handler's clearing of
  the flag and its `esp_wifi_connect()`); from then on the hatch never opens,
  and a candidate that associates without ever giving an address is kept for ever.
* `adapter_delivered`: a packet is remembered before it is published; when the
  publish fails its redundant copy is dropped too, so that neither is kept
  (`dedup.go` 20-22: the first "is kept; the later duplicate is dropped").
* `ttu_tx`: the TTU hands the driver a pointer to its stack; under two readings
  in a row, the first goes out as the second, or torn.

### Other disagreements of code and comments

Met while modelling; no run states them as properties.

* `obu` 166: the time-out for an address runs from the moment the last one was
  obtained (169), so a link that was up for longer has no "fresh DHCP-timeout
  budget" when it drops.
* `obu` 743: the address may come between the check (750) and the forced
  disconnect (758), which then hits a working link.
* `services/input/nats/cmd/main.go` 25-26: a device that reboots within the window
  does collide with its stale entries; its first packets are dropped.
* `services/input/nats/internal/adapter.go` 268: entries can be older than window
  and sweep interval, for the goroutine that sweeps also waits for JetStream.
* `rsu` 497-499: byte alignment is not guaranteed when packets contain the marker:
  a misaligned scanner that locks on data reads to the same place of the next
  frame and locks there again, for as long as the data stays the same.
* `dedup.go` 27-29, `main.go` 25-26: the window "comfortably covers the latency
  gap". `nats_task` keeps its queue while the link is down, for as long as it is;
  what it sends after an outage of more than 30 s is published and decoded a
  second time when the other path had delivered it. `EndToEnd` assumes that
  delays stay within the window.
* `ttu` 99-131: real TTU frames have 6 bytes, signed, big endian, in hundredths;
  `candb.go` 279-302 expects 8 bytes, little endian, in tenths above -40, under the
  same identifiers (0x130, 0x150), and refuses frames that short. It agrees with the
  messages that the ECU simulates.
* `candb.go` 323: FuelUsedRaw is a `uint32_t` counter in the ECU and an Int32 here:
  negative beyond 2^31.
* `candb.go` 368 gives PDMTotalCurrent 400 A at most; the ECU's sum of thirty walks
  can reach 600 (`ecu` 12-13: "within realistic physical ranges"). `SignalsDecode`
  does not bind it to the range.
* `signals.go` 118, 153: "every scale ... is an exact power of ten"; 0.2 is not.
  It does no harm: one decimal is right for it.
* `adapter.go` 112 names `packet.c`; the encoder is `packet_builder.c`.
* `rsu` 404: shortly before the tick counter wraps `deadline` is below `now`, and a
  packet is given up before a byte is read.
* `services/output/influxdb3/cmd/main.go` 4: two frames of a CAN id that are
  decoded within a millisecond (`signals.go` 184) have the same point.
* `apps/web/src/app/can2/telemetry-store.ts` 65-67: of two tabs, one overwrites
  what the other saved of the catalog (243); `CatalogKept` holds of one tab
  (`OneTab`).

### Fairness

* `NatsUplink`: weak fairness of the task: FreeRTOS runs it when it is ready and
  its calls return (a TCP time-out at the latest). Nothing is assumed of the
  producer or of the link.
* `ObuPipeline`: only `can_rx_task` is fair; the output tasks may be starved.
* `WifiFailover`: both tasks run, time passes, and an attempt to associate ends.
  Nothing is assumed of DHCP; `KeepsTrying` assumes in its statement that a
  hanging association ends, which `EscapeHatch` was to ensure.
* `InputAdapter`: the goroutine runs and `js.Publish` returns (it has a time-out
  in the client library).
* `InfluxWriter`: weak fairness of the goroutines, the ticker and the restart of
  the container (`restart: unless-stopped`); strong fairness of delivery, of the
  redelivery of what the process no longer has, and of a write, an acknowledgement
  and a Term of each message: an outage of InfluxDB or NATS that lasts for ever is
  the only way to violate it, and nothing the service does could make up for that.
  Copies of what the process still has may come but need not: only the ticker can
  be relied on to write a batch that does not fill.
* `TelemetryStore`: the browser draws a visible tab again and again.
* `EcuTx`: the task runs; the bus may be dead.

## 4. Proofs

All theorems hold for every value of the constants that satisfies the `ASSUME`
of the module (positive lengths, natural bounds). Three need more, and state it
as a hypothesis, which TLC evaluates for its instance: `OneTab` (`TelemetryStore`),
`MarkerApart` (`UartSync`), and `EndToEndAssumption` with `CrcTells` (`EndToEnd`).

* `NatsUplinkProofs`: `TypeOK` is inductive. `BatchFits` and `BatchHasSocket`
  need `BatchInv`: there is no batch before a keepalive and no socket while
  connecting. `FifoOrder` is inductive as it stands; it says that `published`,
  `batch` and `queue` one after the other are increasing, and the lemmas on
  `Append`, `Tail` and `\o` show that a step moves packets along, adds the newest
  or removes some. `ImplementsLossyFifo` maps an offer to `Send`, a successful
  publish to `Deliver` and the rest to stuttering.
* `ObuPipelineProofs`: `UartHasRoom` is inductive with the types.
  `OneSequenceOneFrame` needs `Numbering`: every packet in the OBU has a number
  below `s_sequence` and a frame older than those still in `s_can_rx_queue`,
  which are in the order of the bus. `ImplementsUplink` maps the iterations of
  `can_rx_task` to the producer's offers of `NatsUplink`; a packet's ordinal there
  is its number plus one, and `Backlog` keeps the numbers within `MaxFrames`.
  `WifiPathIsLossyFifo` and `WifiBatchesAreSafe` carry the theorems about
  `NatsUplink` over to the whole OBU.
  `ImplementsXbeeFifo` needs `XbeeOrder`: what was sent, what is in hand and what
  is in the queue are rising, one behind the other.
* `UartSyncProofs`: `ImplementsLossyFifo` needs `LineOrder`: the bytes in `body`,
  in the ring and still in the XBees are in the order in which they were sent,
  each part before the next, and behind all that was relayed. So a packet that
  passes the check is the next frame, wherever the scanner had locked and however
  the deadline was computed. `LossIsContained` (`LossContained`) says that a frame that is gone was
  hit by a loss, or the one before it was. It cannot hold of every marker and
  content (section 3, `rsu` 497-499), so it supposes `MarkerApart`: in a
  frame and the marker behind it, the marker is found at the two beginnings only.
  Its invariant, `Contained`, recovers what was sent from what is left on the line,
  and says how the receiver meets each byte of a whole frame (`Meets`): a false lock
  ends no later than the frame does (`Within`), and in a frame behind a whole one the
  task is in step with the line (`Reads`).
* `DedupProofs`, on `Dedup`: `OnceInWindow` needs `CacheInv`: an entry of `seen` is
  as young as every acceptance of its key, and a key not in `seen` was last accepted
  before the limit of the last sweep. `SeenIsRecentlyAccepted` adds that an entry has
  an acceptance of its time. `NoSilentGap` needs `HasLast`: `lastSeq` is set by the
  first acceptance of a device and by nothing else; `GapIsWhatIsBetween` shows
  that the modulus of uint32 does not matter where a gap is reported.
* `DedupProofs`, on `EndToEnd`: behind the two paths the Deduplicator sees calls and
  ticks and nothing else (`EndToEndImplementsDedup`), so that what is proved of `Dedup`
  holds there. `StoredAsCaptured` rests on `RoundTrip`: what
  `zc2x_packet_init` writes, `DecodePacket` reads back, field by field and byte by
  byte, for every identifier, number, time and data that fit. `EveryArrivalOnce`
  needs two invariants. `PathsOK`: the copies on a path are in the order of their
  capture and none is older than `MaxDelay`, hence than the window. `LogOK` relates
  the paths, the cache and the ghosts: a number is not used again while a copy with it
  is under way (`KeyNotReused`), a copy under way is younger than any earlier use
  of its number (`OlderThanAccepted`), and what arrived, was accepted and was stored
  since the adapter's start is the same (`ArrivedAccepted`, `AcceptedOnce`,
  `StoredAccepted`). `EndToEndAssumption` says that fields fit their widths and that
  `MaxDelay <= Window`; `CrcTells`, that the CRC refuses every damage of `Damages`:
  which damages it does refuse is a matter of its polynomial, and is computed by TLC
  (`DamageShows`).
* `InputAdapterProofs`: every step of the adapter is a step of `Dedup` or leaves
  it alone; so what is proved of `Dedup` holds of the adapter
  (`AdapterAcceptsOnce`, `AdapterReportsGaps`). Its `TypeOK` needs `LoopTyped`, the
  places of the loop at which there is a packet in hand. `StreamsFollow` needs
  `InFlight`: a packet that is being published is the last that was accepted, one
  whose signals are being published the last of `raw`, and the stream that it
  goes to follows what was there before it.
* `ConsumerProofs`, on `InfluxWriter`: `SettledIsStored` needs `WriterInv`: the records
  in `points` are well-formed, `pending` is `points` until the write, and while
  acknowledgements are sent each message left in `pending` has its point in the
  store. Points are overwritten but never removed, so the
  redelivery of a message that is already settled does no harm.
* `ConsumerProofs`, on `TelemetryStore`: `StoreTypeOK` is inductive; that no history
  outgrows `MaxHistory` is a part of it. `NothingForgotten` is inductive: the proof
  takes it tab by tab (`Flagged`, `OneTabSteps`). `CatalogKept` needs
  `SavedIsKnown`, what is saved is in the catalog of the tab, which a page load
  restores and only one tab guarantees.
* `WifiFailoverProofs`: `OneConnect`, `IdleIsTakenCareOf` and `BitFollowsRadio`
  follow from one invariant, `Flow`, which lists what the event queue can hold for
  each state of the radio and of the handler: nine cases, of which every step leads
  to another. `force`, the counters and the clock do not occur in it: none
  of the three depends on when a candidate is given up.
* `EcuTxProofs`: `FramesIntact` needs `HandedOver`: what waits in the driver's
  queue has a smaller index than the message in hand, so that no buffer with
  a pointer in the queue is written before the next round. `NeverOlder` needs
  `Buffers` (a buffer holds encodings of its own message, its rest never newer than
  its first part) and `NotNewer` (nothing on the wire is newer than its buffer).
  `OneWalkPerCycle` needs `OfOneMoment`: what PD2 to PD5 sent last is the array as it
  is, but for those that are still to come in a round that has moved it. So when PD1,
  before these four in the table, adds the array up, the four have sent all of it.
  Without the order of `s_messages` (`InOrder`) it would not hold.
* `EcuTxProofs`, on `SignalsDecode`, in two parts. `SentArrives` is about one payload,
  without time: whatever values within the ranges of their channels a message carries,
  what `Written` puts, `DecodeSignals` reads back. It rests on a lemma for each step of
  the conversion: a byte belongs to the one field that covers it (`OneCovers`,
  `PayloadBytes`), one, two or four bytes and eight bits stand for the number they were
  cut from (`OneByte`, `TwoBytes`, `FourSignedBytes`, `Digits`), a value in its range
  fits (`RawFits`), and truncation and rounding lose less than the last digit
  (`CutOffLoses`, `Rounded`). `SentInRange` is the invariant: every channel is as the car
  began or where its walk left it, the counters have gained at most 281 a round
  (`CarInRange`), and every encoding carries values in range (`EncodingsSendable`): a
  walk that begins outside its range, as those of EC7 do, has come back by the time it
  is sent. TLC sends ends of ranges and a few steps from there; the proof covers
  every value in between, any number of rounds up to `MaxRounds`, and any choice of
  messages in the order of `s_messages` (`InOrder`).

Only model-checked:

* all liveness, which is out of the prover's reach;
* the hypotheses above, which are facts about one marker, one polynomial and one
  browser: TLC evaluates them for its instance;
* `TablesAssumption` of `EcuTx`, on which `SignalsGetThrough` rests: field by field, the
  layouts of `CarSignals` and the database of `Candb` agree on place, width, scale and
  offset, a channel's range fits the width and the signal's range, and no two fields of
  a message overlap. It has no parameters and no variables, so that the evaluation by
  TLC in `ecu_tx` settles it.

So every safety property that a run finds to hold is also proved.

## 5. Not modelled, and the plan

In this order:

1. The queues of the RSU behind its check (`s_packet_queue` to its `nats_task`) as
   a composition of `UartSync` and `NatsUplink`, in place of the FIFO `relay`, and
   the proof that XBee link and RSU together are one lossy FIFO.
2. `NatsShared`: the connection that the legacy pages share (`lib/nats.ts`), which
   concurrent callers create and pages close, and the link status (`hooks.ts`),
   which compares clocks of different machines. Neither a comment nor a test
   says what they promise.

Left out for good: the NATS wire protocol beyond success and failure; logging
and statistics; null-pointer checks; `packet_serializer.c` and the other
placeholders, which are empty; Docker and Grafana configuration; the pages of the
dashboard; and the simulator, a test tool that builds its packets as `Packet` says.
The scaling of the TTU's readings is left out because its decoder does not exist
(section 3).
