--------------------------- MODULE TelemetryStore ---------------------------
(***************************************************************************)
(* The store behind the can2 dashboard (apps/web/src/app/can2/             *)
(* telemetry-store.ts): decoded records come in one by one over NATS and   *)
(* change the live data; once per animation frame what changed is copied   *)
(* into the snapshots the components render.  The catalog of all messages  *)
(* and signals ever seen is kept in localStorage, which the tabs of a      *)
(* browser share.                                                          *)
(*                                                                         *)
(* A record is the source it came from (deviceKey: device and origin), the *)
(* message and signal it is about, and perhaps an asset id.  Its value and *)
(* time stamp are its ordinal, for all that is done with them is to keep   *)
(* them.  Records that do not parse change nothing and are left out.       *)
(* The formulas of the specification have the prefix Store, so that        *)
(* ConsumerProofs can extend InfluxWriter too.                             *)
(***************************************************************************)
EXTENDS Integers, Sequences

CONSTANTS
    Tabs,          \* tabs of the browser that show the dashboard
    Devices,       \* device ids
    Origins,       \* obu, rsu
    MessageNames,  \* CAN message names
    Sensors,       \* sensor types
    Assets,        \* asset ids
    NoAsset,       \* a record or a source without one
    MaxHistory,    \* MAX_HISTORY_PER_SIGNAL, 60
    MaxRecords,    \* bound of the model: records published
    MaxReloads     \* bound of the model: page loads

ASSUME StoreAssumption ==
    /\ MaxHistory \in Nat \ {0} /\ MaxRecords \in Nat /\ MaxReloads \in Nat
    /\ NoAsset \notin Assets

VARIABLES
    count,     \* records published so far
    live,      \* devices: the history of each signal of each source
    summary,   \* device.summary: the asset of each source, or Unknown
    lastSeen,  \* originLastSeen, by origin
    catalog,   \* catalog: the (message, sensor) pairs known
    shown,     \* what the snapshots hold of the four
    unflushed, \* pendingTopics, pendingDeviceList, pendingCatalog, ...
    frame,     \* framePending: an animation frame is due
    storage,   \* localStorage: the pairs saved
    loads      \* page loads after the first

data == <<live, summary, lastSeen, catalog>>
storeVars == <<count, data, shown, unflushed, frame, storage, loads>>

Sources == Devices \X Origins
Signals == MessageNames \X Sensors
Topics == Sources \X MessageNames
Unknown == "unknown"
Never == 0

NoHistory == [s \in Sources |-> [g \in Signals |-> << >>]]
NoSummary == [s \in Sources |-> Unknown]
NeverSeen == [o \in Origins |-> Never]
NothingPending ==
    [topics |-> {}, deviceList |-> FALSE, catalog |-> FALSE, lastSeen |-> FALSE]

Histories == {h \in Seq(1..MaxRecords) : Len(h) <= MaxHistory}

\* What a tab holds of the telemetry, and what its components see of it.
Snapshots ==
    [live     : [Sources -> [Signals -> Histories]],
     summary  : [Sources -> Assets \cup {NoAsset, Unknown}],
     lastSeen : [Origins -> 0..MaxRecords],
     catalog  : SUBSET Signals]

StoreTypeOK ==
    /\ count \in 0..MaxRecords
    /\ live \in [Tabs -> [Sources -> [Signals -> Histories]]]
    /\ summary \in [Tabs -> [Sources -> Assets \cup {NoAsset, Unknown}]]
    /\ lastSeen \in [Tabs -> [Origins -> 0..MaxRecords]]
    /\ catalog \in [Tabs -> SUBSET Signals]
    /\ shown \in [Tabs -> Snapshots]
    /\ unflushed \in [Tabs -> [topics : SUBSET Topics, deviceList : BOOLEAN,
                               catalog : BOOLEAN, lastSeen : BOOLEAN]]
    /\ frame \in [Tabs -> BOOLEAN]
    /\ storage \subseteq Signals
    /\ loads \in 0..MaxReloads

\* A store just constructed: the catalog is what localStorage has.
Blank(saved) ==
    [live |-> NoHistory, summary |-> NoSummary, lastSeen |-> NeverSeen, catalog |-> saved]

StoreInit ==
    /\ count = 0
    /\ live = [t \in Tabs |-> NoHistory]
    /\ summary = [t \in Tabs |-> NoSummary]
    /\ lastSeen = [t \in Tabs |-> NeverSeen]
    /\ catalog = [t \in Tabs |-> {}]
    /\ shown = [t \in Tabs |-> Blank({})]
    /\ unflushed = [t \in Tabs |-> NothingPending]
    /\ frame = [t \in Tabs |-> FALSE]
    /\ storage = {}
    /\ loads = 0

-----------------------------------------------------------------------------

\* Mutant: the history is never cut.
PushedUncut(history, v) == Append(history, v)

\* [...history, point].slice(-MAX_HISTORY_PER_SIGNAL)
Pushed(history, v) ==
    LET h == Append(history, v)
    IN  IF Len(h) > MaxHistory THEN Tail(h) ELSE h

\* The summary after a record: a record without an asset does not take one away.
Summarised(old, asset) ==
    IF old = Unknown \/ asset # NoAsset THEN asset ELSE old

\* Mutant: a new asset of a source already listed is not flagged.
MarkedNewOnly(p, old, asset, new, topic) ==
    [topics |-> p.topics \cup {topic},
     deviceList |-> p.deviceList \/ old = Unknown,
     catalog |-> p.catalog \/ new,
     lastSeen |-> TRUE]

\* What a record leaves to be flushed: its topic, the device list when a source
\* is new or has another asset, the catalog when the signal is new.
Marked(p, old, asset, new, topic) ==
    [topics |-> p.topics \cup {topic},
     deviceList |-> p.deviceList \/ Summarised(old, asset) # old,
     catalog |-> p.catalog \/ new,
     lastSeen |-> TRUE]

\* handleMessage, with scheduleFlush.
HandleMessage(t, s, g, asset, v) ==
    /\ live' = [live EXCEPT ![t][s][g] = Pushed(@, v)]
    /\ summary' = [summary EXCEPT ![t][s] = Summarised(@, asset)]
    /\ lastSeen' = [lastSeen EXCEPT ![t][s[2]] = v]
    /\ catalog' = [catalog EXCEPT ![t] = @ \cup {g}]
    /\ unflushed' = [unflushed EXCEPT ![t] =
                       Marked(@, summary[t][s], asset, g \notin catalog[t], <<s, g[1]>>)]
    /\ frame' = [frame EXCEPT ![t] = TRUE]

\* The callback of a tab takes a record.  NATS Core sends each record to every
\* tab that is connected; as tabs take records at different times and may miss
\* any, each takes its own, and only the order within a tab means anything.
Receive(t) ==
    /\ count < MaxRecords
    /\ count' = count + 1
    /\ \E s \in Sources, g \in Signals, a \in Assets \cup {NoAsset} :
         HandleMessage(t, s, g, a, count')
    /\ UNCHANGED <<shown, storage, loads>>

\* The groups of the unflushed topics are copied, the others stay.
Copied(t) ==
    [s \in Sources |-> [g \in Signals |->
        IF <<s, g[1]>> \in unflushed[t].topics THEN live[t][s][g]
                                               ELSE shown[t].live[s][g]]]

\* Mutant: a frame that has topics to copy copies nothing else.
FlushOnlyTopics(t) ==
    /\ frame[t]
    /\ frame' = [frame EXCEPT ![t] = FALSE]
    /\ shown' = [shown EXCEPT ![t].live = Copied(t)]
    /\ unflushed' = [unflushed EXCEPT ![t].topics = {}]
    /\ UNCHANGED <<count, data, storage, loads>>

\* The animation frame: flush.
Flush(t) ==
    LET p == unflushed[t]
    IN  /\ frame[t]
        /\ frame' = [frame EXCEPT ![t] = FALSE]
        /\ shown' = [shown EXCEPT ![t] =
             [live |-> Copied(t),
              summary |-> IF p.deviceList THEN summary[t] ELSE @.summary,
              lastSeen |-> IF p.lastSeen THEN lastSeen[t] ELSE @.lastSeen,
              catalog |-> IF p.catalog THEN catalog[t] ELSE @.catalog]]
        /\ storage' = IF p.catalog THEN catalog[t] ELSE storage
        /\ unflushed' = [unflushed EXCEPT ![t] = NothingPending]
        /\ UNCHANGED <<count, data, loads>>

\* Mutant: a new page starts with an empty catalog.
ReloadBlank(t) ==
    /\ loads < MaxReloads
    /\ loads' = loads + 1
    /\ live' = [live EXCEPT ![t] = NoHistory]
    /\ summary' = [summary EXCEPT ![t] = NoSummary]
    /\ lastSeen' = [lastSeen EXCEPT ![t] = NeverSeen]
    /\ catalog' = [catalog EXCEPT ![t] = {}]
    /\ shown' = [shown EXCEPT ![t] = Blank({})]
    /\ unflushed' = [unflushed EXCEPT ![t] = NothingPending]
    /\ frame' = [frame EXCEPT ![t] = FALSE]
    /\ UNCHANGED <<count, storage>>

\* The page is loaded again, at any moment: all but localStorage is lost.
Reload(t) ==
    /\ loads < MaxReloads
    /\ loads' = loads + 1
    /\ live' = [live EXCEPT ![t] = NoHistory]
    /\ summary' = [summary EXCEPT ![t] = NoSummary]
    /\ lastSeen' = [lastSeen EXCEPT ![t] = NeverSeen]
    /\ catalog' = [catalog EXCEPT ![t] = storage]
    /\ shown' = [shown EXCEPT ![t] = Blank(storage)]
    /\ unflushed' = [unflushed EXCEPT ![t] = NothingPending]
    /\ frame' = [frame EXCEPT ![t] = FALSE]
    /\ UNCHANGED <<count, storage>>

StoreNext == \E t \in Tabs : Receive(t) \/ Flush(t) \/ Reload(t)

StoreSpec == StoreInit /\ [][StoreNext]_storeVars

\* The browser draws a visible tab again and again.
StoreFairness == \A t \in Tabs : WF_storeVars(Flush(t))

-----------------------------------------------------------------------------
(* Properties *)

Live(t) ==
    [live |-> live[t], summary |-> summary[t], lastSeen |-> lastSeen[t],
     catalog |-> catalog[t]]

\* No update is forgotten: where a snapshot differs from the data, the part that
\* differs is flagged and a frame is due.  The flags are set one record at a
\* time and cleared together (telemetry-store.ts:292-391); a flag missed leaves
\* a card, the device menu or the picker stale until something else changes.
NothingForgotten ==
    \A t \in Tabs :
        /\ \A s \in Sources, g \in Signals :
             shown[t].live[s][g] # live[t][s][g] => <<s, g[1]>> \in unflushed[t].topics
        /\ shown[t].summary # summary[t] => unflushed[t].deviceList
        /\ shown[t].catalog # catalog[t] => unflushed[t].catalog
        /\ shown[t].lastSeen # lastSeen[t] => unflushed[t].lastSeen
        /\ unflushed[t] # NothingPending => frame[t]

\* Every tab shows all it has received again and again, and for good once
\* records stop: no frame is lost between framePending and the flush.
ShowsEverything == \A t \in Tabs : []<>(shown[t] = Live(t))

\* A browser that shows the dashboard in one tab.  Of two, one overwrites what
\* the other saved, and CatalogKept does not hold.
OneTab == \A t, u \in Tabs : t = u

\* The catalog is of all signals "this browser has ever seen, from any device,
\* across any past session" (telemetry-store.ts:65-67): what was saved stays.
CatalogKept == [][storage \subseteq storage']_storeVars
=============================================================================
