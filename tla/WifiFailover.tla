--------------------------- MODULE WifiFailover ----------------------------
(***************************************************************************)
(* How the OBU stays on a WiFi network (obu/main/main.c; the RSU runs the  *)
(* same code).  wifi_event_handler, on the event loop task, connects,      *)
(* retries and moves on to the next candidate network.  nats_task polls    *)
(* WIFI_CONNECTED_BIT; when a candidate has had no IP address for          *)
(* OBU_WIFI_DHCP_TIMEOUT_MS it sets s_wifi_force_advance and calls         *)
(* esp_wifi_disconnect(), and leaves the rest to the handler.              *)
(*                                                                         *)
(* The two tasks share plain variables and no lock.  nats_task has the     *)
(* higher priority: it runs between any two statements of the handler, and *)
(* the handler runs wherever nats_task blocks (a log line, a driver call). *)
(*                                                                         *)
(* The WiFi driver is external: esp_wifi_connect() and                     *)
(* esp_wifi_disconnect() are asynchronous and answer with events.          *)
(***************************************************************************)
EXTENDS Integers, Sequences, SequencesExt

CONSTANTS
    Candidates,   \* WIFI_CANDIDATE_COUNT
    MaxRetries,   \* OBU_WIFI_MAX_RETRIES_PER_CANDIDATE
    Timeout,      \* OBU_WIFI_DHCP_TIMEOUT_MS, in ticks of the model
    Prompt        \* whether the steps of the tasks take no time next to Timeout

ASSUME FailoverAssumption ==
    /\ {Candidates, MaxRetries, Timeout} \subseteq Nat \ {0}
    /\ Prompt \in BOOLEAN

VARIABLES
    bit,         \* WIFI_CONNECTED_BIT
    idx,         \* s_wifi_candidate_idx
    failCount,   \* s_wifi_fail_count
    force,       \* s_wifi_force_advance
    age,         \* ticks since s_wifi_candidate_started_us, up to Timeout
    hpc,         \* what wifi_event_handler is about to do
    advance,     \* its local force_advance
    npc,         \* what nats_task is about to do
    radio,       \* driver: state of the station
    events       \* driver: the queue of the default event loop

shared == <<bit, idx, failCount, force, age>>
handler == <<hpc, advance>>
driver == <<radio, events>>
vars == <<shared, handler, npc, driver>>

Init ==
    /\ bit = FALSE /\ idx = 0 /\ failCount = 0 /\ force = FALSE /\ age = 0
    /\ hpc = "wait" /\ advance = FALSE /\ npc = "poll"
    /\ radio = "idle" /\ events = <<"STA_START">>

-----------------------------------------------------------------------------
(* The driver.                                                             *)

\* esp_wifi_connect(): "sta is connecting, return error" unless idle.
EspWifiConnect == radio' = IF radio = "idle" THEN "connecting" ELSE radio

\* esp_wifi_disconnect(): the event comes later; there is none for a station
\* that is not connected or connecting.
EspWifiDisconnect ==
    IF radio = "idle"
    THEN UNCHANGED driver
    ELSE radio' = "idle" /\ events' = Append(events, "STA_DISCONNECTED")

Associate ==
    /\ radio = "connecting"
    /\ radio' = "associated"
    /\ UNCHANGED <<shared, handler, npc, events>>

\* DHCP completes.
GetIp ==
    /\ radio = "associated"
    /\ radio' = "up"
    /\ events' = Append(events, "STA_GOT_IP")
    /\ UNCHANGED <<shared, handler, npc>>

\* The attempt fails, or the network goes away.
Lose ==
    /\ radio # "idle"
    /\ radio' = "idle"
    /\ events' = Append(events, "STA_DISCONNECTED")
    /\ UNCHANGED <<shared, handler, npc>>

Older(t) == IF t < Timeout THEN t + 1 ELSE t

Tick ==
    /\ Prompt => hpc = "wait" /\ npc = "poll" /\ events = << >>
    /\ age' = Older(age)
    /\ UNCHANGED <<bit, idx, failCount, force, handler, npc, driver>>

-----------------------------------------------------------------------------
(* wifi_event_handler.                                                     *)

\* Mutant: the bit stays set when the link is lost.
TakeEventKeepsBit ==
    /\ hpc = "wait" /\ events # << >>
    /\ events' = Tail(events)
    /\ hpc' = CASE Head(events) = "STA_START" -> "apply"
                [] Head(events) = "STA_DISCONNECTED" -> "read"
                [] Head(events) = "STA_GOT_IP" -> "gotip"
    /\ UNCHANGED <<shared, advance, npc, radio>>

\* The event loop calls the handler.  The first thing it does for a lost link
\* is to clear the bit; the other two events only start here.
TakeEvent ==
    /\ hpc = "wait" /\ events # << >>
    /\ events' = Tail(events)
    /\ hpc' = CASE Head(events) = "STA_START" -> "apply"
                [] Head(events) = "STA_DISCONNECTED" -> "read"
                [] Head(events) = "STA_GOT_IP" -> "gotip"
    /\ bit' = (bit /\ Head(events) # "STA_DISCONNECTED")
    /\ UNCHANGED <<idx, failCount, force, age, advance, npc, radio>>

\* force_advance = s_wifi_force_advance; nats_task may set the flag between
\* this and the next statement, which clears it.
ReadForce ==
    /\ hpc = "read"
    /\ advance' = force
    /\ hpc' = "decide"
    /\ UNCHANGED <<shared, npc, driver>>

\* Mutant: the handler connects only when it has moved on.
DecideRetriesNothing ==
    /\ hpc = "decide"
    /\ force' = FALSE /\ advance' = FALSE
    /\ IF advance \/ failCount + 1 >= MaxRetries
       THEN failCount' = 0 /\ idx' = (idx + 1) % Candidates /\ hpc' = "apply"
       ELSE failCount' = failCount + 1 /\ hpc' = "wait" /\ UNCHANGED idx
    /\ UNCHANGED <<bit, age, npc, driver>>

\* Mutant: the last candidate is never left.
DecideStopsAtLast ==
    /\ hpc = "decide"
    /\ force' = FALSE /\ advance' = FALSE
    /\ IF advance \/ failCount + 1 >= MaxRetries
       THEN /\ failCount' = 0
            /\ idx' = IF idx + 1 < Candidates THEN idx + 1 ELSE idx
            /\ hpc' = "apply"
       ELSE failCount' = failCount + 1 /\ hpc' = "connect" /\ UNCHANGED idx
    /\ UNCHANGED <<bit, age, npc, driver>>

\* Clears s_wifi_force_advance; moves on to the next candidate when
\* nats_task asked for it or the retries are used up.
Decide ==
    /\ hpc = "decide"
    /\ force' = FALSE /\ advance' = FALSE
    /\ IF advance \/ failCount + 1 >= MaxRetries
       THEN /\ failCount' = 0
            /\ idx' = (idx + 1) % Candidates
            /\ hpc' = "apply"
       ELSE /\ failCount' = failCount + 1
            /\ hpc' = "connect"
            /\ UNCHANGED idx
    /\ UNCHANGED <<bit, age, npc, driver>>

\* wifi_apply_candidate()
ApplyCandidate ==
    /\ hpc = "apply"
    /\ age' = 0
    /\ hpc' = "connect"
    /\ UNCHANGED <<bit, idx, failCount, force, advance, npc, driver>>

Connect ==
    /\ hpc = "connect"
    /\ EspWifiConnect
    /\ hpc' = "wait"
    /\ UNCHANGED <<shared, advance, npc, events>>

GotIp ==
    /\ hpc = "gotip"
    /\ failCount' = 0
    /\ age' = 0
    /\ bit' = TRUE
    /\ hpc' = "wait"
    /\ UNCHANGED <<idx, force, advance, npc, driver>>

WifiEventHandler ==
    TakeEvent \/ ReadForce \/ Decide \/ ApplyCandidate \/ Connect \/ GotIp

-----------------------------------------------------------------------------
(* nats_task, as far as it looks after the link.                           *)

\* The top of the loop finds the bit clear, no forced advance under way and
\* the time used up.  (With the bit set the task goes to work; see NatsUplink.)
Poll ==
    /\ npc = "poll"
    /\ ~bit /\ ~force /\ age >= Timeout
    /\ npc' = "force"
    /\ UNCHANGED <<shared, handler, driver>>

SetForce ==
    /\ npc = "force"
    /\ force' = TRUE
    /\ npc' = "disconnect"
    /\ UNCHANGED <<bit, idx, failCount, age, handler, driver>>

\* Mutant: nats_task reconnects the station itself.
DisconnectAndConnect ==
    /\ npc = "disconnect"
    /\ radio' = "connecting"
    /\ events' = Append(events, "STA_DISCONNECTED")
    /\ npc' = "poll"
    /\ UNCHANGED <<shared, handler>>

Disconnect ==
    /\ npc = "disconnect"
    /\ EspWifiDisconnect
    /\ npc' = "poll"
    /\ UNCHANGED <<shared, handler>>

NatsTask == Poll \/ SetForce \/ Disconnect

Next ==
    \/ Associate \/ GetIp \/ Lose
    \/ Tick
    \/ WifiEventHandler
    \/ NatsTask

Spec == Init /\ [][Next]_vars

(***************************************************************************)
(* Both tasks are scheduled and time passes; an attempt to associate ends. *)
(* Nothing is assumed of DHCP, of the link's life or of the next attempt.  *)
(***************************************************************************)
FairSpec ==
    /\ Spec
    /\ WF_vars(WifiEventHandler)
    /\ WF_vars(NatsTask)
    /\ WF_vars(Tick)
    /\ WF_vars(radio = "connecting" /\ (Associate \/ Lose))

-----------------------------------------------------------------------------
(* Properties.                                                             *)

TypeOK ==
    /\ {bit, force, advance} \subseteq BOOLEAN
    /\ idx \in 0..(Candidates - 1)
    /\ failCount \in 0..(MaxRetries - 1)
    /\ age \in 0..Timeout
    /\ hpc \in {"wait", "read", "decide", "apply", "connect", "gotip"}
    /\ npc \in {"poll", "force", "disconnect"}
    /\ radio \in {"idle", "connecting", "associated", "up"}
    /\ events \in Seq({"STA_START", "STA_DISCONNECTED", "STA_GOT_IP"})

Pending(e) == e \in ToSet(events)

\* The handler is the single owner of reconnecting, and that is enough: it
\* never calls esp_wifi_connect() while an attempt is under way, ...
OneConnect == hpc \in {"apply", "connect"} => radio = "idle"

\* ... and never forgets to: an idle station has an event or a handler that
\* will connect it, exactly one.
IdleIsTakenCareOf ==
    radio = "idle" <=>
        \/ Pending("STA_START") \/ Pending("STA_DISCONNECTED")
        \/ hpc \in {"read", "decide", "apply", "connect"}

\* The bit is wrong only while the event that will correct it is on its way.
BitFollowsRadio ==
    bit # (radio = "up") =>
        \/ Pending("STA_GOT_IP") \/ Pending("STA_DISCONNECTED")
        \/ hpc = "gotip"

\* However often connections fail, are lost or hang without an address, the
\* station goes on: it is connected to some network again and again, or it
\* tries every candidate again and again, provided a hanging association is
\* ended by the access point.
KeepsTrying ==
    (radio = "associated" ~> radio # "associated")
        => \/ []<>bit
           \/ \A c \in 0..(Candidates - 1) : []<>(idx = c /\ radio = "connecting")

\* main.c:742: the "time-based escape hatch": a station that is associated and
\* never gets an address is disconnected and goes to the next candidate.
EscapeHatch == radio = "associated" ~> radio # "associated"
=============================================================================
