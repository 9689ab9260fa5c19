------------------------------- MODULE Dedup -------------------------------
(***************************************************************************)
(* The Deduplicator of services/input/nats (internal/dedup.go): the same   *)
(* packet reaches the adapter over WiFi from the OBU and over XBee from    *)
(* the RSU, and only the first copy is to be processed.  Accept remembers  *)
(* the key (device_id, sequence) with the time; Sweep, called by the       *)
(* adapter's loop, forgets entries older than the window.                  *)
(*                                                                         *)
(* "now" is the process's clock in units of the model.  A restart of the   *)
(* adapter process loses everything (nothing is persisted).                *)
(***************************************************************************)
EXTENDS Integers, Sequences

CONSTANTS
    Devices,   \* device ids
    MaxSeq,    \* the largest sequence number: 2^32 - 1 in the code
    Window,    \* DedupWindow
    MaxTime    \* bound of the model: the clock stops here

ASSUME DedupAssumption == MaxSeq \in Nat /\ Window \in Nat /\ MaxTime \in Nat

VARIABLES
    now,       \* time.Now()
    swept,     \* when the last Sweep ran (or the process started)
    seen,      \* d.seen: the time of each remembered key, or Never
    lastSeq,   \* d.lastSeq, or Never
    accepted,  \* ghost: the keys Accept returned true for, and when
    reported   \* ghost: the sequence numbers "possible sequence gap" lines named

vars == <<now, swept, seen, lastSeq, accepted, reported>>

Seqs == 0..MaxSeq
Keys == Devices \X Seqs
Never == -1

Init ==
    /\ now = 0 /\ swept = 0
    /\ seen = [k \in Keys |-> Never]
    /\ lastSeq = [d \in Devices |-> Never]
    /\ accepted = << >>
    /\ reported = [d \in Devices |-> {}]

-----------------------------------------------------------------------------

IsDuplicate(d, s) == seen[<<d, s>>] # Never

\* Mutant: the number expected next is kept, without the wrap of uint32.
RaisedToNext(last, s) == IF last = Never \/ s > last THEN s + 1 ELSE last

\* lastSeq only rises: an older packet may come in late over the slower path.
Raised(last, s) == IF last = Never \/ s > last THEN s ELSE last

\* Mutant: a gap of one is overlooked.
GapOfTwo(last, s) ==
    LET next == (last + 1) % (MaxSeq + 1)
    IN  IF last # Never /\ s > next + 1 THEN next..(s - 1) ELSE {}

\* The numbers named in the log line: last+1 .. sequence-1, in uint32.
Gap(last, s) ==
    LET next == (last + 1) % (MaxSeq + 1)
    IN  IF last # Never /\ s > next THEN next..(s - 1) ELSE {}

\* Mutant: a late packet, one that does not raise lastSeq, is not remembered.
AcceptForgetsLate(d, s) ==
    /\ ~IsDuplicate(d, s)
    /\ seen' = IF s > lastSeq[d] THEN [seen EXCEPT ![<<d, s>>] = now] ELSE seen
    /\ lastSeq' = [lastSeq EXCEPT ![d] = Raised(@, s)]
    /\ reported' = [reported EXCEPT ![d] = @ \cup Gap(lastSeq[d], s)]
    /\ accepted' = Append(accepted, [key |-> <<d, s>>, at |-> now])
    /\ UNCHANGED <<now, swept>>

\* Accept(d, s) returns false for a remembered key and changes nothing; this
\* is the call that returns true.
Accept(d, s) ==
    /\ ~IsDuplicate(d, s)
    /\ seen' = [seen EXCEPT ![<<d, s>>] = now]
    /\ lastSeq' = [lastSeq EXCEPT ![d] = Raised(@, s)]
    /\ reported' = [reported EXCEPT ![d] = @ \cup Gap(lastSeq[d], s)]
    /\ accepted' = Append(accepted, [key |-> <<d, s>>, at |-> now])
    /\ UNCHANGED <<now, swept>>

\* Mutant: an entry is dropped when it is exactly as old as the window.
ExpiredAtWindow(t) == t <= now - Window

\* t.Before(now - window)
Expired(t) == t < now - Window

Sweep ==
    /\ seen' = [k \in Keys |-> IF Expired(seen[k]) THEN Never ELSE seen[k]]
    /\ swept' = now
    /\ UNCHANGED <<now, lastSeq, accepted, reported>>

Tick ==
    /\ now < MaxTime
    /\ now' = now + 1
    /\ UNCHANGED <<swept, seen, lastSeq, accepted, reported>>

\* The process is replaced by a new one with an empty Deduplicator.
Restart ==
    /\ swept' = now
    /\ seen' = [k \in Keys |-> Never]
    /\ lastSeq' = [d \in Devices |-> Never]
    /\ accepted' = << >>
    /\ reported' = [d \in Devices |-> {}]
    /\ UNCHANGED now

Next ==
    \/ \E d \in Devices, s \in Seqs : Accept(d, s)
    \/ Sweep
    \/ Tick
    \/ Restart

Spec == Init /\ [][Next]_vars

-----------------------------------------------------------------------------
(* Properties.                                                             *)

Entry == [key : Keys, at : Nat]

TypeOK ==
    /\ now \in Nat
    /\ swept \in 0..now
    /\ seen \in [Keys -> {Never} \cup 0..now]
    /\ lastSeq \in [Devices -> {Never} \cup Seqs]
    /\ accepted \in Seq(Entry)
    /\ reported \in [Devices -> SUBSET Seqs]

\* A process accepts the same (device_id, sequence) again only when more than
\* the window has passed since it last did, wherever the sweeps fell.
OnceInWindow ==
    \A i, j \in 1..Len(accepted) :
        i < j /\ accepted[i].key = accepted[j].key
            => accepted[j].at - accepted[i].at > Window

\* What is remembered was accepted, then; and what was accepted since a window
\* before the last sweep is remembered: a rejection is always earned, and the
\* cache holds no entry a sweep should have removed.
SeenIsRecentlyAccepted ==
    /\ \A k \in Keys : seen[k] # Never =>
        /\ seen[k] >= swept - Window
        /\ \E i \in 1..Len(accepted) :
              accepted[i] = [key |-> k, at |-> seen[k]]
    /\ \A i \in 1..Len(accepted) :
        accepted[i].at >= swept - Window => seen[accepted[i].key] # Never

\* Between the first sequence number of a device and its highest, a number that
\* was not accepted has been named in a gap line: nothing is missing silently.
NoSilentGap ==
    \A d \in Devices : \A i \in 1..Len(accepted) :
        accepted[i].key[1] = d /\ (\A j \in 1..(i - 1) : accepted[j].key[1] # d)
            => \A s \in accepted[i].key[2]..lastSeq[d] :
                  \/ s \in reported[d]
                  \/ \E j \in 1..Len(accepted) : accepted[j].key = <<d, s>>
=============================================================================
