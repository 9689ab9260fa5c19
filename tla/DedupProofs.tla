---------------------------- MODULE DedupProofs -----------------------------
(***************************************************************************)
(* Proofs about Dedup, for every set of devices, range of sequence         *)
(* numbers, window and end of the clock, and a log of any length; and      *)
(* about EndToEnd, where the Deduplicator stands at the end of two paths,  *)
(* for all frames, damages and delays that EndToEndAssumption and CrcTells *)
(* admit.                                                                  *)
(***************************************************************************)
EXTENDS EndToEnd, SequenceTheorems, FiniteSetTheorems, TLAPS

-----------------------------------------------------------------------------
(* Type correctness.                                                       *)

\* What one more entry does to the log.
LEMMA LogAppend ==
    ASSUME NEW k \in Keys, NEW t \in Nat, accepted \in Seq(Entry)
    PROVE  LET e == [key |-> k, at |-> t]
               log == Append(accepted, e)
           IN  /\ e \in Entry
               /\ log \in Seq(Entry)
               /\ Len(accepted) \in Nat
               /\ Len(log) = Len(accepted) + 1
               /\ \A i \in 1..Len(accepted) : log[i] = accepted[i]
               /\ log[Len(accepted) + 1] = e
<1>1. [key |-> k, at |-> t] \in Entry
  BY DEF Entry
<1>2. QED
  BY <1>1, AppendProperties, LenProperties

\* The Deduplicator keeps its maps and its log in their types: in particular
\* no time in seen is in the future and no lastSeq is beyond uint32.
THEOREM TypeCorrect == Spec => []TypeOK
<1>1. Init => TypeOK
  BY EmptySeq DEF Init, TypeOK, Entry
<1>2. TypeOK /\ [Next]_vars => TypeOK'
  <2> SUFFICES ASSUME TypeOK, [Next]_vars PROVE TypeOK'
    OBVIOUS
  <2> USE DedupAssumption
  <2>1. ASSUME NEW d \in Devices, NEW s \in Seqs, Accept(d, s)
        PROVE  TypeOK'
    <3>1. <<d, s>> \in Keys /\ now \in Nat /\ now \in 0..now
      BY DEF Keys, TypeOK
    <3>2. accepted' \in Seq(Entry)
      BY <2>1, <3>1, LogAppend DEF Accept, TypeOK
    <3>3. seen' \in [Keys -> {Never} \cup 0..now]
      BY <2>1, <3>1 DEF Accept, TypeOK
    <3>4. lastSeq' \in [Devices -> {Never} \cup Seqs]
      BY <2>1 DEF Accept, TypeOK, Raised
    <3>5. Gap(lastSeq[d], s) \subseteq Seqs
      <4>1. CASE lastSeq[d] = Never
        BY <4>1 DEF Gap
      <4>2. CASE lastSeq[d] \in Seqs
        <5>1. (lastSeq[d] + 1) % (MaxSeq + 1) \in Nat
          BY <4>2 DEF Seqs
        <5>2. QED
          BY <5>1 DEF Gap, Seqs
      <4>3. QED
        BY <4>1, <4>2 DEF TypeOK
    <3>6. reported' \in [Devices -> SUBSET Seqs]
      BY <2>1, <3>5 DEF Accept, TypeOK
    <3>7. QED
      BY <2>1, <3>2, <3>3, <3>4, <3>6 DEF Accept, TypeOK
  <2>2. CASE Sweep
    BY <2>2 DEF Sweep, TypeOK
  <2>3. CASE Tick
    BY <2>3 DEF Tick, TypeOK
  <2>4. CASE Restart
    BY <2>4, EmptySeq DEF Restart, TypeOK
  <2>5. CASE UNCHANGED vars
    BY <2>5 DEF vars, TypeOK, Entry
  <2>6. QED
    BY <2>1, <2>2, <2>3, <2>4, <2>5 DEF Next
<1>3. QED
  BY <1>1, <1>2, PTL DEF Spec

-----------------------------------------------------------------------------
(* The window.                                                             *)

\* What the cache says of the log: an entry of seen is at least as young as
\* every acceptance of its key; a key that is not in seen was last accepted
\* before the sweep's limit.
CacheInv ==
    \A i \in 1..Len(accepted) :
        /\ accepted[i].at <= now
        /\ seen[accepted[i].key] = Never => accepted[i].at < swept - Window
        /\ seen[accepted[i].key] # Never
              => accepted[i].at <= seen[accepted[i].key]

LEMMA CacheInvariant == Spec => [](CacheInv /\ OnceInWindow)
<1>1. Init => CacheInv /\ OnceInWindow
  BY EmptySeq DEF Init, CacheInv, OnceInWindow
<1>2. TypeOK /\ CacheInv /\ OnceInWindow /\ [Next]_vars
          => (CacheInv /\ OnceInWindow)'
  <2> SUFFICES ASSUME TypeOK, CacheInv, OnceInWindow, [Next]_vars
               PROVE  CacheInv' /\ OnceInWindow'
    OBVIOUS
  <2> USE DedupAssumption
  <2>0. /\ accepted \in Seq(Entry) /\ now \in Nat /\ swept \in 0..now
        /\ seen \in [Keys -> {Never} \cup 0..now]
        /\ Len(accepted) \in Nat
        /\ \A i \in 1..Len(accepted) :
              accepted[i] \in Entry /\ accepted[i].key \in Keys
              /\ accepted[i].at \in Nat
    <3>1. accepted \in Seq(Entry)
      BY DEF TypeOK
    <3>2. Len(accepted) \in Nat /\ \A i \in 1..Len(accepted) : accepted[i] \in Entry
      BY <3>1, ElementOfSeq, LenProperties
    <3>3. \A x \in Entry : x.key \in Keys /\ x.at \in Nat
      BY DEF Entry
    <3>4. QED
      BY <3>1, <3>2, <3>3 DEF TypeOK
  <2>1. ASSUME NEW d \in Devices, NEW s \in Seqs, Accept(d, s)
        PROVE  CacheInv' /\ OnceInWindow'
    <3> DEFINE k == <<d, s>>
               e == [key |-> k, at |-> now]
               n == Len(accepted)
    <3>1. /\ seen[k] = Never /\ seen' = [seen EXCEPT ![k] = now]
          /\ accepted' = Append(accepted, e)
          /\ now' = now /\ swept' = swept /\ k \in Keys
      BY <2>1 DEF Accept, IsDuplicate, Keys
    <3>2. /\ Len(accepted') = n + 1
          /\ \A i \in 1..n : accepted'[i] = accepted[i]
          /\ accepted'[n + 1] = e /\ e.key = k /\ e.at = now
      BY <2>0, <3>1, LogAppend
    <3>3. seen'[k] = now /\ \A l \in Keys : l # k => seen'[l] = seen[l]
      BY <2>0, <3>1
    <3>4. now # Never
      BY <2>0 DEF Never
    <3>5. \A i \in 1..n : accepted[i].key = k => now - accepted[i].at > Window
      <4> SUFFICES ASSUME NEW i \in 1..n, accepted[i].key = k
                   PROVE  now - accepted[i].at > Window
        OBVIOUS
      <4>1. accepted[i].at < swept - Window
        BY <3>1 DEF CacheInv
      <4>2. accepted[i].at \in Nat
        BY <2>0
      <4>3. QED
        BY <2>0, <4>1, <4>2
    <3>6. CacheInv'
      <4> SUFFICES ASSUME NEW i \in 1..(n + 1)
                   PROVE  /\ accepted'[i].at <= now
                          /\ seen'[accepted'[i].key] = Never
                                => accepted'[i].at < swept - Window
                          /\ seen'[accepted'[i].key] # Never
                                => accepted'[i].at <= seen'[accepted'[i].key]
        BY <3>1, <3>2 DEF CacheInv
      <4>1. CASE i = n + 1
        <5>1. accepted'[i].key = k /\ accepted'[i].at = now
          BY <3>2, <4>1
        <5>2. now <= now
          BY <2>0
        <5>3. QED
          BY <3>3, <3>4, <5>1, <5>2
      <4>2. CASE i \in 1..n
        <5>1. accepted'[i] = accepted[i] /\ accepted[i].at <= now
          BY <3>2, <4>2 DEF CacheInv
        <5>2. CASE accepted[i].key = k
          BY <3>3, <3>4, <5>1, <5>2
        <5>3. CASE accepted[i].key # k
          BY <2>0, <3>3, <4>2, <5>1, <5>3 DEF CacheInv
        <5>4. QED
          BY <5>2, <5>3
      <4>3. QED
        BY <2>0, <4>1, <4>2
    <3>7. OnceInWindow'
      <4> SUFFICES ASSUME NEW i \in 1..(n + 1), NEW j \in 1..(n + 1), i < j,
                          accepted'[i].key = accepted'[j].key
                   PROVE  accepted'[j].at - accepted'[i].at > Window
        BY <3>2 DEF OnceInWindow
      <4>1. i \in 1..n
        BY <2>0
      <4>2. CASE j = n + 1
        BY <3>2, <3>5, <4>1, <4>2
      <4>3. CASE j \in 1..n
        BY <3>2, <4>1, <4>3 DEF OnceInWindow
      <4>4. QED
        BY <2>0, <4>2, <4>3
    <3>8. QED
      BY <3>6, <3>7
  <2>2. CASE Sweep
    <3>1. /\ accepted' = accepted /\ now' = now /\ swept' = now
          /\ seen' = [k \in Keys |-> IF Expired(seen[k]) THEN Never ELSE seen[k]]
      BY <2>2 DEF Sweep
    <3>2. OnceInWindow'
      BY <3>1 DEF OnceInWindow
    <3>3. ASSUME NEW i \in 1..Len(accepted)
          PROVE  /\ seen'[accepted[i].key] = Never
                       => accepted[i].at < now - Window
                 /\ seen'[accepted[i].key] # Never
                       => accepted[i].at <= seen'[accepted[i].key]
      <4> DEFINE l == accepted[i].key
      <4>0. l \in Keys /\ accepted[i].at \in Nat /\ seen[l] \in {Never} \cup 0..now
        BY <2>0
      <4>1. seen'[l] = IF seen[l] < now - Window THEN Never ELSE seen[l]
        BY <3>1, <4>0 DEF Expired
      <4>2. /\ seen[l] = Never => accepted[i].at < swept - Window
            /\ seen[l] # Never => accepted[i].at <= seen[l]
        BY DEF CacheInv
      <4>3. /\ now \in Nat /\ swept \in 0..now /\ Window \in Nat
            /\ accepted[i].at \in Nat
        BY <2>0
      <4> HIDE DEF l
      <4>4. seen'[l] = Never => accepted[i].at < now - Window
        BY <4>0, <4>1, <4>2, <4>3
      <4>5. seen'[l] # Never => accepted[i].at <= seen'[l]
        BY <4>1, <4>2
      <4>6. QED
        BY <4>4, <4>5 DEF l
    <3>4. QED
      BY <3>1, <3>2, <3>3 DEF CacheInv
  <2>3. CASE Tick
    BY <2>0, <2>3 DEF Tick, CacheInv, OnceInWindow
  <2>4. CASE Restart
    BY <2>4, EmptySeq DEF Restart, CacheInv, OnceInWindow
  <2>5. CASE UNCHANGED vars
    BY <2>5 DEF vars, CacheInv, OnceInWindow
  <2>6. QED
    BY <2>1, <2>2, <2>3, <2>4, <2>5 DEF Next
<1>3. QED
  BY <1>1, <1>2, TypeCorrect, PTL DEF Spec

\* No packet is accepted twice within the window, wherever the sweeps fall and
\* however late they are.
THEOREM AcceptsOnceInWindow == Spec => []OnceInWindow
BY CacheInvariant, PTL

-----------------------------------------------------------------------------
(* What is remembered.                                                     *)

\* The first half of SeenIsRecentlyAccepted.
SeenWasAccepted ==
    \A k \in Keys : seen[k] # Never =>
        /\ seen[k] >= swept - Window
        /\ \E i \in 1..Len(accepted) :
              accepted[i] = [key |-> k, at |-> seen[k]]

LEMMA SeenInvariant == Spec => []SeenWasAccepted
<1>1. Init => SeenWasAccepted
  BY DEF Init, SeenWasAccepted
<1>2. TypeOK /\ SeenWasAccepted /\ [Next]_vars => SeenWasAccepted'
  <2> SUFFICES ASSUME TypeOK, SeenWasAccepted, [Next]_vars,
                      NEW k \in Keys, seen'[k] # Never
               PROVE  /\ seen'[k] >= swept' - Window
                      /\ \E i \in 1..Len(accepted') :
                            accepted'[i] = [key |-> k, at |-> seen'[k]]
    BY DEF SeenWasAccepted
  <2> USE DedupAssumption
  <2>0. /\ accepted \in Seq(Entry) /\ now \in Nat /\ swept \in 0..now
        /\ seen \in [Keys -> {Never} \cup 0..now]
    BY DEF TypeOK
  <2>1. ASSUME NEW d \in Devices, NEW s \in Seqs, Accept(d, s)
        PROVE  /\ seen'[k] >= swept' - Window
               /\ \E i \in 1..Len(accepted') :
                     accepted'[i] = [key |-> k, at |-> seen'[k]]
    <3> DEFINE e == [key |-> <<d, s>>, at |-> now]
               n == Len(accepted)
    <3>1. /\ seen' = [seen EXCEPT ![<<d, s>>] = now] /\ swept' = swept
          /\ accepted' = Append(accepted, e) /\ <<d, s>> \in Keys
      BY <2>1 DEF Accept, Keys
    <3>2. /\ n \in Nat /\ Len(accepted') = n + 1 /\ accepted'[n + 1] = e
          /\ \A i \in 1..n : accepted'[i] = accepted[i]
      BY <2>0, <3>1, LogAppend
    <3>3. CASE k = <<d, s>>
      <4>1. seen'[k] = now
        BY <2>0, <3>1, <3>3
      <4>2. accepted'[n + 1] = [key |-> k, at |-> seen'[k]] /\ n + 1 \in 1..(n + 1)
        BY <3>2, <3>3, <4>1
      <4>3. now >= swept - Window
        BY <2>0
      <4>4. QED
        BY <3>1, <3>2, <4>1, <4>2, <4>3
    <3>4. CASE k # <<d, s>>
      <4>1. seen'[k] = seen[k]
        BY <2>0, <3>1, <3>4
      <4>2. PICK i \in 1..n : accepted[i] = [key |-> k, at |-> seen[k]]
        BY <4>1 DEF SeenWasAccepted
      <4>3. i \in 1..(n + 1) /\ accepted'[i] = accepted[i]
        BY <3>2
      <4>4. seen[k] >= swept - Window
        BY <4>1 DEF SeenWasAccepted
      <4>5. QED
        BY <3>1, <3>2, <4>1, <4>2, <4>3, <4>4
    <3>5. QED
      BY <3>3, <3>4
  <2>2. CASE Sweep
    <3>1. /\ seen'[k] = seen[k] /\ ~(seen[k] < now - Window)
          /\ swept' = now /\ accepted' = accepted
      BY <2>0, <2>2 DEF Sweep, Expired
    <3>2. seen[k] \in Int
      BY <2>0 DEF Never
    <3>3. seen[k] >= now - Window
      BY <2>0, <3>1, <3>2
    <3>4. QED
      BY <3>1, <3>3 DEF SeenWasAccepted
  <2>3. CASE Tick
    BY <2>3 DEF Tick, SeenWasAccepted
  <2>4. CASE Restart
    BY <2>4 DEF Restart
  <2>5. CASE UNCHANGED vars
    BY <2>5 DEF vars, SeenWasAccepted
  <2>6. QED
    BY <2>1, <2>2, <2>3, <2>4, <2>5 DEF Next
<1>3. QED
  BY <1>1, <1>2, TypeCorrect, PTL DEF Spec

\* A rejection is earned, no entry survives the sweep that should remove it,
\* and nothing young enough is forgotten.
THEOREM RemembersWhatItMust == Spec => []SeenIsRecentlyAccepted
<1>1. TypeOK /\ CacheInv /\ SeenWasAccepted => SeenIsRecentlyAccepted
  <2> SUFFICES ASSUME TypeOK, CacheInv, SeenWasAccepted
               PROVE  SeenIsRecentlyAccepted
    OBVIOUS
  <2>1. ASSUME NEW i \in 1..Len(accepted), accepted[i].at >= swept - Window
        PROVE  seen[accepted[i].key] # Never
    <3>1. accepted[i] \in Entry
      BY ElementOfSeq DEF TypeOK
    <3>2. accepted[i].at \in Int /\ swept \in Int /\ Window \in Int
      BY <3>1, DedupAssumption DEF TypeOK, Entry
    <3>3. ~(accepted[i].at < swept - Window)
      BY <2>1, <3>2
    <3>4. QED
      BY <3>3 DEF CacheInv
  <2>2. QED
    BY <2>1 DEF SeenWasAccepted, SeenIsRecentlyAccepted
<1>2. QED
  BY <1>1, TypeCorrect, CacheInvariant, SeenInvariant, PTL

-----------------------------------------------------------------------------
(* Gaps.                                                                   *)

\* NoSilentGap needs to know that lastSeq is set by the first
\* acceptance of a device and by nothing else.
HasLast ==
    /\ \A i \in 1..Len(accepted) : lastSeq[accepted[i].key[1]] # Never
    /\ \A d \in Devices : lastSeq[d] # Never
          => \E i \in 1..Len(accepted) : accepted[i].key[1] = d

\* The modulus of uint32 is never at work where a gap is reported.
LEMMA GapIsWhatIsBetween ==
    ASSUME NEW last \in Seqs, NEW s \in Seqs, NEW x \in Seqs, last < x, x < s
    PROVE  x \in Gap(last, s)
<1>1. last \in Nat /\ s \in Nat /\ x \in Nat /\ s <= MaxSeq /\ MaxSeq \in Nat
  BY DedupAssumption DEF Seqs
<1>2. last + 1 \in 0..MaxSeq
  BY <1>1
<1>3. (last + 1) % (MaxSeq + 1) = last + 1
  BY <1>1, <1>2
<1>4. last # Never
  BY <1>1 DEF Never
<1>5. s > last + 1 /\ x \in (last + 1)..(s - 1)
  BY <1>1
<1>6. QED
  BY <1>3, <1>4, <1>5 DEF Gap

LEMMA GapInvariant == Spec => [](HasLast /\ NoSilentGap)
<1>1. Init => HasLast /\ NoSilentGap
  BY EmptySeq DEF Init, HasLast, NoSilentGap
<1>2. TypeOK /\ HasLast /\ NoSilentGap /\ [Next]_vars => (HasLast /\ NoSilentGap)'
  <2> SUFFICES ASSUME TypeOK, HasLast, NoSilentGap, [Next]_vars
               PROVE  HasLast' /\ NoSilentGap'
    OBVIOUS
  <2>0. /\ accepted \in Seq(Entry) /\ now \in Nat
        /\ lastSeq \in [Devices -> {Never} \cup Seqs]
        /\ reported \in [Devices -> SUBSET Seqs]
    BY DEF TypeOK
  <2>1. ASSUME NEW d \in Devices, NEW s \in Seqs, Accept(d, s)
        PROVE  HasLast' /\ NoSilentGap'
    <3> DEFINE e == [key |-> <<d, s>>, at |-> now]
               n == Len(accepted)
               last == lastSeq[d]
    <3>1. /\ lastSeq' = [lastSeq EXCEPT ![d] = Raised(last, s)]
          /\ reported' = [reported EXCEPT ![d] = @ \cup Gap(last, s)]
          /\ accepted' = Append(accepted, e) /\ <<d, s>> \in Keys
      BY <2>1 DEF Accept, Keys
    <3>2. /\ n \in Nat /\ Len(accepted') = n + 1
          /\ accepted'[n + 1].key = <<d, s>>
          /\ \A i \in 1..n : accepted'[i] = accepted[i]
      BY <2>0, <3>1, LogAppend
    <3>3. /\ lastSeq'[d] = Raised(last, s)
          /\ reported'[d] = reported[d] \cup Gap(last, s)
          /\ \A c \in Devices : c # d => /\ lastSeq'[c] = lastSeq[c]
                                         /\ reported'[c] = reported[c]
      BY <2>0, <3>1
    <3>4. s \in Int /\ s # Never /\ s >= 0
      BY DedupAssumption DEF Seqs, Never
    <3>5. Raised(last, s) # Never
      BY <3>4 DEF Raised
    <3>6. \A i \in 1..n : accepted[i].key[1] \in Devices
      <4>1. \A i \in 1..n : accepted[i] \in Entry
        BY <2>0, ElementOfSeq
      <4>2. \A x \in Entry : x.key[1] \in Devices
        BY DEF Entry, Keys
      <4>3. QED
        BY <4>1, <4>2
    <3>7. HasLast'
      <4>1. ASSUME NEW i \in 1..(n + 1)
            PROVE  lastSeq'[accepted'[i].key[1]] # Never
        <5>1. CASE i = n + 1
          BY <3>2, <3>3, <3>5, <5>1
        <5>2. CASE i \in 1..n
          <6>1. /\ accepted'[i] = accepted[i]
                /\ lastSeq[accepted[i].key[1]] # Never
            BY <3>2, <5>2 DEF HasLast
          <6>2. CASE accepted[i].key[1] = d
            BY <3>3, <3>5, <6>1, <6>2
          <6>3. CASE accepted[i].key[1] # d
            BY <3>3, <3>6, <5>2, <6>1, <6>3
          <6>4. QED
            BY <6>2, <6>3
        <5>3. QED
          BY <3>2, <5>1, <5>2
      <4>2. ASSUME NEW c \in Devices, lastSeq'[c] # Never
            PROVE  \E i \in 1..(n + 1) : accepted'[i].key[1] = c
        <5>1. CASE c = d
          <6>1. accepted'[n + 1].key[1] = c /\ n + 1 \in 1..(n + 1)
            BY <3>2, <5>1
          <6>2. QED
            BY <6>1
        <5>2. CASE c # d
          <6>1. PICK i \in 1..n : accepted[i].key[1] = c
            BY <3>3, <4>2, <5>2 DEF HasLast
          <6>2. i \in 1..(n + 1) /\ accepted'[i].key[1] = c
            BY <3>2, <6>1
          <6>3. QED
            BY <6>2
        <5>3. QED
          BY <5>1, <5>2
      <4>3. QED
        BY <3>2, <4>1, <4>2 DEF HasLast
    <3>8. NoSilentGap'
      <4> SUFFICES ASSUME NEW c \in Devices, NEW i \in 1..Len(accepted'),
                          accepted'[i].key[1] = c,
                          \A j \in 1..(i - 1) : accepted'[j].key[1] # c,
                          NEW x \in accepted'[i].key[2]..lastSeq'[c]
                   PROVE  \/ x \in reported'[c]
                          \/ \E j \in 1..Len(accepted') :
                                accepted'[j].key = <<c, x>>
        BY Zenon DEF NoSilentGap
      <4>1. CASE i = n + 1
        <5>1. c = d /\ accepted'[i].key[2] = s
          BY <3>2, <4>1
        <5>2. \A j \in 1..n : accepted[j].key[1] # d
          BY <3>2, <4>1, <5>1
        <5>3. last = Never
          BY <5>2 DEF HasLast
        <5>4. x \in s..s
          BY <3>3, <5>1, <5>3 DEF Raised
        <5>5. x = s /\ n + 1 \in 1..(n + 1)
          BY <3>2, <3>4, <5>4
        <5>6. QED
          BY <3>2, <5>1, <5>5
      <4>2. CASE i \in 1..n
        <5>0. /\ accepted'[i] = accepted[i]
              /\ \A j \in 1..(i - 1) : accepted[j].key[1] # c
              /\ lastSeq[c] # Never
          BY <3>2, <4>2 DEF HasLast
        <5>1. ASSUME x \in accepted[i].key[2]..lastSeq[c]
              PROVE  \/ x \in reported'[c]
                     \/ \E j \in 1..Len(accepted') :
                           accepted'[j].key = <<c, x>>
          <6>1. CASE x \in reported[c]
            BY <3>3, <6>1
          <6>2. CASE \E j \in 1..n : accepted[j].key = <<c, x>>
            <7>1. PICK j \in 1..n : accepted[j].key = <<c, x>>
              BY <6>2
            <7>2. j \in 1..Len(accepted') /\ accepted'[j].key = <<c, x>>
              BY <3>2, <7>1
            <7>3. QED
              BY <7>2
          <6>3. QED
            BY <4>2, <5>0, <5>1, <6>1, <6>2 DEF NoSilentGap
        <5>2. CASE c # d
          <6>1. lastSeq'[c] = lastSeq[c] /\ accepted'[i] = accepted[i]
            BY <3>3, <5>0, <5>2
          <6>2. x \in accepted[i].key[2]..lastSeq[c]
            BY <6>1
          <6>3. QED
            BY <5>1, <6>2
        <5>3. CASE c = d
          <6>1. last \in Seqs
            BY <2>0, <5>0, <5>3
          <6>2. accepted[i].key[2] \in Int
            <7>1. accepted[i] \in Entry
              BY <2>0, <4>2, ElementOfSeq
            <7>2. QED
              BY <7>1 DEF Entry, Keys, Seqs
          <6>3. /\ last \in Int /\ x \in Int /\ last >= 0
                /\ x >= accepted[i].key[2]
            BY <5>0, <6>1, <6>2 DEF Seqs
          <6>4. CASE x <= last
            <7>1. x \in accepted[i].key[2]..lastSeq[c]
              BY <5>3, <6>2, <6>3, <6>4
            <7>2. QED
              BY <5>1, <7>1
          <6>5. CASE x > last
            <7>1. x <= Raised(last, s)
              BY <3>3, <3>4, <5>3, <6>1, <6>3 DEF Raised, Seqs
            <7>2. x <= s
              BY <3>4, <5>0, <5>3, <6>3, <6>5, <7>1 DEF Raised
            <7>3. CASE x = s
              <8>1. n + 1 \in 1..(n + 1)
                BY <3>2
              <8>2. QED
                BY <3>2, <5>3, <7>3, <8>1
            <7>4. CASE x < s
              <8>1. x \in Seqs
                BY <6>3, <6>5, <7>4, DedupAssumption DEF Seqs
              <8>2. x \in Gap(last, s)
                BY <6>1, <6>5, <6>3, <7>4, <8>1, GapIsWhatIsBetween
              <8>3. QED
                BY <3>3, <5>3, <8>2
            <7>5. QED
              BY <3>4, <6>3, <7>2, <7>3, <7>4
          <6>6. QED
            BY <6>3, <6>4, <6>5
        <5>4. QED
          BY <5>2, <5>3
      <4>3. n \in Nat /\ i \in 1..(n + 1)
        BY <3>2
      <4>4. i = n + 1 \/ i \in 1..n
        BY <4>3
      <4>5. QED
        BY <4>1, <4>2, <4>4
    <3>9. QED
      BY <3>7, <3>8
  <2>2. CASE UNCHANGED <<accepted, lastSeq, reported>>
    <3>1. accepted' = accepted /\ lastSeq' = lastSeq /\ reported' = reported
      BY <2>2
    <3>2. HasLast'
      BY <3>1 DEF HasLast
    <3>3. NoSilentGap'
      <4> SUFFICES ASSUME NEW c \in Devices, NEW i \in 1..Len(accepted'),
                          accepted'[i].key[1] = c,
                          \A j \in 1..(i - 1) : accepted'[j].key[1] # c,
                          NEW x \in accepted'[i].key[2]..lastSeq'[c]
                   PROVE  \/ x \in reported'[c]
                          \/ \E j \in 1..Len(accepted') :
                                accepted'[j].key = <<c, x>>
        BY Zenon DEF NoSilentGap
      <4>1. /\ i \in 1..Len(accepted) /\ accepted[i].key[1] = c
            /\ \A j \in 1..(i - 1) : accepted[j].key[1] # c
            /\ x \in accepted[i].key[2]..lastSeq[c]
        BY <3>1
      <4>2. x \in reported[c] \/ \E j \in 1..Len(accepted) : accepted[j].key = <<c, x>>
        BY <4>1, Zenon DEF NoSilentGap
      <4>3. QED
        BY <3>1, <4>2
    <3>4. QED
      BY <3>2, <3>3
  <2>3. CASE Restart
    BY <2>3, EmptySeq DEF Restart, HasLast, NoSilentGap
  <2>4. QED
    BY <2>1, <2>2, <2>3 DEF Next, Sweep, Tick, vars
<1>3. QED
  BY <1>1, <1>2, TypeCorrect, PTL DEF Spec

\* Between the first and the highest sequence number of a device, what was not
\* accepted was named in a gap line.
THEOREM GapsAreReported == Spec => []NoSilentGap
BY GapInvariant, PTL

-----------------------------------------------------------------------------
(* What reaches the adapter over the two paths.                            *)

\* u is the m elements of s and behind them the n elements of t.
Joins(u, s, m, t, n) ==
    /\ Len(u) = m + n
    /\ \A i \in 1..m : u[i] = s[i]
    /\ \A i \in 1..n : u[m + i] = t[i]

\* What a concatenation holds.
LEMMA Joined ==
    ASSUME NEW S, NEW s \in Seq(S), NEW t \in Seq(S),
           NEW m \in Nat, Len(s) = m, NEW n \in Nat, Len(t) = n
    PROVE  s \o t \in Seq(S) /\ Joins(s \o t, s, m, t, n)
<1>1. /\ s \o t \in Seq(S) /\ Len(s \o t) = Len(s) + Len(t)
      /\ \A i \in 1..Len(s) + Len(t) :
            (s \o t)[i] = IF i <= Len(s) THEN s[i] ELSE t[i - Len(s)]
  BY ConcatProperties
<1>2. ASSUME NEW i \in 1..m PROVE (s \o t)[i] = s[i]
  BY <1>1
<1>3. ASSUME NEW i \in 1..n PROVE (s \o t)[m + i] = t[i]
  <2>1. m + i \in 1..Len(s) + Len(t) /\ ~(m + i <= Len(s)) /\ m + i - Len(s) = i
    OBVIOUS
  <2>2. QED
    BY <1>1, <2>1
<1>4. QED
  BY <1>1, <1>2, <1>3 DEF Joins

\* A uint32_t has four bytes.
Word == {n \in Nat : n \div 2^24 < 2^8}

\* A word, cut into bytes.
LEMMA FourBytes ==
    ASSUME NEW n \in Nat, n \div 16777216 < 256, NEW a, NEW b, NEW c, NEW e,
           a = n % 256, b = (n \div 256) % 256, c = (n \div 65536) % 256,
           e = (n \div 16777216) % 256
    PROVE  n = a + b * 256 + c * 65536 + e * 16777216
BY SMT

LEMMA Shifted256 ==
    \A k \in Int : /\ k * 256^(1 - 1) = k /\ k * 256^(2 - 1) = k * 256
                   /\ k * 256^(3 - 1) = k * 65536 /\ k * 256^(4 - 1) = k * 16777216
<1>1. 256^0 = 1 /\ 256^1 = 256 /\ 256^2 = 65536 /\ 256^3 = 16777216
  BY SMT
<1>2. QED
  BY <1>1, SMT

\* Four bytes make the number they are the bytes of.
LEMMA WordIsItsBytes ==
    ASSUME NEW n \in Word, NEW s, Len(s) = 4,
           s[1] = ByteOf(n, 0), s[2] = ByteOf(n, 1),
           s[3] = ByteOf(n, 2), s[4] = ByteOf(n, 3)
    PROVE  Unsigned(s) = n
<1>1. /\ s[1] = n % 256 /\ s[2] = (n \div 256) % 256
      /\ s[3] = (n \div 65536) % 256 /\ s[4] = (n \div 16777216) % 256
      /\ n \in Nat /\ n \div 16777216 < 256
  BY SMT DEF ByteOf, Word
<1>2. n = s[1] + s[2] * 256 + s[3] * 65536 + s[4] * 16777216
  BY <1>1, FourBytes, SMT
<1>3. PICK a \in Int, b \in Int, c \in Int, e \in Int :
        /\ a = s[1] /\ b = s[2] /\ c = s[3] /\ e = s[4]
  BY <1>1, SMT
<1>4. Unsigned(s) = a * 256^(1 - 1) + b * 256^(2 - 1) + c * 256^(3 - 1) + e * 256^(4 - 1)
  BY <1>3, SMT DEF Unsigned
<1>5. PICK v, x, y, z : /\ v = a * 256^(1 - 1) /\ x = b * 256^(2 - 1)
                        /\ y = c * 256^(3 - 1) /\ z = e * 256^(4 - 1)
  OBVIOUS
<1>6. Unsigned(s) = v + x + y + z
  BY <1>4, <1>5, Zenon
<1>7. v = a /\ x = b * 256 /\ y = c * 65536 /\ z = e * 16777216
  BY <1>5, Shifted256
<1>8. QED
  BY <1>2, <1>3, <1>6, <1>7, SMT

\* A table of n elements is a sequence of n.
LEMMA TableIsSeq ==
    ASSUME NEW S, NEW n \in Nat, NEW s, s \in [1..n -> S]
    PROVE  s \in Seq(S) /\ Len(s) = n
BY SeqDef, LenProperties, SMT

\* A packet and its nine parts.
Layout(bytes, d, q, t, u, c, dlc, x) ==
    /\ Len(bytes) = 34 /\ bytes = [k \in 1..34 |-> bytes[k]]
    /\ \A i \in 1..6 : bytes[1 + i] = d[i]
    /\ \A i \in 1..4 : bytes[7 + i] = q[i]
    /\ \A i \in 1..4 : bytes[11 + i] = t[i]
    /\ \A i \in 1..4 : bytes[15 + i] = u[i]
    /\ \A i \in 1..4 : bytes[19 + i] = c[i]
    /\ bytes[24] = dlc
    /\ \A i \in 1..8 : bytes[24 + i] = x[i]

\* The nine parts of a packet, one behind the other, are where Layout has them.
LEMMA PartsInPlace ==
    ASSUME NEW S, NEW d \in Seq(S), Len(d) = 6, NEW q \in Seq(S), Len(q) = 4,
           NEW t \in Seq(S), Len(t) = 4, NEW u \in Seq(S), Len(u) = 4,
           NEW c \in Seq(S), Len(c) = 4, NEW dlc \in S, NEW x \in Seq(S), Len(x) = 8,
           NEW lo \in S, NEW hi \in S, 1 \in S
    PROVE  Layout(<<1>> \o d \o q \o t \o u \o c \o <<dlc>> \o x \o <<lo, hi>>,
                  d, q, t, u, c, dlc, x)
<1> DEFINE b7 == <<1>> \o d
           b11 == b7 \o q
           b15 == b11 \o t
           b19 == b15 \o u
           b23 == b19 \o c
           b24 == b23 \o <<dlc>>
           b32 == b24 \o x
           bytes == b32 \o <<lo, hi>>
<1> HIDE DEF b7, b11, b15, b19, b23, b24, b32, bytes
<1>0. 1 \in Nat /\ 2 \in Nat /\ 4 \in Nat /\ 6 \in Nat /\ 7 \in Nat /\ 8 \in Nat /\ 11 \in Nat
      /\ 15 \in Nat /\ 19 \in Nat /\ 23 \in Nat /\ 24 \in Nat /\ 32 \in Nat
  OBVIOUS
<1>2. /\ <<1>> \in Seq(S) /\ Len(<<1>>) = 1
      /\ <<dlc>> \in Seq(S) /\ Len(<<dlc>>) = 1 /\ <<dlc>>[1] = dlc
      /\ <<lo, hi>> \in Seq(S) /\ Len(<<lo, hi>>) = 2
  OBVIOUS
<1>5. b7 \in Seq(S) /\ Len(b7) = 7 /\ Joins(b7, <<1>>, 1, d, 6)
  <2>1. b7 \in Seq(S) /\ Joins(b7, <<1>>, 1, d, 6)
    BY <1>0, <1>2, Joined, Zenon DEF b7
  <2>2. QED
    BY <2>1 DEF Joins
<1>6. b11 \in Seq(S) /\ Len(b11) = 11 /\ Joins(b11, b7, 7, q, 4)
  <2>1. b11 \in Seq(S) /\ Joins(b11, b7, 7, q, 4)
    BY <1>0, <1>5, Joined, Zenon DEF b11
  <2>2. QED
    BY <2>1 DEF Joins
<1>7. b15 \in Seq(S) /\ Len(b15) = 15 /\ Joins(b15, b11, 11, t, 4)
  <2>1. b15 \in Seq(S) /\ Joins(b15, b11, 11, t, 4)
    BY <1>0, <1>6, Joined, Zenon DEF b15
  <2>2. QED
    BY <2>1 DEF Joins
<1>8. b19 \in Seq(S) /\ Len(b19) = 19 /\ Joins(b19, b15, 15, u, 4)
  <2>1. b19 \in Seq(S) /\ Joins(b19, b15, 15, u, 4)
    BY <1>0, <1>7, Joined, Zenon DEF b19
  <2>2. QED
    BY <2>1 DEF Joins
<1>9. b23 \in Seq(S) /\ Len(b23) = 23 /\ Joins(b23, b19, 19, c, 4)
  <2>1. b23 \in Seq(S) /\ Joins(b23, b19, 19, c, 4)
    BY <1>0, <1>8, Joined, Zenon DEF b23
  <2>2. QED
    BY <2>1 DEF Joins
<1>10. b24 \in Seq(S) /\ Len(b24) = 24 /\ Joins(b24, b23, 23, <<dlc>>, 1)
  <2>1. b24 \in Seq(S) /\ Joins(b24, b23, 23, <<dlc>>, 1)
    BY <1>0, <1>2, <1>9, Joined, Zenon DEF b24
  <2>2. QED
    BY <2>1 DEF Joins
<1>11. b32 \in Seq(S) /\ Len(b32) = 32 /\ Joins(b32, b24, 24, x, 8)
  <2>1. b32 \in Seq(S) /\ Joins(b32, b24, 24, x, 8)
    BY <1>0, <1>10, Joined, Zenon DEF b32
  <2>2. QED
    BY <2>1 DEF Joins
<1>12. /\ bytes \in Seq(S) /\ Len(bytes) = 34
       /\ \A i \in 1..32 : bytes[i] = b32[i]
  <2>1. bytes \in Seq(S) /\ Joins(bytes, b32, 32, <<lo, hi>>, 2)
    BY <1>0, <1>2, <1>11, Joined, Zenon DEF bytes
  <2>2. QED
    BY <2>1 DEF Joins
<1>13. bytes = [k \in 1..34 |-> bytes[k]]
  BY <1>12, LenProperties
<1>14. /\ \A i \in 1..24 : bytes[i] = b24[i]
       /\ \A i \in 1..23 : bytes[i] = b23[i]
       /\ \A i \in 1..19 : bytes[i] = b19[i]
       /\ \A i \in 1..15 : bytes[i] = b15[i]
       /\ \A i \in 1..11 : bytes[i] = b11[i]
       /\ \A i \in 1..7 : bytes[i] = b7[i]
  <2>1. \A i \in 1..24 : bytes[i] = b24[i]
    <3>1. \A i \in 1..24 : i \in 1..32
      OBVIOUS
    <3>2. QED
      BY <1>12, <1>11, <3>1, Zenon DEF Joins
  <2>2. \A i \in 1..23 : bytes[i] = b23[i]
    <3>1. \A i \in 1..23 : i \in 1..24
      OBVIOUS
    <3>2. QED
      BY <2>1, <1>10, <3>1, Zenon DEF Joins
  <2>3. \A i \in 1..19 : bytes[i] = b19[i]
    <3>1. \A i \in 1..19 : i \in 1..23
      OBVIOUS
    <3>2. QED
      BY <2>2, <1>9, <3>1, Zenon DEF Joins
  <2>4. \A i \in 1..15 : bytes[i] = b15[i]
    <3>1. \A i \in 1..15 : i \in 1..19
      OBVIOUS
    <3>2. QED
      BY <2>3, <1>8, <3>1, Zenon DEF Joins
  <2>5. \A i \in 1..11 : bytes[i] = b11[i]
    <3>1. \A i \in 1..11 : i \in 1..15
      OBVIOUS
    <3>2. QED
      BY <2>4, <1>7, <3>1, Zenon DEF Joins
  <2>6. \A i \in 1..7 : bytes[i] = b7[i]
    <3>1. \A i \in 1..7 : i \in 1..11
      OBVIOUS
    <3>2. QED
      BY <2>5, <1>6, <3>1, Zenon DEF Joins
  <2>7. QED
    BY <2>1, <2>2, <2>3, <2>4, <2>5, <2>6
<1>15. \A i \in 1..6 : bytes[1 + i] = d[i]
  <2>1. \A i \in 1..6 : 1 + i \in 1..7
    OBVIOUS
  <2>2. \A i \in 1..6 : bytes[1 + i] = b7[1 + i]
    BY <1>14, <2>1, Zenon
  <2>3. QED
    BY <1>5, <2>2, Zenon DEF Joins
<1>16. \A i \in 1..4 : bytes[7 + i] = q[i]
  <2>1. \A i \in 1..4 : 7 + i \in 1..11
    OBVIOUS
  <2>2. \A i \in 1..4 : bytes[7 + i] = b11[7 + i]
    BY <1>14, <2>1, Zenon
  <2>3. QED
    BY <1>6, <2>2, Zenon DEF Joins
<1>17. \A i \in 1..4 : bytes[11 + i] = t[i]
  <2>1. \A i \in 1..4 : 11 + i \in 1..15
    OBVIOUS
  <2>2. \A i \in 1..4 : bytes[11 + i] = b15[11 + i]
    BY <1>14, <2>1, Zenon
  <2>3. QED
    BY <1>7, <2>2, Zenon DEF Joins
<1>18. \A i \in 1..4 : bytes[15 + i] = u[i]
  <2>1. \A i \in 1..4 : 15 + i \in 1..19
    OBVIOUS
  <2>2. \A i \in 1..4 : bytes[15 + i] = b19[15 + i]
    BY <1>14, <2>1, Zenon
  <2>3. QED
    BY <1>8, <2>2, Zenon DEF Joins
<1>19. \A i \in 1..4 : bytes[19 + i] = c[i]
  <2>1. \A i \in 1..4 : 19 + i \in 1..23
    OBVIOUS
  <2>2. \A i \in 1..4 : bytes[19 + i] = b23[19 + i]
    BY <1>14, <2>1, Zenon
  <2>3. QED
    BY <1>9, <2>2, Zenon DEF Joins
<1>20. bytes[24] = dlc
  <2>1. b24[23 + 1] = <<dlc>>[1]
    <3>1. 1 \in 1..1
      OBVIOUS
    <3>2. QED
      BY <1>10, <3>1, Zenon DEF Joins
  <2>2. b24[24] = dlc
    BY <2>1
  <2>3. 24 \in 1..24
    OBVIOUS
  <2>4. bytes[24] = b24[24]
    BY <1>14, <2>3, Zenon
  <2>5. QED
    BY <2>2, <2>4
<1>21. \A i \in 1..8 : bytes[24 + i] = x[i]
  <2>1. \A i \in 1..8 : 24 + i \in 1..32
    OBVIOUS
  <2>2. QED
    BY <1>11, <1>12, <2>1, Zenon DEF Joins
<1>22. Layout(bytes, d, q, t, u, c, dlc, x)
  BY <1>12, <1>13, <1>15, <1>16, <1>17, <1>18, <1>19, <1>20, <1>21, Zenon DEF Layout
<1>23. QED
  BY <1>22, Zenon DEF bytes, b32, b24, b23, b19, b15, b11, b7

\* The parts, as PacketInit makes them.
BytesOf(n) == {ByteOf(n, k) : k \in 0..3}
Padded(x, dlc) == [k \in 1..8 |-> IF k <= dlc THEN x[k] ELSE 0]

\* The parts are sequences over any set that holds their bytes.
LEMMA DeviceTyped ==
    ASSUME NEW S, NEW B, B \subseteq S, NEW d \in Seq(B), Len(d) = 6
    PROVE  d \in Seq(S)
<1>0. 6 \in Nat
  OBVIOUS
<1>1. d \in [1..6 -> B]
  BY LenProperties, Zenon
<1>2. \A i \in 1..6 : d[i] \in S
  BY <1>1
<1>3. d \in [1..6 -> S]
  BY <1>1, <1>2
<1>4. QED
  BY <1>0, <1>3, TableIsSeq, Zenon

LEMMA WordTyped ==
    ASSUME NEW S, NEW n, BytesOf(n) \subseteq S
    PROVE  Bytes(n, 4) \in Seq(S) /\ Len(Bytes(n, 4)) = 4
<1>1. \A k \in 1..4 : k - 1 \in 0..3
  OBVIOUS
<1>2. \A k \in 1..4 : ByteOf(n, k - 1) \in S
  BY <1>1 DEF BytesOf
<1>3. Bytes(n, 4) \in [1..4 -> S]
  BY <1>2 DEF Bytes
<1>4. 4 \in Nat
  OBVIOUS
<1>5. QED
  BY <1>3, <1>4, TableIsSeq, Zenon

LEMMA PaddedTyped ==
    ASSUME NEW S, NEW B, B \subseteq S, 0 \in S,
           NEW x \in Seq(B), NEW dlc \in 0..8, Len(x) = dlc
    PROVE  Padded(x, dlc) \in Seq(S) /\ Len(Padded(x, dlc)) = 8
<1>1. x \in [1..dlc -> B]
  BY LenProperties, Zenon
<1>2. \A k \in 1..8 : k <= dlc => k \in 1..dlc
  OBVIOUS
<1>3. \A k \in 1..8 : (IF k <= dlc THEN x[k] ELSE 0) \in S
  BY <1>1, <1>2
<1>4. Padded(x, dlc) \in [1..8 -> S]
  BY <1>3 DEF Padded
<1>5. 8 \in Nat
  OBVIOUS
<1> HIDE DEF Padded
<1>6. QED
  BY <1>4, <1>5, TableIsSeq, Zenon

\* Where PacketInit puts what.
LEMMA PacketLayout ==
    ASSUME NEW B, 0..8 \subseteq B, NEW d \in Seq(B), Len(d) = 6,
           NEW q, NEW t1, NEW t2, NEW c,
           NEW x \in Seq(B), NEW dlc \in 0..8, Len(x) = dlc
    PROVE  Layout(PacketInit(d, q, <<t1, t2>>, c, x), d, Bytes(q, 4), Bytes(t1, 4),
                  Bytes(t2, 4), Bytes(c, 4), dlc, Padded(x, dlc))
<1> DEFINE bq == Bytes(q, 4)
           bt == Bytes(t1, 4)
           bu == Bytes(t2, 4)
           bc == Bytes(c, 4)
           bx == Padded(x, dlc)
<1>1. PICK lo, hi :
         PacketInit(d, q, <<t1, t2>>, c, x)
           = <<1>> \o d \o bq \o bt \o bu \o bc \o <<dlc>> \o bx \o <<lo, hi>>
  BY DEF PacketInit, CanFrameType, CanDataSize, Padded
<1> DEFINE S == B \cup {lo, hi}
                  \cup BytesOf(q) \cup BytesOf(t1) \cup BytesOf(t2) \cup BytesOf(c)
<1>2. /\ B \subseteq S /\ lo \in S /\ hi \in S
      /\ BytesOf(q) \subseteq S /\ BytesOf(t1) \subseteq S
      /\ BytesOf(t2) \subseteq S /\ BytesOf(c) \subseteq S
  BY Zenon
<1>3. 0 \in 0..8 /\ 1 \in 0..8
  OBVIOUS
<1> HIDE DEF S
<1>4. 0 \in S /\ 1 \in S /\ dlc \in S
  BY <1>2, <1>3, Zenon
<1>5. d \in Seq(S) /\ bx \in Seq(S) /\ Len(bx) = 8
  <2>1. d \in Seq(S)
    BY <1>2, DeviceTyped
  <2>2. bx \in Seq(S) /\ Len(bx) = 8
    BY <1>2, <1>4, PaddedTyped
  <2>3. QED
    BY <2>1, <2>2
<1>6. /\ bq \in Seq(S) /\ Len(bq) = 4 /\ bt \in Seq(S) /\ Len(bt) = 4
      /\ bu \in Seq(S) /\ Len(bu) = 4 /\ bc \in Seq(S) /\ Len(bc) = 4
  BY <1>2, WordTyped, Zenon
<1> HIDE DEF bq, bt, bu, bc, bx
<1>7. Layout(<<1>> \o d \o bq \o bt \o bu \o bc \o <<dlc>> \o bx \o <<lo, hi>>,
             d, bq, bt, bu, bc, dlc, bx)
  <2> HIDE DEF Layout
  <2>1. /\ d \in Seq(S) /\ Len(d) = 6 /\ bq \in Seq(S) /\ Len(bq) = 4
        /\ bt \in Seq(S) /\ Len(bt) = 4 /\ bu \in Seq(S) /\ Len(bu) = 4
        /\ bc \in Seq(S) /\ Len(bc) = 4 /\ dlc \in S /\ bx \in Seq(S) /\ Len(bx) = 8
        /\ lo \in S /\ hi \in S /\ 1 \in S
    BY <1>2, <1>4, <1>5, <1>6, Zenon
  <2>2. QED
    BY <2>1, PartsInPlace
<1>8. QED
  BY <1>1, <1>7, Zenon DEF bq, bt, bu, bc, bx

\* A copy of a packet as the OBU sent it.
Undamaged == {copy \in Copies : copy.damage = << >>}
FrameData(copy) == CanFrame[copy.n].data
FrameId(copy) == CanFrame[copy.n].canId

\* What a copy is made of fits its place in the packet.
LEMMA CopyTyped ==
    ASSUME EndToEndAssumption, NEW copy \in Undamaged
    PROVE  /\ copy.device \in Devices /\ copy.device \in Seq(0..255) /\ Len(copy.device) = 6
           /\ copy.n \in Seqs /\ copy.n \in Word
           /\ copy.at \in 0..MaxTime /\ copy.at \in Word
           /\ FrameId(copy) \in Word
           /\ FrameData(copy) \in Seq(0..255) /\ Len(FrameData(copy)) \in 0..8
           /\ copy.damage = << >>
<1>1. /\ copy.device \in Devices /\ copy.n \in Seqs /\ copy.at \in 0..MaxTime
      /\ copy.damage = << >>
  BY DEF Undamaged, Copies
<1>2. /\ copy.device \in Seq(0..255) /\ Len(copy.device) = 6
      /\ FrameData(copy) \in Seq(0..255) /\ Len(FrameData(copy)) <= 8
  BY <1>1 DEF EndToEndAssumption, CanDataSize, FrameData
<1>3. MaxSeq \in Word /\ MaxTime \in Word /\ FrameId(copy) \in Word
  BY <1>1 DEF EndToEndAssumption, Word, FrameId
<1>4. copy.n \in Word
  <2>1. copy.n \in 0..MaxSeq
    BY <1>1 DEF Seqs
  <2>2. QED
    BY <1>3, <2>1, SMT DEF Word
<1>5. copy.at \in Word
  BY <1>1, <1>3, SMT DEF Word
<1>6. Len(FrameData(copy)) \in 0..8
  <2>1. Len(FrameData(copy)) \in Nat
    BY <1>2, LenProperties
  <2>2. \A n \in Nat : n <= 8 => n \in 0..8
    OBVIOUS
  <2>3. QED
    BY <1>2, <2>1, <2>2, Zenon
<1>7. QED
  BY <1>1, <1>2, <1>3, <1>4, <1>5, <1>6

\* A copy as it was sent is the packet of its frame.
LEMMA WireLayout ==
    ASSUME EndToEndAssumption, NEW copy \in Undamaged
    PROVE  Layout(Wire(copy), copy.device, Bytes(copy.n, 4), Bytes(copy.at, 4),
                  Bytes(1, 4), Bytes(FrameId(copy), 4),
                  Len(FrameData(copy)), Padded(FrameData(copy), Len(FrameData(copy))))
<1> DEFINE p == PacketInit(copy.device, copy.n, <<copy.at, 1>>, FrameId(copy), FrameData(copy))
<1>1. 0..8 \subseteq 0..255
  BY SMT
<1>2. Layout(p, copy.device, Bytes(copy.n, 4), Bytes(copy.at, 4),
             Bytes(1, 4), Bytes(FrameId(copy), 4),
             Len(FrameData(copy)), Padded(FrameData(copy), Len(FrameData(copy))))
  <2>1. /\ copy.device \in Seq(0..255) /\ Len(copy.device) = 6
        /\ FrameData(copy) \in Seq(0..255) /\ Len(FrameData(copy)) \in 0..8
    BY CopyTyped
  <2> DEFINE B == 0..255
             x == FrameData(copy)
             dlc == Len(x)
             d == copy.device
  <2>2. /\ 0..8 \subseteq B /\ d \in Seq(B) /\ Len(d) = 6
        /\ x \in Seq(B) /\ dlc \in 0..8 /\ Len(x) = dlc
    BY <1>1, <2>1
  <2> HIDE DEF B, x, dlc, d
  <2>3. \A q, t1, t2, c :
           Layout(PacketInit(d, q, <<t1, t2>>, c, x), d, Bytes(q, 4), Bytes(t1, 4),
                  Bytes(t2, 4), Bytes(c, 4), dlc, Padded(x, dlc))
    BY <2>2, PacketLayout, Zenon
  <2>4. QED
    BY <2>3, Zenon DEF x, dlc, d
<1> HIDE DEF p
<1>3. Wire(copy) = Damaged(p, << >>)
  BY CopyTyped, Zenon DEF Wire, p, FrameId, FrameData, Timestamp
<1>4. Damaged(p, << >>) = p
  <2>1. Len(p) = 34 /\ p = [k \in 1..34 |-> p[k]]
    BY <1>2, Zenon DEF Layout
  <2>2. DOMAIN << >> = {}
    OBVIOUS
  <2>3. Damaged(p, << >>) = [k \in 1..34 |-> p[k]]
    BY <2>1, <2>2, Zenon DEF Damaged
  <2>4. QED
    BY <2>1, <2>3, Zenon
<1>5. QED
  BY <1>2, <1>3, <1>4, Zenon

IsPacket(w) == Len(w) = 34 /\ w = [k \in 1..34 |-> w[k]]

\* p is the n bytes of the packet behind the first a.
Reads(p, w, a, n) ==
    /\ p \in Seq({w[k] : k \in 1..34}) /\ Len(p) = n
    /\ \A i \in 1..n : p[i] = w[a + i]

\* What is read at a place of a packet.
LEMMA PartRead ==
    ASSUME NEW w, IsPacket(w),
           NEW a \in 0..33, NEW b \in a..34
    PROVE  Reads(Part(w, a, b), w, a, b - a)
<1> DEFINE S == {w[k] : k \in 1..34}
<1>0. Len(w) = 34
  BY DEF IsPacket
<1>1. w \in [1..34 -> S]
  BY Zenon DEF IsPacket
<1> HIDE DEF S
<1>2. w \in Seq(S)
  <2>1. 34 \in Nat
    OBVIOUS
  <2>2. QED
    BY <1>1, <2>1, TableIsSeq, Zenon
<1>3. a + 1 \in 1..Len(w) + 1 /\ b \in (a + 1) - 1 .. Len(w)
  BY <1>0
<1>4. /\ SubSeq(w, a + 1, b) \in Seq(S)
      /\ Len(SubSeq(w, a + 1, b)) = IF a + 1 <= b THEN b - (a + 1) + 1 ELSE 0
      /\ \A i \in 1 .. b - (a + 1) + 1 : SubSeq(w, a + 1, b)[i] = w[(a + 1) + i - 1]
  BY <1>2, <1>3, SubSeqProperties
<1>5. Len(SubSeq(w, a + 1, b)) = b - a
  BY <1>4
<1>6. \A i \in 1..(b - a) : SubSeq(w, a + 1, b)[i] = w[a + i]
  BY <1>4
<1>7. QED
  BY <1>4, <1>5, <1>6, Zenon DEF Part, S, Reads

\* What the four bytes of a word are read as.
HoldsWord(w, a, n) == \A i \in 1..4 : w[a + i] = Bytes(n, 4)[i]

LEMMA WordRead ==
    ASSUME NEW w, IsPacket(w),
           NEW a \in 0..30, NEW n \in Word, HoldsWord(w, a, n)
    PROVE  Unsigned(Part(w, a, a + 4)) = n
<1> DEFINE s == Part(w, a, a + 4)
<1>1. a \in 0..33 /\ a + 4 \in a..34 /\ (a + 4) - a = 4
  OBVIOUS
<1>2. Len(s) = 4 /\ \A i \in 1..4 : s[i] = w[a + i]
  <2>1. Reads(Part(w, a, a + 4), w, a, (a + 4) - a)
    BY <1>1, PartRead, Zenon
  <2>2. QED
    BY <1>1, <2>1, Zenon DEF Reads
<1> HIDE DEF s
<1>3. \A i \in 1..4 : s[i] = ByteOf(n, i - 1)
  <2>1. \A i \in 1..4 : Bytes(n, 4)[i] = ByteOf(n, i - 1)
    BY Zenon DEF Bytes
  <2>2. QED
    BY <1>2, <2>1, Zenon DEF HoldsWord
<1>4. /\ s[1] = ByteOf(n, 0) /\ s[2] = ByteOf(n, 1)
      /\ s[3] = ByteOf(n, 2) /\ s[4] = ByteOf(n, 3)
  BY <1>3
<1>5. QED
  BY <1>2, <1>4, WordIsItsBytes DEF s

\* Two sequences of the same elements are the same.
LEMMA SameSeq ==
    ASSUME NEW S, NEW s \in Seq(S), NEW T, NEW t \in Seq(T), NEW m \in Nat,
           Len(s) = m, Len(t) = m, \A i \in 1..m : s[i] = t[i]
    PROVE  s = t
<1>1. s \in [1..m -> S] /\ t \in [1..m -> T]
  BY LenProperties, Zenon
<1>2. s = [i \in 1..m |-> s[i]] /\ t = [i \in 1..m |-> t[i]]
  BY <1>1
<1>3. [i \in 1..m |-> s[i]] = [i \in 1..m |-> t[i]]
  BY Zenon
<1>4. QED
  BY <1>2, <1>3, Zenon

\* The first n elements of a sequence.
LEMMA Prefix ==
    ASSUME NEW S, NEW s \in Seq(S), NEW n \in 0..Len(s)
    PROVE  /\ SubSeq(s, 1, n) \in Seq(S) /\ Len(SubSeq(s, 1, n)) = n
           /\ \A i \in 1..n : SubSeq(s, 1, n)[i] = s[i]
<1>1. Len(s) \in Nat
  BY LenProperties
<1>2. 1 \in 1..Len(s) + 1 /\ n \in 1 - 1 .. Len(s)
  BY <1>1
<1>3. /\ SubSeq(s, 1, n) \in Seq(S)
      /\ Len(SubSeq(s, 1, n)) = IF 1 <= n THEN n - 1 + 1 ELSE 0
      /\ \A i \in 1 .. n - 1 + 1 : SubSeq(s, 1, n)[i] = s[1 + i - 1]
  BY <1>2, SubSeqProperties
<1>4. QED
  BY <1>1, <1>3

\* The packet is the frame as it was captured, and when.
AsCaptured(packet, copy) ==
    /\ packet.device = copy.device /\ packet.sequence = copy.n
    /\ packet.timestamp = Timestamp(copy.at)
    /\ packet.canId = FrameId(copy)
    /\ SubSeq(packet.data, 1, packet.dlc) = FrameData(copy)

\* What was put into a packet is read out of it again.
LEMMA RoundTrip ==
    ASSUME EndToEndAssumption, NEW copy \in Undamaged
    PROVE  AsCaptured(DecodePacket(Wire(copy)), copy)
<1> DEFINE w == Wire(copy)
           x == FrameData(copy)
           dlc == Len(x)
<1>1. /\ copy.device \in Seq(0..255) /\ Len(copy.device) = 6
      /\ copy.n \in Word /\ copy.at \in Word /\ FrameId(copy) \in Word
      /\ x \in Seq(0..255) /\ dlc \in 0..8
  BY CopyTyped
<1>2. Layout(w, copy.device, Bytes(copy.n, 4), Bytes(copy.at, 4), Bytes(1, 4),
             Bytes(FrameId(copy), 4), dlc, Padded(x, dlc))
  BY WireLayout, Zenon
<1> HIDE DEF w, x, dlc
<1>3. IsPacket(w)
  BY <1>2, Zenon DEF Layout, IsPacket
<1>4. /\ \A i \in 1..6 : w[1 + i] = copy.device[i]
      /\ HoldsWord(w, 7, copy.n) /\ HoldsWord(w, 11, copy.at)
      /\ HoldsWord(w, 15, 1) /\ HoldsWord(w, 19, FrameId(copy))
      /\ w[24] = dlc
      /\ \A i \in 1..8 : w[24 + i] = Padded(x, dlc)[i]
  BY <1>2, Zenon DEF Layout, HoldsWord
<1>5. Part(w, 1, 7) = copy.device
  <2>1. 1 \in 0..33 /\ 7 \in 1..34 /\ 7 - 1 = 6 /\ 6 \in Nat
    OBVIOUS
  <2>2. /\ Part(w, 1, 7) \in Seq({w[k] : k \in 1..34})
        /\ Len(Part(w, 1, 7)) = 6
        /\ \A i \in 1..6 : Part(w, 1, 7)[i] = w[1 + i]
    <3>1. Reads(Part(w, 1, 7), w, 1, 7 - 1)
      BY <1>3, <2>1, PartRead, Zenon
    <3>2. QED
      BY <2>1, <3>1, Zenon DEF Reads
  <2>3. \A i \in 1..6 : Part(w, 1, 7)[i] = copy.device[i]
    BY <1>4, <2>2, Zenon
  <2> DEFINE T == 0..255
             p == Part(w, 1, 7)
             device == copy.device
  <2>4. device \in Seq(T) /\ Len(device) = 6 /\ \A i \in 1..6 : p[i] = device[i]
    BY <1>1, <2>3
  <2> DEFINE S == {w[k] : k \in 1..34}
  <2>5. p \in Seq(S) /\ Len(p) = 6 /\ 6 \in Nat
    BY <2>1, <2>2
  <2> HIDE DEF T, S, p, device
  <2>6. p = device
    BY <2>4, <2>5, SameSeq, Zenon
  <2>7. QED
    BY <2>6 DEF p, device
<1>6. Unsigned(Part(w, 7, 11)) = copy.n
  <2>0. 7 + 4 = 11
    OBVIOUS
  <2>1. 7 \in 0..30
    OBVIOUS
  <2>2. copy.n \in Word /\ HoldsWord(w, 7, copy.n)
    BY <1>1, <1>4
  <2>3. Unsigned(Part(w, 7, 7 + 4)) = copy.n
    BY <1>3, <2>1, <2>2, WordRead, Zenon
  <2>4. QED
    BY <2>0, <2>3, Zenon
<1>7. Unsigned(Part(w, 11, 15)) = copy.at
  <2>0. 11 + 4 = 15
    OBVIOUS
  <2>1. 11 \in 0..30
    OBVIOUS
  <2>2. copy.at \in Word /\ HoldsWord(w, 11, copy.at)
    BY <1>1, <1>4
  <2>3. Unsigned(Part(w, 11, 11 + 4)) = copy.at
    BY <1>3, <2>1, <2>2, WordRead, Zenon
  <2>4. QED
    BY <2>0, <2>3, Zenon
<1>8. Unsigned(Part(w, 15, 19)) = 1
  <2>0. 15 + 4 = 19
    OBVIOUS
  <2>1. 15 \in 0..30
    OBVIOUS
  <2>2. 1 \in Word
    BY SMT DEF Word
  <2>3. HoldsWord(w, 15, 1)
    BY <1>4
  <2>4. Unsigned(Part(w, 15, 15 + 4)) = 1
    BY <1>3, <2>1, <2>2, <2>3, WordRead, Zenon
  <2>5. QED
    BY <2>0, <2>4, Zenon
<1>9. Unsigned(Part(w, 19, 23)) = FrameId(copy)
  <2>0. 19 + 4 = 23
    OBVIOUS
  <2>1. 19 \in 0..30
    OBVIOUS
  <2>2. FrameId(copy) \in Word /\ HoldsWord(w, 19, FrameId(copy))
    BY <1>1, <1>4
  <2>3. Unsigned(Part(w, 19, 19 + 4)) = FrameId(copy)
    BY <1>3, <2>1, <2>2, WordRead, Zenon
  <2>4. QED
    BY <2>0, <2>3, Zenon
<1>10. SubSeq(Part(w, 24, 32), 1, dlc) = x
  <2> DEFINE S == {w[k] : k \in 1..34}
             data == Part(w, 24, 32)
  <2>1. 24 \in 0..33 /\ 32 \in 24..34 /\ 32 - 24 = 8
    OBVIOUS
  <2>2. data \in Seq(S) /\ Len(data) = 8 /\ \A i \in 1..8 : data[i] = w[24 + i]
    <3>1. Reads(data, w, 24, 32 - 24)
      BY <1>3, <2>1, PartRead, Zenon
    <3>2. QED
      BY <2>1, <3>1, Zenon DEF Reads
  <2> HIDE DEF S, data
  <2>3. /\ SubSeq(data, 1, dlc) \in Seq(S) /\ Len(SubSeq(data, 1, dlc)) = dlc
        /\ \A i \in 1..dlc : SubSeq(data, 1, dlc)[i] = data[i]
    <3>1. dlc \in 0..Len(data)
      BY <1>1, <2>2
    <3>2. QED
      BY <2>2, <3>1, Prefix, Zenon
  <2>4. \A i \in 1..dlc : data[i] = x[i]
    <3>1. \A i \in 1..dlc : i \in 1..8 /\ i <= dlc
      BY <1>1
    <3>2. \A i \in 1..8 : i <= dlc => Padded(x, dlc)[i] = x[i]
      BY Zenon DEF Padded
    <3>3. QED
      BY <1>4, <2>2, <3>1, <3>2, Zenon
  <2>5. \A i \in 1..dlc : SubSeq(data, 1, dlc)[i] = x[i]
    BY <2>3, <2>4, Zenon
  <2>6. dlc \in Nat /\ Len(x) = dlc
    BY <1>1 DEF dlc
  <2>7. SubSeq(data, 1, dlc) = x
    BY <1>1, <2>3, <2>5, <2>6, SameSeq, Zenon
  <2>8. QED
    BY <2>7 DEF data
<1>11. LET packet == DecodePacket(w)
       IN  /\ packet.device = Part(w, 1, 7) /\ packet.sequence = Unsigned(Part(w, 7, 11))
           /\ packet.timestamp = <<Unsigned(Part(w, 11, 15)), Unsigned(Part(w, 15, 19))>>
           /\ packet.canId = Unsigned(Part(w, 19, 23))
           /\ packet.dlc = w[24] /\ packet.data = Part(w, 24, 32)
  BY DEF DecodePacket
<1>12. AsCaptured(DecodePacket(w), copy)
  BY <1>4, <1>5, <1>6, <1>7, <1>8, <1>9, <1>10, <1>11, Zenon DEF AsCaptured, Timestamp, x
<1>13. QED
  BY <1>12, Zenon DEF w

\* A packet that comes through as it was sent decodes.
LEMMA UndamagedDecodes ==
    ASSUME EndToEndAssumption, CrcTells, NEW copy \in Undamaged
    PROVE  PacketDecodes(Wire(copy))
<1>1. Len(Wire(copy)) = 34
  BY WireLayout, Zenon DEF Layout
<1>2. PacketValidate(Wire(copy))
  BY Zenon DEF Undamaged, CrcTells
<1>3. QED
  BY <1>1, <1>2, Zenon DEF PacketDecodes, PacketSize

\* The RSU relays what was not damaged.
LEMMA ValidatedIsUndamaged ==
    ASSUME EndToEndAssumption, CrcTells
    PROVE  Validated = Undamaged
<1>1. \A copy : copy \in Validated <=> copy \in Copies /\ PacketValidate(Wire(copy))
  <2>1. ASSUME NEW copy \in Validated PROVE copy \in Copies /\ PacketValidate(Wire(copy))
    <3>1. PICK r \in Received : PacketValidate(r.raw) /\ copy = r.copy
      BY <2>1, Zenon DEF Validated
    <3>2. PICK c \in Copies : r = [copy |-> c, raw |-> Wire(c)]
      BY Zenon DEF Received
    <3>3. QED
      BY <3>1, <3>2
  <2>2. ASSUME NEW copy \in Copies, PacketValidate(Wire(copy)) PROVE copy \in Validated
    <3> DEFINE r == [copy |-> copy, raw |-> Wire(copy)]
    <3>1. r \in Received
      BY Zenon DEF Received
    <3>2. r.copy = copy /\ r.raw = Wire(copy)
      BY Zenon
    <3> HIDE DEF r
    <3>3. QED
      BY <2>2, <3>1, <3>2, Zenon DEF Validated
  <2>3. QED
    BY <2>1, <2>2, Zenon
<1>2. \A copy : copy \in Undamaged <=> copy \in Copies /\ copy.damage = << >>
  BY Zenon DEF Undamaged
<1>3. QED
  BY <1>1, <1>2, Zenon DEF CrcTells

KeyOf(copy) == <<copy.device, copy.n>>
Made(copy) == DecodePacket(Wire(copy))

\* What handleMessage makes of a packet that comes through as it was sent.
LEMMA Handled ==
    ASSUME EndToEndAssumption, CrcTells, NEW copy \in Undamaged, HandlePacket(copy)
    PROVE  /\ arrived' = arrived \cup {KeyOf(copy)}
           /\ \/ IsDuplicate(copy.device, copy.n) /\ UNCHANGED <<vars, stored>>
              \/ Accept(copy.device, copy.n) /\ stored' = Append(stored, Made(copy))
<1> DEFINE made == Made(copy)
<1>1. AsCaptured(made, copy)
  BY RoundTrip, Zenon DEF Made
<1>2. made.device = copy.device /\ made.sequence = copy.n
  BY <1>1, Zenon DEF AsCaptured
<1> HIDE DEF made
<1>3. \A r \in Decoded : r.copy = copy => r.pkt = made
  <2>1. ASSUME NEW r \in Decoded, r.copy = copy PROVE r.pkt = made
    <3>1. PICK q \in Received : r = [copy |-> q.copy, pkt |-> DecodePacket(q.raw)]
      BY Zenon DEF Decoded
    <3>2. PICK c \in Copies : q = [copy |-> c, raw |-> Wire(c)]
      BY Zenon DEF Received
    <3>3. q.copy = c /\ q.raw = Wire(c)
      BY <3>2
    <3>4. r.copy = c /\ r.pkt = DecodePacket(Wire(c))
      BY <3>1, <3>3
    <3>5. QED
      BY <2>1, <3>4 DEF made, Made
  <2>2. QED
    BY <2>1, Zenon
<1>4. \E r \in Decoded : r.copy = copy
  <2> DEFINE q == [copy |-> copy, raw |-> Wire(copy)]
  <2>1. q \in Received
    BY Zenon DEF Received, Undamaged
  <2>2. q.copy = copy /\ q.raw = Wire(copy)
    OBVIOUS
  <2>3. PacketDecodes(Wire(copy))
    BY UndamagedDecodes, Zenon
  <2> HIDE DEF q
  <2>4. PacketDecodes(q.raw)
    BY <2>2, <2>3, Zenon
  <2>5. [copy |-> q.copy, pkt |-> DecodePacket(q.raw)] \in Decoded
    BY <2>1, <2>4, Zenon DEF Decoded
  <2>6. [copy |-> q.copy, pkt |-> DecodePacket(q.raw)].copy = copy
    BY <2>2
  <2>7. QED
    BY <2>5, <2>6, Zenon
<1>5. PICK r \in Decoded :
        /\ r.copy = copy
        /\ arrived' = arrived \cup {<<r.pkt.device, r.pkt.sequence>>}
        /\ IF IsDuplicate(r.pkt.device, r.pkt.sequence)
           THEN UNCHANGED <<vars, stored>>
           ELSE /\ Accept(r.pkt.device, r.pkt.sequence)
                /\ stored' = Append(stored, r.pkt)
  BY <1>4, Zenon DEF HandlePacket
<1>6. r.pkt = made /\ r.pkt.device = copy.device /\ r.pkt.sequence = copy.n
  BY <1>2, <1>3, <1>5
<1>7. arrived' = arrived \cup {KeyOf(copy)}
  BY <1>5, <1>6 DEF KeyOf
<1>8. CASE IsDuplicate(r.pkt.device, r.pkt.sequence)
  <2>1. IsDuplicate(copy.device, copy.n)
    BY <1>6, <1>8
  <2>2. UNCHANGED <<vars, stored>>
    BY <1>5, <1>8
  <2>3. QED
    BY <1>7, <2>1, <2>2
<1>9. CASE ~IsDuplicate(r.pkt.device, r.pkt.sequence)
  <2>1. Accept(copy.device, copy.n)
    BY <1>5, <1>6, <1>9
  <2>2. stored' = Append(stored, Made(copy))
    BY <1>5, <1>6, <1>9 DEF made
  <2>3. QED
    BY <1>7, <2>1, <2>2
<1>10. QED
  BY <1>8, <1>9

Sorted(p) == \A i, j \in 1..Len(p) : i <= j => p[i].at <= p[j].at
On(p) == {p[i] : i \in 1..Len(p)}
NotAfter(p, copy) == \A y \in On(p) : y.at <= copy.at

\* The head of a sorted path is the oldest packet on it.
LEMMA PathTail ==
    ASSUME NEW S, NEW p \in Seq(S), p # << >>, Sorted(p)
    PROVE  /\ Tail(p) \in Seq(S) /\ Sorted(Tail(p)) /\ On(Tail(p)) \subseteq On(p)
           /\ Head(p) \in On(p) /\ Head(p) \in S
           /\ \A x \in On(p) : Head(p).at <= x.at
<1>1. /\ Len(p) \in Nat /\ Len(p) >= 1 /\ Head(p) = p[1] /\ Tail(p) \in Seq(S)
      /\ Len(Tail(p)) = Len(p) - 1
      /\ \A i \in 1..Len(Tail(p)) : Tail(p)[i] = p[i + 1]
      /\ \A i \in 1..Len(p) : p[i] \in S
  BY HeadTailProperties, LenProperties, ElementOfSeq, EmptySeq
<1>2. Sorted(Tail(p))
  BY <1>1 DEF Sorted
<1>3. On(Tail(p)) \subseteq On(p)
  BY <1>1 DEF On
<1>4. Head(p) \in On(p) /\ Head(p) \in S
  BY <1>1 DEF On
<1>5. \A x \in On(p) : Head(p).at <= x.at
  BY <1>1 DEF On, Sorted
<1>6. QED
  BY <1>1, <1>2, <1>3, <1>4, <1>5

\* A path stays sorted when a packet joins it that is not older than any on it.
LEMMA PathAppend ==
    ASSUME NEW S, NEW p \in Seq(S), NEW x \in S, Sorted(p), x.at \in Int, NotAfter(p, x)
    PROVE  /\ Append(p, x) \in Seq(S) /\ Sorted(Append(p, x))
           /\ On(Append(p, x)) = On(p) \cup {x}
<1> DEFINE q == Append(p, x)
<1>1. /\ Len(p) \in Nat /\ q \in Seq(S) /\ Len(q) = Len(p) + 1
      /\ \A i \in 1..Len(p) : q[i] = p[i]
      /\ q[Len(p) + 1] = x
  BY AppendProperties, LenProperties
<1> HIDE DEF q
<1>2. On(q) = On(p) \cup {x}
  <2>1. ASSUME NEW y \in On(q) PROVE y \in On(p) \cup {x}
    <3>1. PICK i \in 1..Len(q) : y = q[i]
      BY <2>1 DEF On
    <3>2. i \in 1..Len(p) \/ i = Len(p) + 1
      BY <1>1
    <3>3. QED
      BY <1>1, <3>1, <3>2 DEF On
  <2>2. ASSUME NEW y \in On(p) PROVE y \in On(q)
    BY <1>1 DEF On
  <2>3. x \in On(q)
    BY <1>1 DEF On
  <2>4. QED
    BY <2>1, <2>2, <2>3
<1>3. Sorted(q)
  <2> SUFFICES ASSUME NEW i \in 1..Len(q), NEW j \in 1..Len(q), i <= j
               PROVE  q[i].at <= q[j].at
    BY DEF Sorted
  <2>1. CASE j \in 1..Len(p)
    BY <1>1, <2>1 DEF Sorted
  <2>2. CASE j = Len(p) + 1 /\ i \in 1..Len(p)
    <3>1. p[i] \in On(p)
      BY <2>2 DEF On
    <3>2. QED
      BY <1>1, <2>2, <3>1 DEF NotAfter
  <2>3. CASE j = Len(p) + 1 /\ i = Len(p) + 1
    BY <1>1, <2>3
  <2>4. QED
    BY <1>1, <2>1, <2>2, <2>3
<1>4. QED
  BY <1>1, <1>2, <1>3 DEF q

\* On their way for device d: on the paths by WiFi (w), by XBee (x) and from the RSU (r),
\* when the next number is s and the clock shows t.  A path is sorted by the time of
\* capture, so that the packet that is due first is the one at its head.
OnTime(d, w, x, r, s, t) ==
    /\ s \in Nat /\ t \in 0..MaxTime
    /\ w \in Seq(Undamaged) /\ x \in Seq(Undamaged) /\ r \in Seq(Undamaged)
    /\ Sorted(w) /\ Sorted(x) /\ Sorted(r)
    /\ \A a \in On(r), b \in On(x) : a.at <= b.at
    /\ \A a \in On(w) \cup On(x) \cup On(r) :
          a.device = d /\ a.n < s /\ a.at <= t /\ t <= a.at + MaxDelay

\* A packet leaves a path: it came in, or it is lost.
LEMMA TakenFromWifi ==
    ASSUME NEW d, NEW w, NEW x, NEW r, NEW s, NEW t, OnTime(d, w, x, r, s, t), w # << >>
    PROVE  OnTime(d, Tail(w), x, r, s, t)
<1>1. Tail(w) \in Seq(Undamaged) /\ Sorted(Tail(w)) /\ On(Tail(w)) \subseteq On(w)
  BY PathTail, Zenon DEF OnTime
<1>2. QED
  BY <1>1 DEF OnTime

LEMMA TakenFromXbee ==
    ASSUME NEW d, NEW w, NEW x, NEW r, NEW s, NEW t, OnTime(d, w, x, r, s, t), x # << >>
    PROVE  OnTime(d, w, Tail(x), r, s, t)
<1>1. Tail(x) \in Seq(Undamaged) /\ Sorted(Tail(x)) /\ On(Tail(x)) \subseteq On(x)
  BY PathTail, Zenon DEF OnTime
<1>2. QED
  BY <1>1 DEF OnTime

LEMMA TakenFromRelay ==
    ASSUME NEW d, NEW w, NEW x, NEW r, NEW s, NEW t, OnTime(d, w, x, r, s, t), r # << >>
    PROVE  OnTime(d, w, x, Tail(r), s, t)
<1>1. Tail(r) \in Seq(Undamaged) /\ Sorted(Tail(r)) /\ On(Tail(r)) \subseteq On(r)
  BY PathTail, Zenon DEF OnTime
<1>2. QED
  BY <1>1 DEF OnTime

\* The RSU relays a packet.
LEMMA Relayed ==
    ASSUME NEW d, NEW w, NEW x, NEW r, NEW s, NEW t, OnTime(d, w, x, r, s, t), x # << >>,
           MaxTime \in Nat
    PROVE  OnTime(d, w, Tail(x), Append(r, Head(x)), s, t)
<1>1. /\ Tail(x) \in Seq(Undamaged) /\ Sorted(Tail(x)) /\ On(Tail(x)) \subseteq On(x)
      /\ Head(x) \in On(x) /\ Head(x) \in Undamaged
      /\ \A b \in On(x) : Head(x).at <= b.at
  BY PathTail, Zenon DEF OnTime
<1>2. Head(x).at \in Int
  BY <1>1 DEF Undamaged, Copies
<1>3. NotAfter(r, Head(x))
  BY <1>1 DEF OnTime, NotAfter
<1>4. /\ Append(r, Head(x)) \in Seq(Undamaged) /\ Sorted(Append(r, Head(x)))
      /\ On(Append(r, Head(x))) = On(r) \cup {Head(x)}
  <2>1. r \in Seq(Undamaged) /\ Sorted(r)
    BY DEF OnTime
  <2>2. QED
    BY <1>1, <1>2, <1>3, <2>1, PathAppend
<1> DEFINE h == Head(x)
           x2 == Tail(x)
           r2 == Append(r, h)
<1> HIDE DEF h, x2, r2
<1>5. /\ x2 \in Seq(Undamaged) /\ Sorted(x2) /\ On(x2) \subseteq On(x)
      /\ r2 \in Seq(Undamaged) /\ Sorted(r2) /\ On(r2) = On(r) \cup {h} /\ h \in On(x)
      /\ \A b \in On(x) : h.at <= b.at
  BY <1>1, <1>4 DEF h, x2, r2
<1>6. OnTime(d, w, x2, r2, s, t)
  BY <1>5 DEF OnTime
<1>7. QED
  BY <1>6 DEF h, x2, r2

\* The OBU sends a packet over both paths.
LEMMA Captured ==
    ASSUME NEW d, NEW w, NEW x, NEW r, NEW s, NEW t, OnTime(d, w, x, r, s, t),
           NEW copy \in Undamaged, copy.device = d, copy.n = s, copy.at = t,
           MaxTime \in Nat, MaxDelay \in Nat
    PROVE  OnTime(d, Append(w, copy), Append(x, copy), r, s + 1, t)
<1>1. copy.at \in Int /\ s \in Nat /\ t \in 0..MaxTime
  BY DEF OnTime
<1>2. NotAfter(w, copy) /\ NotAfter(x, copy)
  BY DEF OnTime, NotAfter
<1>3. /\ Append(w, copy) \in Seq(Undamaged) /\ Sorted(Append(w, copy))
      /\ On(Append(w, copy)) = On(w) \cup {copy}
  <2>1. w \in Seq(Undamaged) /\ Sorted(w)
    BY DEF OnTime
  <2>2. QED
    BY <1>1, <1>2, <2>1, PathAppend
<1>4. /\ Append(x, copy) \in Seq(Undamaged) /\ Sorted(Append(x, copy))
      /\ On(Append(x, copy)) = On(x) \cup {copy}
  <2>1. x \in Seq(Undamaged) /\ Sorted(x)
    BY DEF OnTime
  <2>2. QED
    BY <1>1, <1>2, <2>1, PathAppend
<1>5. \A a \in On(r), b \in On(x) \cup {copy} : a.at <= b.at
  BY DEF OnTime
<1>6. \A a \in On(w) \cup On(x) \cup On(r) :
         a \in Undamaged /\ a.device = d /\ a.n < s + 1 /\ a.at <= t /\ t <= a.at + MaxDelay
  <2>1. \A a \in On(w) \cup On(x) \cup On(r) : a \in Undamaged
    BY ElementOfSeq DEF OnTime, On
  <2>2. \A a \in Undamaged : a.n \in Int
    BY DEF Undamaged, Copies, Seqs
  <2>3. QED
    BY <1>1, <2>1, <2>2 DEF OnTime
<1>7. QED
  BY <1>1, <1>3, <1>4, <1>5, <1>6 DEF OnTime

\* The clock goes on when no head is overdue.
InTime(p, t) == p # << >> => t - Head(p).at < MaxDelay

LEMMA Later ==
    ASSUME NEW d, NEW w, NEW x, NEW r, NEW s, NEW t, OnTime(d, w, x, r, s, t), t < MaxTime,
           MaxTime \in Nat, MaxDelay \in Nat, InTime(w, t), InTime(x, t), InTime(r, t)
    PROVE  OnTime(d, w, x, r, s, t + 1)
<1>1. ASSUME NEW p \in Seq(Undamaged), Sorted(p), InTime(p, t), NEW a \in On(p)
      PROVE  t + 1 <= a.at + MaxDelay /\ a.at \in Int
  <2>1. p # << >>
    BY EmptySeq DEF On
  <2>2. Head(p) \in Undamaged /\ Head(p).at <= a.at
    BY <1>1, <2>1, PathTail, Zenon
  <2>3. a \in Undamaged
    BY <1>1, ElementOfSeq DEF On
  <2>4. t - Head(p).at < MaxDelay
    BY <1>1, <2>1, Zenon DEF InTime
  <2>5. a.at \in Int /\ Head(p).at \in Int
    BY <2>2, <2>3 DEF Undamaged, Copies
  <2>6. t \in Int
    BY DEF OnTime
  <2>7. QED
    BY <2>2, <2>4, <2>5, <2>6
<1>2. \A a \in On(w) \cup On(x) \cup On(r) : t + 1 <= a.at + MaxDelay /\ a.at \in Int
  <2>1. \A a \in On(w) : t + 1 <= a.at + MaxDelay /\ a.at \in Int
    BY <1>1, Zenon DEF OnTime
  <2>2. \A a \in On(x) : t + 1 <= a.at + MaxDelay /\ a.at \in Int
    BY <1>1, Zenon DEF OnTime
  <2>3. \A a \in On(r) : t + 1 <= a.at + MaxDelay /\ a.at \in Int
    BY <1>1, Zenon DEF OnTime
  <2>4. QED
    BY <2>1, <2>2, <2>3, Zenon
<1>3. t \in Int /\ t + 1 \in 0..MaxTime
  BY DEF OnTime
<1>4. QED
  BY <1>2, <1>3 DEF OnTime

DeviceOnTime(d) == OnTime(d, wifi[d], xbee[d], relay[d], sequence[d], now)

PathsTyped ==
    /\ sequence \in [Devices -> Nat]
    /\ wifi \in [Devices -> Seq(Undamaged)]
    /\ xbee \in [Devices -> Seq(Undamaged)]
    /\ relay \in [Devices -> Seq(Undamaged)]

PathsOK ==
    /\ now \in 0..MaxTime
    /\ PathsTyped
    /\ \A d \in Devices : DeviceOnTime(d)

\* What EndToEndAssumption says of the numbers.
LEMMA Bounds ==
    ASSUME EndToEndAssumption
    PROVE  MaxTime \in Nat /\ MaxDelay \in Nat /\ MaxDelay <= Window /\ Window \in Nat
BY DedupAssumption DEF EndToEndAssumption

\* No packet is on its way at first.
LEMMA PathsStart == EndToEndAssumption /\ EInit => PathsOK
<1> SUFFICES ASSUME EndToEndAssumption, EInit PROVE PathsOK
  OBVIOUS
<1>1. /\ now = 0 /\ sequence = [d \in Devices |-> 0] /\ wifi = [d \in Devices |-> << >>]
      /\ xbee = [d \in Devices |-> << >>] /\ relay = [d \in Devices |-> << >>]
  BY DEF EInit, Init
<1>2. << >> \in Seq(Undamaged) /\ Len(<< >>) = 0
  BY EmptySeq
<1>3. On(<< >>) = {} /\ Sorted(<< >>)
  BY <1>2 DEF On, Sorted
<1>4. ASSUME NEW d \in Devices PROVE DeviceOnTime(d)
  BY <1>1, <1>2, <1>3, Bounds DEF DeviceOnTime, OnTime
<1>5. QED
  BY <1>1, <1>2, <1>4, Bounds DEF PathsOK, PathsTyped

OthersAlone(d) ==
    \A e \in Devices \ {d} : /\ wifi'[e] = wifi[e] /\ xbee'[e] = xbee[e]
                            /\ relay'[e] = relay[e] /\ sequence'[e] = sequence[e]

\* What happens to one device's packets leaves those of the others alone.
LEMMA OneDevice ==
    ASSUME PathsOK, now' = now, NEW d \in Devices, PathsTyped', OthersAlone(d),
           OnTime(d, wifi'[d], xbee'[d], relay'[d], sequence'[d], now)
    PROVE  PathsOK'
<1>1. ASSUME NEW e \in Devices PROVE OnTime(e, wifi'[e], xbee'[e], relay'[e], sequence'[e], now')
  <2>1. CASE e = d
    BY <2>1
  <2>2. CASE e # d
    <3>1. /\ wifi'[e] = wifi[e] /\ xbee'[e] = xbee[e] /\ relay'[e] = relay[e]
          /\ sequence'[e] = sequence[e]
      BY <2>2 DEF OthersAlone
    <3>2. OnTime(e, wifi[e], xbee[e], relay[e], sequence[e], now)
      BY DEF PathsOK, PathsTyped, DeviceOnTime
    <3>3. QED
      BY <3>1, <3>2
  <2>3. QED
    BY <2>1, <2>2
<1>2. QED
  BY <1>1 DEF PathsOK, PathsTyped, DeviceOnTime

\* Every step keeps the packets on their way on time.
LEMMA PathsKept ==
    ASSUME EndToEndAssumption, CrcTells, PathsOK, [ENext]_evars
    PROVE  PathsOK'
<1>1. ASSUME NEW d \in Devices, CanRx(d) PROVE PathsOK'
  <2> DEFINE copy == [device |-> d, n |-> sequence[d], at |-> now, damage |-> << >>]
  <2>1. copy \in Undamaged
    <3>1. sequence[d] \in 0..MaxSeq /\ now \in 0..MaxTime /\ << >> \in Damages
      BY <1>1 DEF CanRx, PathsOK, PathsTyped, EndToEndAssumption
    <3>2. QED
      BY <3>1 DEF Undamaged, Copies, Seqs
  <2>2. copy.device = d /\ copy.n = sequence[d] /\ copy.at = now
    OBVIOUS
  <2>3. /\ wifi' = [wifi EXCEPT ![d] = Append(wifi[d], copy)]
        /\ xbee' = [xbee EXCEPT ![d] = Append(xbee[d], copy)]
        /\ sequence' = [sequence EXCEPT ![d] = sequence[d] + 1]
        /\ relay' = relay /\ now' = now
    BY <1>1 DEF CanRx, vars
  <2> HIDE DEF copy
  <2>4. OnTime(d, Append(wifi[d], copy), Append(xbee[d], copy), relay[d], sequence[d] + 1, now)
    <3>1. OnTime(d, wifi[d], xbee[d], relay[d], sequence[d], now)
      BY DEF PathsOK, PathsTyped, DeviceOnTime
    <3>2. QED
      BY <2>1, <2>2, <3>1, Captured, Bounds
  <2>5. /\ Append(wifi[d], copy) \in Seq(Undamaged) /\ Append(xbee[d], copy) \in Seq(Undamaged)
        /\ relay[d] \in Seq(Undamaged) /\ sequence[d] + 1 \in Nat
    BY <2>4 DEF OnTime
  <2>6. PathsTyped' /\ OthersAlone(d)
    BY <2>3, <2>5 DEF PathsOK, PathsTyped, OthersAlone
  <2>7. OnTime(d, wifi'[d], xbee'[d], relay'[d], sequence'[d], now)
    BY <2>3, <2>4 DEF PathsOK, PathsTyped
  <2>8. QED
    BY <2>3, <2>6, <2>7, OneDevice
<1>2. ASSUME NEW d \in Devices
      PROVE  OnTime(d, wifi[d], xbee[d], relay[d], sequence[d], now)
  BY DEF PathsOK, PathsTyped, DeviceOnTime
<1>3. ASSUME NEW d \in Devices, wifi[d] # << >>, wifi' = [wifi EXCEPT ![d] = Tail(wifi[d])],
             UNCHANGED <<xbee, relay, sequence, now>>
      PROVE  PathsOK'
  <2>1. OnTime(d, Tail(wifi[d]), xbee[d], relay[d], sequence[d], now)
    BY <1>2, <1>3, TakenFromWifi
  <2>2. Tail(wifi[d]) \in Seq(Undamaged)
    BY <2>1 DEF OnTime
  <2>3. PathsTyped' /\ OthersAlone(d)
    BY <1>3, <2>2 DEF PathsOK, PathsTyped, OthersAlone
  <2>4. OnTime(d, wifi'[d], xbee'[d], relay'[d], sequence'[d], now)
    BY <1>3, <2>1 DEF PathsOK, PathsTyped
  <2>5. QED
    BY <1>3, <2>3, <2>4, OneDevice
<1>4. ASSUME NEW d \in Devices, xbee[d] # << >>, xbee' = [xbee EXCEPT ![d] = Tail(xbee[d])],
             UNCHANGED <<wifi, relay, sequence, now>>
      PROVE  PathsOK'
  <2>1. OnTime(d, wifi[d], Tail(xbee[d]), relay[d], sequence[d], now)
    BY <1>2, <1>4, TakenFromXbee
  <2>2. Tail(xbee[d]) \in Seq(Undamaged)
    BY <2>1 DEF OnTime
  <2>3. PathsTyped' /\ OthersAlone(d)
    BY <1>4, <2>2 DEF PathsOK, PathsTyped, OthersAlone
  <2>4. OnTime(d, wifi'[d], xbee'[d], relay'[d], sequence'[d], now)
    BY <1>4, <2>1 DEF PathsOK, PathsTyped
  <2>5. QED
    BY <1>4, <2>3, <2>4, OneDevice
<1>5. ASSUME NEW d \in Devices, relay[d] # << >>, relay' = [relay EXCEPT ![d] = Tail(relay[d])],
             UNCHANGED <<wifi, xbee, sequence, now>>
      PROVE  PathsOK'
  <2>1. OnTime(d, wifi[d], xbee[d], Tail(relay[d]), sequence[d], now)
    BY <1>2, <1>5, TakenFromRelay
  <2>2. Tail(relay[d]) \in Seq(Undamaged)
    BY <2>1 DEF OnTime
  <2>3. PathsTyped' /\ OthersAlone(d)
    BY <1>5, <2>2 DEF PathsOK, PathsTyped, OthersAlone
  <2>4. OnTime(d, wifi'[d], xbee'[d], relay'[d], sequence'[d], now)
    BY <1>5, <2>1 DEF PathsOK, PathsTyped
  <2>5. QED
    BY <1>5, <2>3, <2>4, OneDevice
<1>6. ASSUME NEW d \in Devices, Lose(d) PROVE PathsOK'
  <2>1. UNCHANGED <<sequence, now>>
    BY <1>6 DEF Lose, vars
  <2>2. \/ wifi[d] # << >> /\ wifi' = [wifi EXCEPT ![d] = Tail(wifi[d])] /\ UNCHANGED <<xbee, relay>>
        \/ xbee[d] # << >> /\ xbee' = [xbee EXCEPT ![d] = Tail(xbee[d])] /\ UNCHANGED <<wifi, relay>>
        \/ relay[d] # << >> /\ relay' = [relay EXCEPT ![d] = Tail(relay[d])] /\ UNCHANGED <<wifi, xbee>>
    BY <1>6 DEF Lose
  <2>3. QED
    BY <1>3, <1>4, <1>5, <2>1, <2>2
<1>7. ASSUME NEW d \in Devices, NEW damage \in Damages, UartRx(d, damage) PROVE PathsOK'
  <2> DEFINE copy == [Head(xbee[d]) EXCEPT !.damage = damage]
  <2>1. /\ xbee[d] # << >> /\ xbee' = [xbee EXCEPT ![d] = Tail(xbee[d])]
        /\ UNCHANGED <<wifi, sequence, now>>
        /\ \/ copy \in Validated /\ relay' = [relay EXCEPT ![d] = Append(relay[d], copy)]
           \/ relay' = relay
    BY <1>7 DEF UartRx, vars
  <2>2. CASE relay' = relay
    BY <1>4, <2>1, <2>2
  <2>3. CASE copy \in Validated /\ relay' = [relay EXCEPT ![d] = Append(relay[d], copy)]
    <3>1. copy = Head(xbee[d])
      <4>1. Head(xbee[d]) \in Undamaged
        BY <1>2, <2>1, PathTail DEF OnTime
      <4>2. copy \in Undamaged
        BY <2>3, ValidatedIsUndamaged
      <4>3. QED
        BY <4>1, <4>2 DEF Undamaged, Copies
    <3> HIDE DEF copy
    <3>2. relay' = [relay EXCEPT ![d] = Append(relay[d], Head(xbee[d]))]
      BY <2>3, <3>1
    <3>3. OnTime(d, wifi[d], Tail(xbee[d]), Append(relay[d], Head(xbee[d])), sequence[d], now)
      BY <1>2, <2>1, Relayed, Bounds
    <3>4. Tail(xbee[d]) \in Seq(Undamaged) /\ Append(relay[d], Head(xbee[d])) \in Seq(Undamaged)
      BY <3>3 DEF OnTime
    <3>5. PathsTyped' /\ OthersAlone(d)
      BY <2>1, <3>2, <3>4 DEF PathsOK, PathsTyped, OthersAlone
    <3>6. OnTime(d, wifi'[d], xbee'[d], relay'[d], sequence'[d], now)
      BY <2>1, <3>2, <3>3 DEF PathsOK, PathsTyped
    <3>7. QED
      BY <2>1, <3>5, <3>6, OneDevice
  <2>4. QED
    BY <2>1, <2>2, <2>3
<1>8. ASSUME NEW d \in Devices, FromObu(d) PROVE PathsOK'
  <2>1. now' = now
    BY <1>8 DEF FromObu, HandlePacket, Accept, vars
  <2>2. QED
    BY <1>3, <1>8, <2>1 DEF FromObu
<1>9. ASSUME NEW d \in Devices, FromRsu(d) PROVE PathsOK'
  <2>1. now' = now
    BY <1>9 DEF FromRsu, HandlePacket, Accept, vars
  <2>2. QED
    BY <1>5, <1>9, <2>1 DEF FromRsu
<1>10. CASE EndToEndTick
  <2>1. now < MaxTime /\ now' = now + 1 /\ UNCHANGED <<sequence, wifi, xbee, relay>>
    BY <1>10 DEF EndToEndTick, Tick, paths
  <2>2. ASSUME NEW d \in Devices
        PROVE  OnTime(d, wifi[d], xbee[d], relay[d], sequence[d], now + 1)
    <3>1. InTime(wifi[d], now) /\ InTime(xbee[d], now) /\ InTime(relay[d], now)
      BY <1>10 DEF EndToEndTick, InTime
    <3>2. QED
      BY <1>2, <2>1, <3>1, Later, Bounds
  <2>3. now' \in 0..MaxTime
    BY <2>1, Bounds DEF PathsOK, PathsTyped
  <2>4. QED
    BY <2>1, <2>2, <2>3 DEF PathsOK, PathsTyped, DeviceOnTime
<1>11. CASE UNCHANGED <<sequence, wifi, xbee, relay, now>>
  BY <1>11 DEF PathsOK, PathsTyped, DeviceOnTime
<1>12. CASE EndToEndSweep
  BY <1>11, <1>12 DEF EndToEndSweep, Sweep, paths
<1>13. CASE EndToEndRestart
  BY <1>11, <1>13 DEF EndToEndRestart, Restart, paths
<1>14. CASE UNCHANGED evars
  BY <1>11, <1>14 DEF evars, vars, paths
<1>15. QED
  BY <1>1, <1>6, <1>7, <1>8, <1>9, <1>10, <1>12, <1>13, <1>14 DEF ENext

\* Every step is one of the Deduplicator, or leaves it alone.
LEMMA ReachesDedup ==
    ASSUME EndToEndAssumption, CrcTells, PathsOK, [ENext]_evars
    PROVE  [Next]_vars
<1>1. ASSUME NEW d \in Devices, CanRx(d) \/ Lose(d) \/ \E damage \in Damages : UartRx(d, damage)
      PROVE  UNCHANGED vars
  BY <1>1 DEF CanRx, Lose, UartRx, vars
<1>2. ASSUME NEW copy \in Undamaged, HandlePacket(copy) PROVE [Next]_vars
  <2>1. \/ UNCHANGED vars
        \/ Accept(copy.device, copy.n)
    BY <1>2, Handled
  <2>2. copy.device \in Devices /\ copy.n \in Seqs
    BY CopyTyped
  <2>3. QED
    BY <2>1, <2>2 DEF Next
<1>3. ASSUME NEW d \in Devices, FromObu(d) PROVE [Next]_vars
  <2>1. PICK copy \in Undamaged : copy = Head(wifi[d])
    BY <1>3, PathTail DEF FromObu, PathsOK, PathsTyped, DeviceOnTime, OnTime
  <2>2. HandlePacket(copy)
    BY <1>3, <2>1 DEF FromObu, HandlePacket
  <2>3. QED
    BY <1>2, <2>2
<1>4. ASSUME NEW d \in Devices, FromRsu(d) PROVE [Next]_vars
  <2>1. PICK copy \in Undamaged : copy = Head(relay[d])
    BY <1>4, PathTail DEF FromRsu, PathsOK, PathsTyped, DeviceOnTime, OnTime
  <2>2. HandlePacket(copy)
    BY <1>4, <2>1 DEF FromRsu, HandlePacket
  <2>3. QED
    BY <1>2, <2>2
<1>5. CASE EndToEndTick
  BY <1>5 DEF EndToEndTick, Next
<1>6. CASE EndToEndSweep
  BY <1>6 DEF EndToEndSweep, Next
<1>7. CASE EndToEndRestart
  BY <1>7 DEF EndToEndRestart, Next
<1>8. CASE UNCHANGED evars
  BY <1>8 DEF evars, vars
<1>9. QED
  BY <1>1, <1>3, <1>4, <1>5, <1>6, <1>7, <1>8 DEF ENext

\* What the process accepted, when and with what it stored of it: each key once, and
\* before any copy that may still come is too old to be told from a new packet.
Travelling(d) == On(wifi[d]) \cup On(xbee[d]) \cup On(relay[d])

KeyNotReused ==
    \A d \in Devices, j \in 1..Len(accepted) :
        accepted[j].key[1] = d => accepted[j].key[2] < sequence[d]

OlderThanAccepted ==
    \A d \in Devices : \A copy \in Travelling(d), j \in 1..Len(accepted) :
        accepted[j].key = KeyOf(copy) => copy.at <= accepted[j].at

AcceptedOnce ==
    \A i, j \in 1..Len(accepted) : accepted[i].key = accepted[j].key => i = j

ArrivedAccepted == arrived = {accepted[j].key : j \in 1..Len(accepted)}

StoredAccepted ==
    /\ stored \in Seq({Made(copy) : copy \in Undamaged}) /\ Len(stored) = Len(accepted)
    /\ \A j \in 1..Len(accepted) :
          \E copy \in Undamaged : /\ accepted[j].key = KeyOf(copy) /\ copy.at <= now
                                  /\ stored[j] = Made(copy)

LogOK == KeyNotReused /\ OlderThanAccepted /\ AcceptedOnce /\ ArrivedAccepted /\ StoredAccepted

\* Nothing is accepted at first.
LEMMA LogStart == EndToEndAssumption /\ EInit => LogOK
<1> SUFFICES ASSUME EInit PROVE LogOK
  OBVIOUS
<1>1. accepted = << >> /\ arrived = {} /\ stored = << >>
  BY DEF EInit, Init
<1>2. QED
  BY <1>1 DEF LogOK, KeyNotReused, OlderThanAccepted, AcceptedOnce, ArrivedAccepted, StoredAccepted

\* Nothing is accepted, and no copy is new.
LEMMA LogAlone ==
    ASSUME LogOK, UNCHANGED <<accepted, arrived, stored>>, now \in Int, now' \in Int, now' >= now,
           \A d \in Devices : sequence'[d] >= sequence[d] /\ sequence[d] \in Nat /\ sequence'[d] \in Nat,
           accepted \in Seq(Entry),
           \A d \in Devices : \A copy \in Travelling(d)' :
              copy \in Travelling(d) \/ (copy.device = d /\ copy.n = sequence[d])
    PROVE  LogOK'
<1>1. KeyNotReused'
  <2> SUFFICES ASSUME NEW d \in Devices, NEW j \in 1..Len(accepted), accepted[j].key[1] = d
               PROVE  accepted[j].key[2] < sequence'[d]
    BY DEF KeyNotReused
  <2>1. accepted[j].key[2] < sequence[d]
    BY DEF LogOK, KeyNotReused
  <2>2. accepted[j].key[2] \in Int
    <3>1. accepted[j] \in Entry
      BY ElementOfSeq, Zenon
    <3>2. QED
      BY <3>1 DEF Entry, Keys, Seqs
  <2>3. QED
    BY <2>1, <2>2
<1>2. OlderThanAccepted'
  <2> SUFFICES ASSUME NEW d \in Devices, NEW copy \in Travelling(d)', NEW j \in 1..Len(accepted),
                      accepted[j].key = KeyOf(copy)
               PROVE  copy.at <= accepted[j].at
    BY DEF OlderThanAccepted
  <2>1. CASE copy \in Travelling(d)
    BY <2>1 DEF LogOK, OlderThanAccepted
  <2>2. CASE copy.device = d /\ copy.n = sequence[d]
    <3>1. accepted[j].key = <<d, sequence[d]>>
      BY <2>2 DEF KeyOf
    <3>2. accepted[j].key[1] = d /\ accepted[j].key[2] = sequence[d]
      BY <3>1
    <3>3. sequence[d] < sequence[d] /\ sequence[d] \in Nat
      BY <3>2 DEF LogOK, KeyNotReused
    <3>4. QED
      BY <3>3
  <2>3. QED
    BY <2>1, <2>2
<1>3. AcceptedOnce' /\ ArrivedAccepted'
  BY DEF LogOK, AcceptedOnce, ArrivedAccepted
<1>4. StoredAccepted'
  <2>1. \A copy \in Undamaged : copy.at <= now => copy.at <= now'
    BY DEF Undamaged, Copies
  <2>2. QED
    BY <2>1 DEF LogOK, StoredAccepted
<1>5. QED
  BY <1>1, <1>2, <1>3, <1>4 DEF LogOK

\* A copy came in.
LEMMA LogHandled ==
    ASSUME EndToEndAssumption, CrcTells, PathsOK, TypeOK, SeenIsRecentlyAccepted,
           LogOK, NEW e \in Devices, NEW copy \in Travelling(e), copy \in Undamaged,
           copy.device = e, copy.at <= now, now <= copy.at + MaxDelay, copy.n < sequence[e],
           HandlePacket(copy), sequence' = sequence,
           \A d \in Devices : Travelling(d)' \subseteq Travelling(d),
           \A d \in Devices : \A c \in Travelling(d) : c.at <= now
    PROVE  LogOK'
<1> DEFINE key == KeyOf(copy)
<1>1. /\ arrived' = arrived \cup {key}
      /\ \/ IsDuplicate(copy.device, copy.n) /\ UNCHANGED <<vars, stored>>
         \/ Accept(copy.device, copy.n) /\ stored' = Append(stored, Made(copy))
  BY Handled, Zenon
<1>2. /\ copy.device = e /\ copy.n \in Seqs /\ copy.at \in 0..MaxTime /\ now \in 0..MaxTime
      /\ key = <<e, copy.n>> /\ key \in Keys /\ seen[key] = seen[<<copy.device, copy.n>>]
  BY CopyTyped DEF PathsOK, KeyOf, Keys, Seqs
<1>3. accepted \in Seq(Entry) /\ Len(accepted) \in Nat
      /\ \A j \in 1..Len(accepted) : accepted[j].key \in Keys /\ accepted[j].at \in Nat
  <2>1. accepted \in Seq(Entry) /\ Len(accepted) \in Nat
    BY LenProperties DEF TypeOK
  <2>2. \A j \in 1..Len(accepted) : accepted[j] \in Entry
    BY <2>1, ElementOfSeq, Zenon
  <2>3. QED
    BY <2>1, <2>2 DEF Entry
<1>4. swept \in 0..now
  BY DEF TypeOK
<1> HIDE DEF key
<1>5. CASE IsDuplicate(copy.device, copy.n) /\ UNCHANGED <<vars, stored>>
  <2>1. seen[key] # Never
    BY <1>2, <1>5 DEF IsDuplicate
  <2>2. PICK i \in 1..Len(accepted) : accepted[i].key = key
    <3>1. PICK i \in 1..Len(accepted) : accepted[i] = [key |-> key, at |-> seen[key]]
      BY <1>2, <2>1, Zenon DEF SeenIsRecentlyAccepted
    <3>2. QED
      BY <3>1
  <2>3. arrived' = arrived
    BY <1>1, <2>2 DEF LogOK, ArrivedAccepted
  <2>4. UNCHANGED <<accepted, arrived, stored, now>>
    BY <1>5, <2>3 DEF vars
  <2>5. QED
    <3>1. now \in Int /\ now' \in Int /\ now' >= now
      BY <1>2, <2>4
    <3>2. \A d \in Devices :
             sequence'[d] >= sequence[d] /\ sequence[d] \in Nat /\ sequence'[d] \in Nat
      BY DEF PathsOK, PathsTyped
    <3>3. \A d \in Devices : \A c \in Travelling(d)' :
             c \in Travelling(d) \/ (c.device = d /\ c.n = sequence[d])
      OBVIOUS
    <3>4. QED
      BY <1>3, <2>4, <3>1, <3>2, <3>3, LogAlone
<1>6. CASE Accept(copy.device, copy.n) /\ stored' = Append(stored, Made(copy))
  <2> DEFINE n == Len(accepted)
  <2>1. /\ seen[key] = Never /\ now' = now
        /\ accepted' = Append(accepted, [key |-> key, at |-> now])
    BY <1>2, <1>6 DEF Accept, IsDuplicate, KeyOf, key
  <2>2. /\ Len(accepted') = n + 1 /\ \A j \in 1..n : accepted'[j] = accepted[j]
        /\ accepted'[n + 1] = [key |-> key, at |-> now]
    BY <1>3, <2>1, AppendProperties
  <2>3. \A j \in 1..n : accepted[j].key # key
    <3> SUFFICES ASSUME NEW j \in 1..n, accepted[j].key = key PROVE FALSE
      OBVIOUS
    <3>1. copy.at <= accepted[j].at
      BY DEF LogOK, OlderThanAccepted, key
    <3>2. accepted[j].at >= swept - Window
      BY <1>2, <1>3, <1>4, <3>1, Bounds
    <3>3. seen[accepted[j].key] # Never
      BY <3>2 DEF SeenIsRecentlyAccepted
    <3>4. QED
      BY <2>1, <3>3
  <2>4. \A j \in 1..(n + 1) : j \in 1..n \/ j = n + 1
    BY <1>3
  <2> HIDE DEF n
  <2>5. KeyNotReused'
    <3> SUFFICES ASSUME NEW d \in Devices, NEW j \in 1..(n + 1), accepted'[j].key[1] = d
                 PROVE  accepted'[j].key[2] < sequence[d]
      BY <2>2 DEF KeyNotReused
    <3>1. CASE j \in 1..n
      BY <2>2, <3>1 DEF LogOK, KeyNotReused, n
    <3>2. CASE j = n + 1
      BY <1>2, <2>2, <3>2
    <3>3. QED
      BY <2>4, <3>1, <3>2
  <2>6. OlderThanAccepted'
    <3> SUFFICES ASSUME NEW d \in Devices, NEW c \in Travelling(d), NEW j \in 1..(n + 1),
                        accepted'[j].key = KeyOf(c)
                 PROVE  c.at <= accepted'[j].at
      BY <2>2 DEF OlderThanAccepted
    <3>1. CASE j \in 1..n
      BY <2>2, <3>1 DEF LogOK, OlderThanAccepted, n
    <3>2. CASE j = n + 1
      BY <2>2, <3>2
    <3>3. QED
      BY <2>4, <3>1, <3>2
  <2>7. AcceptedOnce'
    <3> SUFFICES ASSUME NEW i \in 1..(n + 1), NEW j \in 1..(n + 1), accepted'[i].key = accepted'[j].key
                 PROVE  i = j
      BY <2>2 DEF AcceptedOnce
    <3>1. CASE i \in 1..n /\ j \in 1..n
      BY <2>2, <3>1 DEF LogOK, AcceptedOnce, n
    <3>2. CASE ~(i \in 1..n /\ j \in 1..n)
      BY <2>2, <2>3, <2>4, <3>2
    <3>3. QED
      BY <3>1, <3>2
  <2>8. ArrivedAccepted'
    <3>1. {accepted'[j].key : j \in 1..(n + 1)} = {accepted[j].key : j \in 1..n} \cup {key}
      <4>1. \A j \in 1..n : j \in 1..(n + 1)
        BY <1>3 DEF n
      <4>2. n + 1 \in 1..(n + 1)
        BY <1>3 DEF n
      <4>3. QED
        BY <2>2, <2>4, <4>1, <4>2
    <3>2. QED
      BY <1>1, <2>2, <3>1 DEF LogOK, ArrivedAccepted, n
  <2>9. StoredAccepted'
    <3> DEFINE S == {Made(c) : c \in Undamaged}
               packet == Made(copy)
    <3>1. stored \in Seq(S) /\ packet \in S /\ Len(stored) = n
      BY DEF LogOK, StoredAccepted, n
    <3>2. \A j \in 1..n : \E c \in Undamaged : /\ accepted[j].key = KeyOf(c) /\ c.at <= now
                                             /\ stored[j] = Made(c)
      BY DEF LogOK, StoredAccepted, n
    <3>3. stored' = Append(stored, packet) /\ packet = Made(copy) /\ key = KeyOf(copy)
      BY <1>6 DEF key
    <3> HIDE DEF S, packet
    <3>4. /\ stored' \in Seq(S) /\ Len(stored') = n + 1
          /\ \A j \in 1..n : stored'[j] = stored[j]
          /\ stored'[n + 1] = packet
      BY <3>1, <3>3, AppendProperties
    <3>5. \A j \in 1..(n + 1) : \E c \in Undamaged : /\ accepted'[j].key = KeyOf(c) /\ c.at <= now
                                                   /\ stored'[j] = Made(c)
      <4>1. ASSUME NEW j \in 1..n
            PROVE  \E c \in Undamaged : /\ accepted'[j].key = KeyOf(c) /\ c.at <= now
                                        /\ stored'[j] = Made(c)
        BY <2>2, <3>2, <3>4
      <4>2. accepted'[n + 1].key = KeyOf(copy) /\ stored'[n + 1] = Made(copy)
        BY <2>2, <3>3, <3>4
      <4>3. QED
        BY <2>4, <4>1, <4>2
    <3>6. QED
      BY <2>1, <2>2, <3>4, <3>5 DEF StoredAccepted, S
  <2>10. QED
    BY <2>5, <2>6, <2>7, <2>8, <2>9 DEF LogOK
<1>7. QED
  BY <1>1, <1>5, <1>6

\* What PathsOK says of a copy on its way.
LEMMA OnTheWay ==
    ASSUME PathsOK, NEW d \in Devices
    PROVE  /\ OnTime(d, wifi[d], xbee[d], relay[d], sequence[d], now)
           /\ \A copy \in Travelling(d) :
                 /\ copy \in Undamaged /\ copy.device = d /\ copy.n < sequence[d]
                 /\ copy.at <= now /\ now <= copy.at + MaxDelay
<1>1. OnTime(d, wifi[d], xbee[d], relay[d], sequence[d], now)
  BY DEF PathsOK, DeviceOnTime
<1>2. \A copy \in Travelling(d) : copy \in Undamaged
  BY <1>1, ElementOfSeq DEF OnTime, On, Travelling
<1>3. QED
  BY <1>1, <1>2 DEF OnTime, Travelling

\* Nothing is new on a path that lost its head, and only x on one that x joined.
LEMMA TailOn ==
    ASSUME NEW S, NEW p \in Seq(S), p # << >>
    PROVE  Head(p) \in On(p) /\ On(Tail(p)) \subseteq On(p)
<1>1. /\ Len(p) \in Nat /\ Len(p) >= 1 /\ Head(p) = p[1] /\ Len(Tail(p)) = Len(p) - 1
      /\ \A i \in 1..Len(Tail(p)) : Tail(p)[i] = p[i + 1]
  BY HeadTailProperties, LenProperties, EmptySeq
<1>2. QED
  BY <1>1 DEF On

LEMMA OnAppend ==
    ASSUME NEW S, NEW p \in Seq(S), NEW x
    PROVE  On(Append(p, x)) \subseteq On(p) \cup {x}
<1>1. p \in Seq(S \cup {x}) /\ x \in S \cup {x}
  BY SeqMonotonic
<1>2. /\ Len(p) \in Nat /\ Len(Append(p, x)) = Len(p) + 1
      /\ \A i \in 1..Len(p) : Append(p, x)[i] = p[i]
      /\ Append(p, x)[Len(p) + 1] = x
  BY <1>1, AppendProperties, LenProperties
<1>3. QED
  BY <1>2 DEF On

\* Every step keeps the log of what was accepted right.
LEMMA LogKept ==
    ASSUME EndToEndAssumption, CrcTells, PathsOK, TypeOK, SeenIsRecentlyAccepted,
           LogOK, [ENext]_evars
    PROVE  LogOK'
<1>1. accepted \in Seq(Entry) /\ now \in Int
  BY DEF TypeOK
<1>2. \A d \in Devices : sequence[d] \in Nat
  BY DEF PathsOK, PathsTyped
<1>3. ASSUME NEW f, NEW p, NEW d \in Devices, f \in [Devices -> Seq(Undamaged)], f[d] # << >>,
             p = [f EXCEPT ![d] = Tail(f[d])]
      PROVE  Head(f[d]) \in On(f[d]) /\ \A e \in Devices : On(p[e]) \subseteq On(f[e])
  <2>1. f[d] \in Seq(Undamaged) /\ p[d] = Tail(f[d]) /\ \A e \in Devices \ {d} : p[e] = f[e]
    BY <1>3
  <2>2. Head(f[d]) \in On(f[d]) /\ On(Tail(f[d])) \subseteq On(f[d])
    BY <1>3, <2>1, TailOn
  <2>3. QED
    BY <2>1, <2>2
<1>4. CASE UNCHANGED <<accepted, arrived, stored, sequence>> /\ now' \in Int /\ now' >= now
           /\ \A d \in Devices : Travelling(d)' \subseteq Travelling(d)
  <2>1. \A d \in Devices :
           sequence'[d] >= sequence[d] /\ sequence[d] \in Nat /\ sequence'[d] \in Nat
    BY <1>2, <1>4
  <2>2. \A d \in Devices : \A c \in Travelling(d)' :
           c \in Travelling(d) \/ (c.device = d /\ c.n = sequence[d])
    BY <1>4
  <2>3. QED
    BY <1>1, <1>4, <2>1, <2>2, LogAlone
<1>5. ASSUME NEW d \in Devices, CanRx(d) PROVE LogOK'
  <2> DEFINE copy == [device |-> d, n |-> sequence[d], at |-> now, damage |-> << >>]
  <2>1. /\ wifi' = [wifi EXCEPT ![d] = Append(wifi[d], copy)]
        /\ xbee' = [xbee EXCEPT ![d] = Append(xbee[d], copy)]
        /\ sequence' = [sequence EXCEPT ![d] = sequence[d] + 1]
        /\ UNCHANGED <<relay, now, accepted, arrived, stored>>
    BY <1>5 DEF CanRx, vars
  <2>2. copy.device = d /\ copy.n = sequence[d]
    OBVIOUS
  <2> HIDE DEF copy
  <2>3. \A e \in Devices :
           sequence'[e] >= sequence[e] /\ sequence[e] \in Nat /\ sequence'[e] \in Nat
    BY <1>2, <2>1 DEF PathsOK, PathsTyped
  <2>4. /\ \A e \in Devices \ {d} : wifi'[e] = wifi[e] /\ xbee'[e] = xbee[e] /\ relay'[e] = relay[e]
        /\ wifi'[d] = Append(wifi[d], copy) /\ xbee'[d] = Append(xbee[d], copy) /\ relay'[d] = relay[d]
    BY <2>1 DEF PathsOK, PathsTyped
  <2>5. On(Append(wifi[d], copy)) \subseteq On(wifi[d]) \cup {copy}
        /\ On(Append(xbee[d], copy)) \subseteq On(xbee[d]) \cup {copy}
    BY OnAppend DEF PathsOK, PathsTyped
  <2>6. ASSUME NEW e \in Devices, NEW c \in Travelling(e)'
        PROVE  c \in Travelling(e) \/ (c.device = e /\ c.n = sequence[e])
    <3>1. c \in On(wifi'[e]) \cup On(xbee'[e]) \cup On(relay'[e])
      BY <2>6 DEF Travelling
    <3>2. CASE e = d
      <4>1. c \in On(wifi[d]) \cup On(xbee[d]) \cup On(relay[d]) \cup {copy}
        BY <2>4, <2>5, <3>1, <3>2
      <4>2. QED
        BY <2>2, <3>2, <4>1 DEF Travelling
    <3>3. CASE e # d
      BY <2>4, <3>1, <3>3 DEF Travelling
    <3>4. QED
      BY <3>2, <3>3
  <2>7. now' \in Int /\ now' >= now
    BY <1>1, <2>1
  <2>8. QED
    BY <1>1, <2>1, <2>3, <2>6, <2>7, LogAlone
<1>6. ASSUME NEW d \in Devices, Lose(d) PROVE LogOK'
  <2>1. UNCHANGED <<accepted, arrived, stored, sequence, now>>
    BY <1>6 DEF Lose, vars
  <2>2. \A e \in Devices : /\ On(wifi'[e]) \subseteq On(wifi[e])
                          /\ On(xbee'[e]) \subseteq On(xbee[e])
                          /\ On(relay'[e]) \subseteq On(relay[e])
    <3>1. \/ wifi[d] # << >> /\ wifi' = [wifi EXCEPT ![d] = Tail(wifi[d])] /\ UNCHANGED <<xbee, relay>>
          \/ xbee[d] # << >> /\ xbee' = [xbee EXCEPT ![d] = Tail(xbee[d])] /\ UNCHANGED <<wifi, relay>>
          \/ relay[d] # << >> /\ relay' = [relay EXCEPT ![d] = Tail(relay[d])] /\ UNCHANGED <<wifi, xbee>>
      BY <1>6 DEF Lose
    <3>2. QED
      BY <1>3, <3>1 DEF PathsOK, PathsTyped
  <2>3. \A e \in Devices : Travelling(e)' \subseteq Travelling(e)
    BY <2>2 DEF Travelling
  <2>4. QED
    BY <1>1, <1>4, <2>1, <2>3
<1>7. ASSUME NEW d \in Devices, NEW damage \in Damages, UartRx(d, damage) PROVE LogOK'
  <2> DEFINE copy == [Head(xbee[d]) EXCEPT !.damage = damage]
  <2>1. /\ xbee[d] # << >> /\ xbee' = [xbee EXCEPT ![d] = Tail(xbee[d])]
        /\ UNCHANGED <<wifi, sequence, now, accepted, arrived, stored>>
        /\ \/ copy \in Validated /\ relay' = [relay EXCEPT ![d] = Append(relay[d], copy)]
           \/ relay' = relay
    BY <1>7 DEF UartRx, vars
  <2>2. Head(xbee[d]) \in On(xbee[d]) /\ \A e \in Devices : On(xbee'[e]) \subseteq On(xbee[e])
    BY <1>3, <2>1 DEF PathsOK, PathsTyped
  <2>3. \A e \in Devices : On(relay'[e]) \subseteq On(relay[e]) \cup On(xbee[e])
    <3>1. CASE relay' = relay
      BY <3>1
    <3>2. CASE copy \in Validated /\ relay' = [relay EXCEPT ![d] = Append(relay[d], copy)]
      <4>1. copy = Head(xbee[d])
        <5>1. Head(xbee[d]) \in Undamaged
          BY <2>2, OnTheWay DEF Travelling
        <5>2. copy \in Undamaged
          BY <3>2, ValidatedIsUndamaged
        <5>3. QED
          BY <5>1, <5>2 DEF Undamaged, Copies
      <4> HIDE DEF copy
      <4>2. /\ relay[d] \in Seq(Undamaged) /\ relay'[d] = Append(relay[d], copy)
            /\ \A e \in Devices \ {d} : relay'[e] = relay[e]
        BY <3>2 DEF PathsOK, PathsTyped
      <4>3. On(relay'[d]) \subseteq On(relay[d]) \cup {copy}
        BY <4>2, OnAppend
      <4>4. QED
        BY <2>2, <4>1, <4>2, <4>3
    <3>3. QED
      BY <2>1, <3>1, <3>2
  <2>4. \A e \in Devices : Travelling(e)' \subseteq Travelling(e)
    BY <2>1, <2>2, <2>3 DEF Travelling
  <2>5. QED
    BY <1>1, <1>4, <2>1, <2>4
<1>8. ASSUME NEW d \in Devices, NEW copy \in Travelling(d), HandlePacket(copy),
             sequence' = sequence, \A e \in Devices : Travelling(e)' \subseteq Travelling(e)
      PROVE  LogOK'
  <2>1. /\ copy \in Undamaged /\ copy.device = d /\ copy.n < sequence[d]
        /\ copy.at <= now /\ now <= copy.at + MaxDelay
    BY OnTheWay
  <2>2. \A e \in Devices : \A c \in Travelling(e) : c.at <= now
    BY OnTheWay
  <2>3. QED
    BY <1>8, <2>1, <2>2, LogHandled
<1>9. ASSUME NEW d \in Devices, FromObu(d) PROVE LogOK'
  <2>1. /\ wifi[d] # << >> /\ wifi' = [wifi EXCEPT ![d] = Tail(wifi[d])]
        /\ UNCHANGED <<sequence, xbee, relay>>
    BY <1>9 DEF FromObu
  <2>2. Head(wifi[d]) \in On(wifi[d]) /\ \A e \in Devices : On(wifi'[e]) \subseteq On(wifi[e])
    BY <1>3, <2>1 DEF PathsOK, PathsTyped
  <2>3. PICK copy \in Travelling(d) : copy = Head(wifi[d])
    BY <2>2 DEF Travelling
  <2>4. HandlePacket(copy)
    BY <1>9, <2>3 DEF FromObu, HandlePacket
  <2>5. \A e \in Devices : Travelling(e)' \subseteq Travelling(e)
    BY <2>1, <2>2 DEF Travelling
  <2>6. QED
    BY <1>8, <2>1, <2>4, <2>5
<1>10. ASSUME NEW d \in Devices, FromRsu(d) PROVE LogOK'
  <2>1. /\ relay[d] # << >> /\ relay' = [relay EXCEPT ![d] = Tail(relay[d])]
        /\ UNCHANGED <<sequence, xbee, wifi>>
    BY <1>10 DEF FromRsu
  <2>2. Head(relay[d]) \in On(relay[d]) /\ \A e \in Devices : On(relay'[e]) \subseteq On(relay[e])
    BY <1>3, <2>1 DEF PathsOK, PathsTyped
  <2>3. PICK copy \in Travelling(d) : copy = Head(relay[d])
    BY <2>2 DEF Travelling
  <2>4. HandlePacket(copy)
    BY <1>10, <2>3 DEF FromRsu, HandlePacket
  <2>5. \A e \in Devices : Travelling(e)' \subseteq Travelling(e)
    BY <2>1, <2>2 DEF Travelling
  <2>6. QED
    BY <1>8, <2>1, <2>4, <2>5
<1>11. CASE /\ UNCHANGED <<accepted, arrived, stored, sequence, wifi, xbee, relay>>
            /\ now' \in Int /\ now' >= now
  BY <1>4, <1>11 DEF Travelling
<1>12. CASE EndToEndTick
  BY <1>1, <1>11, <1>12 DEF EndToEndTick, Tick, paths
<1>13. CASE EndToEndSweep
  BY <1>1, <1>11, <1>13 DEF EndToEndSweep, Sweep, paths
<1>14. CASE EndToEndRestart
  <2>1. accepted' = << >> /\ arrived' = {} /\ stored' = << >>
    BY <1>14 DEF EndToEndRestart, Restart
  <2>2. QED
    BY <2>1 DEF LogOK, KeyNotReused, OlderThanAccepted, AcceptedOnce, ArrivedAccepted, StoredAccepted
<1>15. CASE UNCHANGED evars
  BY <1>1, <1>11, <1>15 DEF evars, vars, paths
<1>16. QED
  BY <1>5, <1>6, <1>7, <1>9, <1>10, <1>12, <1>13, <1>14, <1>15 DEF ENext

\* What happens to the frames on their two paths is, seen from the Deduplicator, calls
\* of IsDuplicate, ticks of its cleanup and nothing else: every behaviour of OBU, paths
\* and adapter is one of the Deduplicator, and what is proved of the Deduplicator
\* under any sequence of calls holds of it behind the two paths.
THEOREM EndToEndImplementsDedup == EndToEndAssumption /\ CrcTells => (ESpec => Spec)
<1> SUFFICES ASSUME EndToEndAssumption, CrcTells PROVE ESpec => Spec
  OBVIOUS
<1>1. EInit => PathsOK /\ Init
  BY PathsStart, LogStart DEF EInit
<1>2. PathsOK /\ [ENext]_evars => PathsOK' /\ [Next]_vars
  BY PathsKept, ReachesDedup
<1>3. QED
  BY <1>1, <1>2, PTL DEF ESpec, Spec

\* The paths, the Deduplicator and the log, in every state.
LEMMA EndToEndInvariant ==
    ASSUME EndToEndAssumption, CrcTells
    PROVE  ESpec => [](PathsOK /\ TypeOK /\ LogOK)
<1>1. EInit => PathsOK /\ LogOK /\ Init
  BY PathsStart, LogStart DEF EInit
<1>2. PathsOK /\ [ENext]_evars => PathsOK' /\ [Next]_vars
  BY PathsKept, ReachesDedup
<1>3. PathsOK /\ TypeOK /\ SeenIsRecentlyAccepted /\ LogOK /\ [ENext]_evars
      => LogOK'
  BY LogKept
<1>4. ESpec => []PathsOK
  BY <1>1, <1>2, PTL DEF ESpec
<1>5. ESpec => Spec
  BY EndToEndImplementsDedup
<1>6. QED
  BY <1>1, <1>3, <1>4, <1>5, TypeCorrect, RemembersWhatItMust, PTL DEF ESpec

\* A frame of which any copy got through is handed on, and once, whichever copy came
\* first and however the two paths overtook each other.
THEOREM EachArrivalHandedOnOnce ==
    EndToEndAssumption /\ CrcTells => (ESpec => []EveryArrivalOnce)
<1> SUFFICES ASSUME EndToEndAssumption, CrcTells PROVE ESpec => []EveryArrivalOnce
  OBVIOUS
<1>1. LogOK => EveryArrivalOnce
  <2> SUFFICES ASSUME LogOK, NEW k \in Keys
               PROVE  Cardinality({j \in 1..Len(accepted) : accepted[j].key = k})
                         = IF k \in arrived THEN 1 ELSE 0
    BY Zenon DEF EveryArrivalOnce
  <2>1. CASE k \in arrived
    <3>1. PICK i \in 1..Len(accepted) : accepted[i].key = k
      BY <2>1 DEF LogOK, ArrivedAccepted
    <3>2. {j \in 1..Len(accepted) : accepted[j].key = k} = {i}
      BY <3>1 DEF LogOK, AcceptedOnce
    <3>3. QED
      BY <2>1, <3>2, FS_Singleton
  <2>2. CASE k \notin arrived
    <3>1. {j \in 1..Len(accepted) : accepted[j].key = k} = {}
      BY <2>2 DEF LogOK, ArrivedAccepted
    <3>2. QED
      BY <2>2, <3>1, FS_EmptySet
  <2>3. QED
    BY <2>1, <2>2
<1>2. QED
  BY <1>1, EndToEndInvariant, PTL

\* What is handed on is what the OBU captured, field for field, whatever the radio
\* did to the copy that came over the RSU.
THEOREM HandedOnAsCaptured ==
    EndToEndAssumption /\ CrcTells => (ESpec => []StoredAsCaptured)
<1> SUFFICES ASSUME EndToEndAssumption, CrcTells PROVE ESpec => []StoredAsCaptured
  OBVIOUS
<1>1. PathsOK /\ LogOK => StoredAsCaptured
  <2> SUFFICES ASSUME PathsOK, LogOK, NEW j \in 1..Len(stored)
               PROVE  /\ <<stored[j].device, stored[j].sequence>> = accepted[j].key
                      /\ \E t \in 0..now : stored[j].timestamp = Timestamp(t)
                      /\ stored[j].canId = CanFrame[accepted[j].key[2]].canId
                      /\ SubSeq(stored[j].data, 1, stored[j].dlc)
                            = CanFrame[accepted[j].key[2]].data
    BY DEF StoredAsCaptured
  <2>1. PICK copy \in Undamaged : /\ accepted[j].key = KeyOf(copy) /\ copy.at <= now
                                  /\ stored[j] = Made(copy)
    BY DEF LogOK, StoredAccepted
  <2>2. AsCaptured(stored[j], copy)
    BY <2>1, RoundTrip, Zenon DEF Made
  <2>3. accepted[j].key = <<copy.device, copy.n>> /\ accepted[j].key[2] = copy.n
    BY <2>1 DEF KeyOf
  <2>4. copy.at \in 0..now
    BY <2>1 DEF Undamaged, Copies, PathsOK
  <2>5. QED
    BY <2>2, <2>3, <2>4, Zenon DEF AsCaptured, FrameId, FrameData
<1>2. QED
  BY <1>1, EndToEndInvariant, PTL
=============================================================================
