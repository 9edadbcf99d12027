------------------------ MODULE EnergyLedgerProofs --------------------------
(***************************************************************************)
(* Theorems about EnergyLedger, for every set of keys, coordinators and     *)
(* poll slots, every resolution, window and lag: its invariants, and that  *)
(* it implements the registers of MeteredTotal; and, from the middle on,   *)
(* that nothing a key draws is missed.                                     *)
(***************************************************************************)
EXTENDS EnergyLedger, TLAPS

-----------------------------------------------------------------------------
(* The meters *)

LEMMA MeteredType ==
    ASSUME TypeOK, NEW k \in Keys, NEW t \in Int
    PROVE  Metered(k, t) \in Nat
BY DEF TypeOK, Metered

LEMMA MeteredMonotone ==
    ASSUME TypeOK, MetersRunForwards,
           NEW k \in Keys, NEW s \in Int, NEW t \in Int, s <= t
    PROVE  Metered(k, s) <= Metered(k, t)
<1>1. CASE s < 0
    BY <1>1, MeteredType DEF Metered
<1>2. CASE s >= 0 /\ t <= now
    BY <1>2 DEF Metered, MetersRunForwards, TypeOK
<1>3. CASE s >= 0 /\ t > now /\ s <= now
    <2>1. s \in 0..now /\ now \in 0..now
        BY <1>3 DEF TypeOK
    <2>2. cum[k][s] <= cum[k][now]
        BY <2>1 DEF MetersRunForwards, TypeOK
    <2> QED BY <1>3, <2>2 DEF Metered, TypeOK
<1>4. CASE s > now
    BY <1>4, MeteredType DEF Metered, TypeOK
<1> QED BY <1>1, <1>2, <1>3, <1>4 DEF TypeOK

\* What SPAN answers for one bucket is a sample, and an honest one.
LEMMA BucketHonest ==
    ASSUME TypeOK, MetersRunForwards,
           NEW k \in Keys, NEW s \in Int, NEW step \in Nat, NEW h \in Int
    PROVE  /\ Bucket(k, s, step, h) \in Samples
           /\ HonestSample(Bucket(k, s, step, h))
<1> DEFINE lo == Earlier(s, h)
           hi == Earlier(s + step, h)
<1>1. lo \in Int /\ hi \in Int /\ lo <= hi
    BY DEF Earlier
<1>2. Metered(k, lo) <= Metered(k, hi) /\ Metered(k, lo) \in Nat /\ Metered(k, hi) \in Nat
    <2> HIDE DEF lo, hi
    <2> QED BY <1>1, MeteredType, MeteredMonotone
<1>3. /\ Metered(k, s) \in Nat /\ Metered(k, s + step) \in Nat
      /\ Metered(k, s) <= Metered(k, s + step)
    BY MeteredType, MeteredMonotone
<1>4. Metered(k, hi) - Metered(k, lo) <= Metered(k, s + step) - Metered(k, s)
    <2>1. CASE h < s
        <3>1. lo = h /\ hi = h
            BY <2>1 DEF Earlier
        <3> QED BY <3>1, <1>3, MeteredType
    <2>2. CASE h >= s
        <3>1. lo = s
            BY <2>2 DEF Earlier
        <3>2. hi <= s + step
            BY DEF Earlier
        <3>3. Metered(k, hi) <= Metered(k, s + step)
            <4> HIDE DEF hi
            <4> QED BY <1>1, <3>2, MeteredMonotone
        <3> HIDE DEF lo, hi
        <3> QED BY <3>1, <3>3, <1>2, <1>3
    <2> QED BY <2>1, <2>2
<1>5. Bucket(k, s, step, h) =
        [key |-> k, start |-> s, end |-> s + step, kwh |-> Metered(k, hi) - Metered(k, lo)]
    BY DEF Bucket
<1> HIDE DEF lo, hi
<1>6. Metered(k, hi) - Metered(k, lo) \in Nat
    BY <1>2
<1> QED BY <1>3, <1>4, <1>5, <1>6 DEF Samples, HonestSample

-----------------------------------------------------------------------------
(* The ledger's rules *)

\* One bucket advanced over: the entry stays honest and nothing moves back.
LEMMA AdvanceHonest ==
    ASSUME TypeOK, MetersRunForwards,
           NEW k \in Keys, NEW e \in Entries, HonestEntry(k, e), e.marked,
           NEW s \in Samples, s.key = k, HonestSample(s)
    PROVE  /\ _advance(e, s) \in Entries
           /\ HonestEntry(k, _advance(e, s))
           /\ _advance(e, s).known /\ _advance(e, s).marked
           /\ _advance(e, s).total >= e.total
           /\ _advance(e, s).end >= e.end
<1> DEFINE n == _advance(e, s)
<1>0. /\ e.known \in BOOLEAN /\ e.total \in Nat /\ e.start \in Int /\ e.end \in Int
      /\ e.counted \in Nat /\ e.origin \in Int
      /\ s.start \in Int /\ s.end \in Int /\ s.kwh \in Nat
    BY DEF Entries, Samples
<1>1. /\ e.known /\ e.start <= e.end
      /\ e.counted <= Metered(k, e.end) - Metered(k, e.start)
      /\ e.total + e.origin <= Metered(k, e.start) + e.counted
      /\ s.start <= s.end
      /\ s.kwh <= Metered(k, s.end) - Metered(k, s.start)
    BY DEF HonestEntry, HonestSample
<1>2. CASE SameBucket(e, s) /\ s.kwh > e.counted
    <2>1. n = [e EXCEPT !.counted = s.kwh, !.total = e.total + (s.kwh - e.counted)]
        BY <1>2 DEF _advance
    <2> HIDE DEF n
    <2>0. e.total + (s.kwh - e.counted) \in Nat
        BY <1>0, <1>2
    <2>2. /\ n \in Entries
          /\ n.known = e.known /\ n.marked = e.marked /\ n.start = e.start /\ n.end = e.end
          /\ n.origin = e.origin /\ n.counted = s.kwh
          /\ n.total = e.total + (s.kwh - e.counted)
        BY <1>0, <2>0, <2>1 DEF Entries
    <2>3. Metered(k, e.start) \in Nat
        BY <1>0, MeteredType
    <2>4. HonestEntry(k, n)
        BY <1>0, <1>1, <1>2, <2>2, <2>3 DEF HonestEntry, SameBucket
    <2> QED BY <1>0, <1>1, <1>2, <2>2, <2>4 DEF n
<1>3. CASE ~SameBucket(e, s) /\ s.start >= e.end
    <2>1. n = [e EXCEPT !.start = s.start, !.end = s.end, !.counted = s.kwh,
                        !.total = e.total + s.kwh]
        BY <1>3 DEF _advance
    <2> HIDE DEF n
    <2>0. e.total + s.kwh \in Nat
        BY <1>0
    <2>2. /\ n \in Entries
          /\ n.known = e.known /\ n.marked = e.marked /\ n.start = s.start /\ n.end = s.end
          /\ n.origin = e.origin /\ n.counted = s.kwh /\ n.total = e.total + s.kwh
        BY <1>0, <2>0, <2>1 DEF Entries
    <2>3. /\ Metered(k, e.start) \in Nat /\ Metered(k, e.end) \in Nat
          /\ Metered(k, s.start) \in Nat
          /\ Metered(k, e.end) <= Metered(k, s.start)
        BY <1>0, <1>3, MeteredType, MeteredMonotone
    <2>4. HonestEntry(k, n)
        BY <1>0, <1>1, <1>3, <2>2, <2>3 DEF HonestEntry
    <2> QED BY <1>0, <1>1, <1>3, <2>2, <2>4 DEF n
<1>4. CASE n = e
    BY <1>0, <1>1, <1>4
<1> QED BY <1>2, <1>3, <1>4 DEF _advance

\* Priming: the entry is honest from its first bucket on, and keeps its total.
LEMMA PrimeHonest ==
    ASSUME TypeOK,
           NEW k \in Keys, NEW e \in Entries,
           NEW s \in Samples, s.key = k, HonestSample(s)
    PROVE  /\ prime(e, s) \in Entries
           /\ HonestEntry(k, prime(e, s))
           /\ prime(e, s).known /\ prime(e, s).total = e.total
<1>1. /\ e.total \in Nat /\ s.start \in Int /\ s.end \in Int /\ s.kwh \in Nat
    BY DEF Entries, Samples
<1>2. Metered(k, s.start) \in Nat
    BY <1>1, MeteredType
<1> DEFINE o == Metered(s.key, s.start) + s.kwh - e.total
           n == prime(e, s)
<1>3. o \in Int
    BY <1>1, <1>2
<1>4. n = [e EXCEPT !.known = TRUE, !.marked = TRUE, !.start = s.start, !.end = s.end,
                    !.counted = s.kwh, !.origin = o]
    BY DEF prime
<1> HIDE DEF n
<1>5. /\ n \in Entries
      /\ n.known /\ n.total = e.total /\ n.start = s.start /\ n.end = s.end
      /\ n.counted = s.kwh /\ n.origin = o
    <2> HIDE DEF o
    <2> QED BY <1>1, <1>3, <1>4 DEF Entries
<1>6. HonestEntry(k, n)
    BY <1>1, <1>2, <1>5 DEF HonestEntry, HonestSample
<1> QED BY <1>5, <1>6 DEF n

-----------------------------------------------------------------------------
(* The inductive invariant *)

\* While the meters stand still, what was honest stays honest.
LEMMA MetersStill ==
    ASSUME now' = now, cum' = cum
    PROVE  /\ \A s : HonestSample(s) => HonestSample(s)'
           /\ \A k, e : HonestEntry(k, e) => HonestEntry(k, e)'
           /\ MetersRunForwards => MetersRunForwards'
BY DEF HonestSample, HonestEntry, MetersRunForwards, Metered

\* When they run, they run forwards, and an interval gains energy or keeps it.
LEMMA MetersRunning ==
    ASSUME IInv, MeterTick
    PROVE  /\ now' \in Nat /\ cum' \in [Keys -> [0..now' -> Nat]]
           /\ MetersRunForwards'
           /\ \A s \in Samples : HonestSample(s) => HonestSample(s)'
           /\ \A k \in Keys : \A e \in Entries : HonestEntry(k, e) => HonestEntry(k, e)'
<1>1. PICK draw \in [Keys -> Rates] :
        cum' = [k \in Keys |-> [t \in 0..(now + 1) |->
                  IF t <= now THEN cum[k][t] ELSE cum[k][now] + draw[k]]]
    BY DEF MeterTick
<1>2. now \in Nat /\ now' = now + 1 /\ cum \in [Keys -> [0..now -> Nat]]
    BY DEF MeterTick, IInv, TypeOK
<1>3. ASSUME NEW k \in Keys
      PROVE  draw[k] \in Nat
    BY <1>1, <1>3, MeterAssumption
<1>4. now' \in Nat /\ cum' \in [Keys -> [0..now' -> Nat]]
    BY <1>1, <1>2, <1>3
<1>5. MetersRunForwards'
    <2> SUFFICES ASSUME NEW k \in Keys, NEW s \in 0..(now + 1), NEW t \in 0..(now + 1), s <= t
                 PROVE  cum'[k][s] <= cum'[k][t]
        BY <1>2 DEF MetersRunForwards
    <2>1. /\ cum'[k][s] = IF s <= now THEN cum[k][s] ELSE cum[k][now] + draw[k]
          /\ cum'[k][t] = IF t <= now THEN cum[k][t] ELSE cum[k][now] + draw[k]
        BY <1>1
    <2>2. ASSUME s <= now
          PROVE  cum[k][s] <= cum[k][now] /\ cum[k][s] \in Nat
        BY <1>2, <2>2 DEF IInv, MetersRunForwards
    <2>3. ASSUME t <= now
          PROVE  cum[k][s] <= cum[k][t]
        BY <1>2, <2>3 DEF IInv, MetersRunForwards
    <2>4. cum[k][now] \in Nat
        BY <1>2
    <2> QED BY <1>2, <1>3, <2>1, <2>2, <2>3, <2>4
<1>6. ASSUME NEW k \in Keys, NEW s \in Int, NEW t \in Int, s <= t
      PROVE  /\ Metered(k, t) - Metered(k, s) <= Metered(k, t)' - Metered(k, s)'
             /\ Metered(k, s) <= Metered(k, s)'
             /\ Metered(k, s) \in Nat /\ Metered(k, s)' \in Nat
             /\ Metered(k, t) \in Nat /\ Metered(k, t)' \in Nat
    <2>1. ASSUME NEW u \in Int
          PROVE  /\ Metered(k, u) \in Nat
                 /\ Metered(k, u)' = IF u <= now THEN Metered(k, u)
                                     ELSE Metered(k, u) + draw[k]
        <3>1. CASE u < 0
            BY <1>2, <2>1, <3>1 DEF Metered
        <3>2. CASE 0 <= u /\ u <= now
            BY <1>1, <1>2, <2>1, <3>2 DEF Metered
        <3>3. CASE u > now
            <4>1. Metered(k, u) = cum[k][now] /\ cum[k][now] \in Nat
                BY <1>2, <3>3 DEF Metered
            <4>2. now + 1 \in 0..(now + 1) /\ cum'[k][now + 1] = cum[k][now] + draw[k]
                BY <1>1, <1>2
            <4>3. Metered(k, u)' = cum'[k][now + 1]
                <5>1. CASE u = now + 1
                    BY <1>2, <5>1 DEF Metered
                <5>2. CASE u > now + 1
                    BY <1>2, <5>2 DEF Metered
                <5> QED BY <1>2, <3>3, <5>1, <5>2
            <4> QED BY <3>3, <4>1, <4>2, <4>3, <1>2
        <3> QED BY <1>2, <2>1, <3>1, <3>2, <3>3
    <2>2. /\ Metered(k, s) \in Nat
          /\ Metered(k, s)' = IF s <= now THEN Metered(k, s) ELSE Metered(k, s) + draw[k]
        BY <1>6, <2>1
    <2>3. /\ Metered(k, t) \in Nat
          /\ Metered(k, t)' = IF t <= now THEN Metered(k, t) ELSE Metered(k, t) + draw[k]
        BY <1>6, <2>1
    <2>4. draw[k] \in Nat
        BY <1>3, <1>6
    <2> QED BY <1>2, <1>6, <2>2, <2>3, <2>4
<1>7. ASSUME NEW s \in Samples, HonestSample(s)
      PROVE  HonestSample(s)'
    BY <1>6, <1>7 DEF HonestSample, Samples
<1>8. ASSUME NEW k \in Keys, NEW e \in Entries, HonestEntry(k, e)
      PROVE  HonestEntry(k, e)'
    BY <1>6, <1>8 DEF HonestEntry, Entries
<1> QED BY <1>4, <1>5, <1>7, <1>8

\* Every window a poll plans is a window.
LEMMA PlanType ==
    ASSUME NEW t \in Int, NEW covered \in Int
    PROVE  plan_windows(t, covered) \subseteq Windows
<1>1. \A u \in Int : align_start(u, Quarter) \in Int /\ align_start(u, Hour) \in Int
    BY ResolutionAssumption DEF align_start
<1>2. LiveStart(t) \in Int
    BY <1>1, WindowAssumption DEF LiveStart
<1>3. LiveWindowAt(t) \in Windows
    BY <1>2 DEF LiveWindowAt, Windows
<1>4. BackfillAt(t, covered) \in Windows
    <2> DEFINE oldest == IF covered > t - MaxBackfill THEN covered ELSE t - MaxBackfill
               aligned == align_start(oldest, Hour)
               least == LiveStart(t) - MinWindow
    <2>1. oldest \in Int
        BY WindowAssumption
    <2>2. aligned \in Int /\ least \in Int
        <3> HIDE DEF oldest
        <3> QED BY <1>1, <1>2, <2>1, WindowAssumption
    <2>3. BackfillAt(t, covered) =
            [step |-> Hour, start |-> IF aligned < least THEN aligned ELSE least,
             end |-> LiveStart(t)]
        BY DEF BackfillAt
    <2> HIDE DEF aligned, least
    <2> QED BY <1>2, <2>2, <2>3 DEF Windows
<1> QED BY <1>3, <1>4 DEF plan_windows

LEMMA InitIInv == Init => IInv
<1> SUFFICES ASSUME Init PROVE IInv
    OBVIOUS
<1>1. Unseen \in Entries /\ ~Unseen.marked
    BY DEF Unseen, Entries
<1>2. IdlePoll \in Polls /\ IdlePoll.samples = {}
    BY DEF IdlePoll, Polls
<1>3. TypeOK
    BY <1>1, <1>2, MeterAssumption DEF Init, TypeOK, EmptyLedger
<1>4. MetersRunForwards
    BY DEF Init, MetersRunForwards
<1>5. \A c \in Coordinators, i \in Slots : \A s \in polls[c][i].samples : HonestSample(s)
    BY <1>2 DEF Init
<1>6. \A c \in Coordinators, k \in Keys : HonestEntry(k, ledger[c][k])
    BY <1>1 DEF Init, EmptyLedger, HonestEntry
<1>7. \A k \in Keys : HonestEntry(k, store[k])
    BY <1>1 DEF Init, EmptyLedger, HonestEntry
<1> QED BY <1>3, <1>4, <1>5, <1>6, <1>7 DEF IInv

LEMMA MeterTickIInv ==
    ASSUME IInv, MeterTick
    PROVE  IInv'
<1>1. UNCHANGED <<phase, ledger, saving, polls, store, removed>>
    BY DEF MeterTick
<1>2. TypeOK'
    BY <1>1, MetersRunning DEF IInv, TypeOK
<1>3. \A c \in Coordinators, i \in Slots : polls[c][i].samples \subseteq Samples
    BY DEF IInv, TypeOK, Polls
<1>4. (\A c \in Coordinators, i \in Slots : \A s \in polls[c][i].samples : HonestSample(s))'
    <2> SUFFICES ASSUME NEW c \in Coordinators, NEW i \in Slots, NEW s \in polls[c][i].samples
                 PROVE  HonestSample(s)'
        BY <1>1
    <2>1. s \in Samples /\ HonestSample(s)
        BY <1>3 DEF IInv
    <2> QED BY <2>1, MetersRunning
<1>5. (\A c \in Coordinators, k \in Keys : HonestEntry(k, ledger[c][k]))'
    <2> SUFFICES ASSUME NEW c \in Coordinators, NEW k \in Keys
                 PROVE  HonestEntry(k, ledger[c][k])'
        OBVIOUS
    <2>1. ledger[c][k] \in Entries /\ HonestEntry(k, ledger[c][k])
        BY DEF IInv, TypeOK
    <2>2. \A e \in Entries : HonestEntry(k, e) => HonestEntry(k, e)'
        BY MetersRunning
    <2> QED BY <1>1, <2>1, <2>2
<1>6. (\A k \in Keys : HonestEntry(k, store[k]))'
    <2> SUFFICES ASSUME NEW k \in Keys
                 PROVE  HonestEntry(k, store[k])'
        OBVIOUS
    <2>1. store[k] \in Entries /\ HonestEntry(k, store[k])
        BY DEF IInv, TypeOK
    <2> QED BY <1>1, <2>1, MetersRunning
<1> QED BY <1>2, <1>4, <1>5, <1>6, MetersRunning DEF IInv

\* Every other action leaves the meters alone, and needs only to account for the
\* samples, the ledgers and the snapshot it leaves behind.
LEMMA StillIInv ==
    ASSUME IInv, now' = now, cum' = cum, TypeOK',
           \A c \in Coordinators, i \in Slots : \A s \in polls'[c][i].samples : HonestSample(s),
           \A c \in Coordinators, k \in Keys : HonestEntry(k, ledger'[c][k]),
           \A k \in Keys : HonestEntry(k, store'[k])
    PROVE  IInv'
<1>1. MetersRunForwards'
    BY MetersStill DEF IInv
<1>2. (\A c \in Coordinators, i \in Slots : \A s \in polls[c][i].samples : HonestSample(s))'
    BY DEF HonestSample, Metered
<1>3. (\A c \in Coordinators, k \in Keys : HonestEntry(k, ledger[c][k]))'
    BY DEF HonestEntry, Metered
<1>4. (\A k \in Keys : HonestEntry(k, store[k]))'
    BY DEF HonestEntry, Metered
<1> QED BY <1>1, <1>2, <1>3, <1>4 DEF IInv

LEMMA UnseenFacts ==
    /\ Unseen \in Entries
    /\ EmptyLedger \in [Keys -> Entries]
    /\ \A k \in Keys : HonestEntry(k, EmptyLedger[k])
    /\ IdlePoll \in Polls /\ IdlePoll.samples = {}
BY DEF Unseen, Entries, EmptyLedger, HonestEntry, IdlePoll, Polls

\* The life of the config entry: snapshots are copied whole, never edited.
LEMMA LifeIInv ==
    ASSUME IInv, NEW c \in Coordinators,
           Crash \/ Remove \/ Setup(c) \/ Shutdown(c) \/ DelayedSave(c)
    PROVE  IInv'
<1> USE DEF IInv, TypeOK
<1>1. CASE Crash
    BY <1>1, UnseenFacts, StillIInv DEF Crash
<1>2. CASE Remove
    BY <1>2, UnseenFacts, StillIInv DEF Remove
<1>3. CASE Setup(c)
    <2>1. \A d \in Coordinators : ledger'[d] = IF d = c THEN store ELSE ledger[d]
        BY <1>3 DEF Setup
    <2> QED BY <1>3, <2>1, StillIInv DEF Setup
<1>4. CASE Shutdown(c)
    BY <1>4, StillIInv DEF Shutdown
<1>5. CASE DelayedSave(c)
    BY <1>5, StillIInv DEF DelayedSave
<1> QED BY <1>1, <1>2, <1>3, <1>4, <1>5

LEMMA adoptIInv ==
    ASSUME IInv, NEW c \in Coordinators, NEW k \in Keys, NEW total \in Seeds,
           adopt(c, k, total)
    PROVE  IInv'
<1> DEFINE n == [Unseen EXCEPT !.known = TRUE, !.total = total]
<1>0. total \in Nat
    BY MeterAssumption
<1>1. n \in Entries /\ HonestEntry(k, n)
    <2>1. n \in Entries /\ n.marked = Unseen.marked
        BY <1>0, UnseenFacts DEF Entries
    <2>2. ~n.marked
        BY <2>1 DEF Unseen
    <2> QED BY <2>1, <2>2 DEF HonestEntry
<1>2. ledger' = [ledger EXCEPT ![c][k] = n]
    BY DEF adopt
<1>3. UNCHANGED <<now, cum, phase, saving, polls, store, removed>>
    BY DEF adopt
<1> HIDE DEF n
<1>4. \A d \in Coordinators, j \in Keys :
        ledger'[d][j] = IF d = c /\ j = k THEN n ELSE ledger[d][j]
    BY <1>2 DEF IInv, TypeOK
<1>5. ledger' \in [Coordinators -> [Keys -> Entries]]
    BY <1>1, <1>2 DEF IInv, TypeOK
<1> QED BY <1>1, <1>3, <1>4, <1>5, StillIInv DEF IInv, TypeOK

\* A step of one poll that leaves ledgers and store alone.
LEMMA PollIInv ==
    ASSUME IInv, NEW c \in Coordinators, NEW i \in Slots,
           NEW q \in Polls, \A s \in q.samples : HonestSample(s),
           polls' = [polls EXCEPT ![c][i] = q],
           saving' \in SUBSET Coordinators,
           UNCHANGED <<now, cum, phase, ledger, store, removed>>
    PROVE  IInv'
<1>1. \A d \in Coordinators, j \in Slots :
        polls'[d][j] = IF d = c /\ j = i THEN q ELSE polls[d][j]
    BY DEF IInv, TypeOK
<1>2. polls' \in [Coordinators -> [Slots -> Polls]]
    BY DEF IInv, TypeOK
<1> QED BY <1>1, <1>2, StillIInv DEF IInv, TypeOK

LEMMA PollStartIInv ==
    ASSUME IInv, NEW c \in Coordinators, NEW i \in Slots, PollStart(c, i)
    PROVE  IInv'
<1>1. PICK m \in {0} \cup MarkEnds(ledger[c]) :
        polls' = [polls EXCEPT ![c][i] = [IdlePoll EXCEPT !.phase = "queued", !.cursor = m]]
    BY DEF PollStart
<1>2. m \in Int
    BY <1>1 DEF IInv, TypeOK, MarkEnds, Entries
<1> DEFINE q == [IdlePoll EXCEPT !.phase = "queued", !.cursor = m]
<1>3. q \in Polls /\ q.samples = {}
    BY <1>2, UnseenFacts DEF Polls
<1>4. polls' = [polls EXCEPT ![c][i] = q] /\ saving' \in SUBSET Coordinators
    BY <1>1 DEF PollStart, IInv, TypeOK
<1>5. UNCHANGED <<now, cum, phase, ledger, store, removed>>
    BY DEF PollStart
<1> HIDE DEF q
<1> QED BY <1>3, <1>4, <1>5, PollIInv

LEMMA PollPlanIInv ==
    ASSUME IInv, NEW c \in Coordinators, NEW i \in Slots, PollPlan(c, i)
    PROVE  IInv'
<1> DEFINE p == polls[c][i]
           plan == plan_windows(now, p.cursor)
           q == [p EXCEPT !.phase = "asking", !.todo = plan]
<1>1. p \in Polls /\ \A s \in p.samples : HonestSample(s)
    BY DEF IInv, TypeOK
<1>2. plan \subseteq Windows
    BY <1>1, PlanType DEF IInv, TypeOK, Polls
<1>3. polls' = [polls EXCEPT ![c][i] = q] /\ saving' \in SUBSET Coordinators
    BY DEF PollPlan, IInv, TypeOK
<1>4. UNCHANGED <<now, cum, phase, ledger, store, removed>>
    BY DEF PollPlan
<1>5. q \in Polls /\ q.samples = p.samples
    <2> HIDE DEF p, plan
    <2> QED BY <1>1, <1>2 DEF Polls
<1> HIDE DEF p, q
<1> QED BY <1>1, <1>3, <1>4, <1>5, PollIInv

LEMMA PollCallIInv ==
    ASSUME IInv, NEW c \in Coordinators, NEW i \in Slots, PollCall(c, i)
    PROVE  IInv'
<1> DEFINE p == polls[c][i]
<1>1. p \in Polls /\ \A s \in p.samples : HonestSample(s)
    BY DEF IInv, TypeOK
<1>2. PICK w \in p.todo, horizon \in (now - MaxLag)..now, keys \in SUBSET Keys :
        polls' = [polls EXCEPT ![c][i] =
              [p EXCEPT !.phase = IF p.todo = {w} THEN "answered" ELSE "asking",
                        !.todo = p.todo \ {w},
                        !.samples = p.samples \cup Answer(w, keys, horizon)]]
    BY DEF PollCall
<1> DEFINE q == [p EXCEPT !.phase = IF p.todo = {w} THEN "answered" ELSE "asking",
                          !.todo = p.todo \ {w},
                          !.samples = p.samples \cup Answer(w, keys, horizon)]
<1>3. w \in Windows /\ horizon \in Int /\ w.step \in Nat
    BY <1>1, <1>2, ResolutionAssumption, MeterAssumption DEF Polls, Windows, IInv, TypeOK
<1>4. \A s \in Answer(w, keys, horizon) : s \in Samples /\ HonestSample(s)
    <2> SUFFICES ASSUME NEW k \in keys, NEW s \in BucketStarts(w)
                 PROVE  /\ Bucket(k, s, w.step, horizon) \in Samples
                        /\ HonestSample(Bucket(k, s, w.step, horizon))
        BY DEF Answer
    <2>1. s \in Int
        BY <1>3 DEF BucketStarts, Windows
    <2> QED BY <1>2, <1>3, <2>1, BucketHonest DEF IInv
<1>5. q \in Polls /\ q.samples = p.samples \cup Answer(w, keys, horizon)
    <2> DEFINE f == IF p.todo = {w} THEN "answered" ELSE "asking"
               t == p.todo \ {w}
               a == p.samples \cup Answer(w, keys, horizon)
               r == [p EXCEPT !.phase = f, !.todo = t, !.samples = a]
    <2>1. f \in {"idle", "queued", "asking", "answered", "folding"}
        OBVIOUS
    <2>2. t \in SUBSET Windows /\ a \in SUBSET Samples
        <3> HIDE DEF p
        <3> QED BY <1>1, <1>4 DEF Polls
    <2>3. r \in Polls /\ r.samples = a
        <3>1. p \in Polls
            BY <1>1
        <3> HIDE DEF p, f, t, a
        <3> QED BY <3>1, <2>1, <2>2 DEF Polls
    <2> QED BY <2>3
<1>6. \A s \in q.samples : HonestSample(s)
    BY <1>1, <1>4, <1>5
<1>7. /\ polls' = [polls EXCEPT ![c][i] = q] /\ saving' \in SUBSET Coordinators
      /\ UNCHANGED <<now, cum, phase, ledger, store, removed>>
    BY <1>2 DEF PollCall, IInv, TypeOK
<1> HIDE DEF p, q
<1> QED BY <1>5, <1>6, <1>7, PollIInv

LEMMA PollFailIInv ==
    ASSUME IInv, NEW c \in Coordinators, NEW i \in Slots, PollFail(c, i)
    PROVE  IInv'
BY UnseenFacts, PollIInv DEF PollFail, IInv, TypeOK

LEMMA ApplyBeginIInv ==
    ASSUME IInv, NEW c \in Coordinators, NEW i \in Slots, ApplyBegin(c, i)
    PROVE  IInv'
<1> DEFINE q == [polls[c][i] EXCEPT !.phase = "folding"]
<1>1. polls[c][i] \in Polls /\ \A s \in polls[c][i].samples : HonestSample(s)
    BY DEF IInv, TypeOK
<1>2. q \in Polls /\ q.samples = polls[c][i].samples
    BY <1>1 DEF Polls
<1>3. /\ polls' = [polls EXCEPT ![c][i] = q] /\ saving' \in SUBSET Coordinators
      /\ UNCHANGED <<now, cum, phase, ledger, store, removed>>
    BY DEF ApplyBegin, IInv, TypeOK
<1> HIDE DEF q
<1> QED BY <1>1, <1>2, <1>3, PollIInv

LEMMA ApplyEndIInv ==
    ASSUME IInv, NEW c \in Coordinators, NEW i \in Slots, ApplyEnd(c, i)
    PROVE  IInv'
BY UnseenFacts, PollIInv DEF ApplyEnd, IInv, TypeOK

\* A step of the fold: one entry of the owner is replaced, some samples are used.
LEMMA FoldIInv ==
    ASSUME IInv, NEW c \in Coordinators, NEW i \in Slots, NEW k \in Keys,
           NEW n \in Entries, HonestEntry(k, n),
           NEW q \in Polls, q.samples \subseteq polls[c][i].samples,
           ledger' = [ledger EXCEPT ![c][k] = n],
           polls' = [polls EXCEPT ![c][i] = q],
           UNCHANGED <<now, cum, phase, saving, store, removed>>
    PROVE  IInv'
<1>1. \A d \in Coordinators, j \in Slots :
        polls'[d][j] = IF d = c /\ j = i THEN q ELSE polls[d][j]
    BY DEF IInv, TypeOK
<1>2. \A d \in Coordinators, j \in Keys :
        ledger'[d][j] = IF d = c /\ j = k THEN n ELSE ledger[d][j]
    BY DEF IInv, TypeOK
<1>3. TypeOK'
    BY DEF IInv, TypeOK
<1>4. \A d \in Coordinators, j \in Slots : \A s \in polls'[d][j].samples : HonestSample(s)
    BY <1>1 DEF IInv
<1>5. \A d \in Coordinators, j \in Keys : HonestEntry(j, ledger'[d][j])
    BY <1>2 DEF IInv
<1>6. \A j \in Keys : HonestEntry(j, store'[j])
    BY DEF IInv
<1> QED BY <1>3, <1>4, <1>5, <1>6, StillIInv

LEMMA ApplyPrimeIInv ==
    ASSUME IInv, NEW c \in Coordinators, NEW i \in Slots, ApplyPrime(c, i)
    PROVE  /\ IInv'
           /\ \E k \in Keys, n \in Entries :
                /\ ledger' = [ledger EXCEPT ![c][k] = n]
                /\ ~ledger[c][k].marked /\ n.known /\ n.total = ledger[c][k].total
<1> DEFINE p == polls[c][i]
<1>1. PICK s \in p.samples :
        /\ ~ledger[c][s.key].marked
        /\ ledger' = [ledger EXCEPT ![c][s.key] = prime(ledger[c][s.key], s)]
        /\ polls' = [polls EXCEPT ![c][i] =
             [p EXCEPT !.samples = {o \in p.samples : o.key # s.key}, !.changed = TRUE]]
    BY DEF ApplyPrime
<1>2. p \in Polls /\ s \in Samples /\ HonestSample(s) /\ s.key \in Keys
    BY <1>1 DEF IInv, TypeOK, Polls, Samples
<1> DEFINE k == s.key
           e == ledger[c][k]
           n == prime(e, s)
           rest == {o \in p.samples : o.key # k}
           q == [p EXCEPT !.samples = rest, !.changed = TRUE]
<1>3. e \in Entries
    BY <1>2 DEF IInv, TypeOK
<1>4. n \in Entries /\ HonestEntry(k, n) /\ n.known /\ n.total = e.total
    <2> HIDE DEF e
    <2> QED BY <1>2, <1>3, PrimeHonest DEF IInv
<1>5. q \in Polls /\ q.samples = rest /\ rest \subseteq p.samples
    <2>1. rest \subseteq p.samples
        OBVIOUS
    <2> HIDE DEF p, rest
    <2> QED BY <1>2, <2>1 DEF Polls
<1>6. /\ ledger' = [ledger EXCEPT ![c][k] = n]
      /\ polls' = [polls EXCEPT ![c][i] = q]
      /\ UNCHANGED <<now, cum, phase, saving, store, removed>>
    BY <1>1 DEF ApplyPrime
<1>7. ~e.marked
    BY <1>1
<1> HIDE DEF n, q, rest
<1>8. IInv'
    BY <1>2, <1>4, <1>5, <1>6, FoldIInv
<1> QED BY <1>2, <1>4, <1>6, <1>7, <1>8

LEMMA ApplyAdvanceIInv ==
    ASSUME IInv, NEW c \in Coordinators, NEW i \in Slots, ApplyAdvance(c, i)
    PROVE  /\ IInv'
           /\ \E k \in Keys, n \in Entries :
                /\ ledger' = [ledger EXCEPT ![c][k] = n]
                /\ n.known /\ n.marked
                /\ n.total >= ledger[c][k].total /\ n.end >= ledger[c][k].end
<1> DEFINE p == polls[c][i]
<1>1. PICK s \in p.samples :
        /\ ledger[c][s.key].marked
        /\ ledger' = [ledger EXCEPT ![c][s.key] = _advance(ledger[c][s.key], s)]
        /\ polls' = [polls EXCEPT ![c][i] =
             [p EXCEPT !.samples = p.samples \ {s},
                       !.changed = p.changed \/ Moved(ledger[c][s.key], s)]]
    BY DEF ApplyAdvance
<1>2. p \in Polls /\ s \in Samples /\ HonestSample(s) /\ s.key \in Keys
    BY <1>1 DEF IInv, TypeOK, Polls, Samples
<1> DEFINE k == s.key
           e == ledger[c][k]
           n == _advance(e, s)
           rest == p.samples \ {s}
           moved == p.changed \/ Moved(e, s)
           q == [p EXCEPT !.samples = rest, !.changed = moved]
<1>3. e \in Entries /\ HonestEntry(k, e) /\ e.marked
    BY <1>1, <1>2 DEF IInv, TypeOK
<1>4. /\ n \in Entries /\ HonestEntry(k, n)
      /\ n.known /\ n.marked /\ n.total >= e.total /\ n.end >= e.end
    <2> HIDE DEF e
    <2> QED BY <1>2, <1>3, AdvanceHonest DEF IInv
<1>5. q \in Polls /\ q.samples = rest /\ rest \subseteq p.samples
    <2>1. rest \subseteq p.samples /\ moved \in BOOLEAN
        OBVIOUS
    <2> HIDE DEF p, rest, moved
    <2> QED BY <1>2, <2>1 DEF Polls
<1>6. /\ ledger' = [ledger EXCEPT ![c][k] = n]
      /\ polls' = [polls EXCEPT ![c][i] = q]
      /\ UNCHANGED <<now, cum, phase, saving, store, removed>>
    BY <1>1 DEF ApplyAdvance
<1> HIDE DEF n, q, rest
<1>7. IInv'
    BY <1>2, <1>4, <1>5, <1>6, FoldIInv
<1> QED BY <1>2, <1>4, <1>6, <1>7

-----------------------------------------------------------------------------
(* The theorems *)

\* The invariant that EnergyLedger's properties rest on holds in every state, for
\* every size of the system: one lemma per action.
THEOREM LedgerInvariant == Spec => []IInv
<1>1. Init => IInv
    BY InitIInv
<1>2. IInv /\ [Next]_vars => IInv'
    <2> SUFFICES ASSUME IInv, [Next]_vars
                 PROVE  IInv'
        OBVIOUS
    <2>1. CASE MeterTick
        BY <2>1, MeterTickIInv
    <2>2. CASE Crash \/ Remove
        <3>1. PICK c \in Coordinators : TRUE
            BY <2>2 DEF Crash, Remove
        <3> QED BY <2>2, <3>1, LifeIInv
    <2>3. ASSUME NEW c \in Coordinators,
                 Setup(c) \/ Shutdown(c) \/ DelayedSave(c)
          PROVE  IInv'
        BY <2>3, LifeIInv
    <2>4. ASSUME NEW c \in Coordinators, NEW k \in Keys, NEW total \in Seeds,
                 adopt(c, k, total)
          PROVE  IInv'
        BY <2>4, adoptIInv
    <2>5. ASSUME NEW c \in Coordinators, NEW i \in Slots, Poll(c, i)
          PROVE  IInv'
        BY <2>5, PollStartIInv, PollPlanIInv, PollCallIInv, PollFailIInv, ApplyBeginIInv,
           ApplyPrimeIInv, ApplyAdvanceIInv, ApplyEndIInv DEF Poll
    <2>6. CASE UNCHANGED vars
        BY <2>6, StillIInv DEF vars, IInv, TypeOK
    <2> QED BY <2>1, <2>2, <2>3, <2>4, <2>5, <2>6 DEF Next
<1> QED BY <1>1, <1>2, PTL DEF Spec

\* Every variable keeps its type.
THEOREM TypeCorrect == Spec => []TypeOK
<1>1. IInv => TypeOK
    BY DEF IInv
<1> QED BY <1>1, LedgerInvariant, PTL

\* No ledger and no snapshot ever books energy twice: what a key has booked since
\* it was primed is at most what its meter ran by the end of its mark.
THEOREM CountsOnce == Spec => []NoDoubleCount
<1>1. ASSUME TypeOK, MetersRunForwards,
             NEW k \in Keys, NEW e \in Entries, HonestEntry(k, e)
      PROVE  BookedWasMetered(k, e)
    <2> SUFFICES ASSUME e.marked
                 PROVE  e.total + e.origin <= Metered(k, e.end)
        BY DEF BookedWasMetered
    <2>1. /\ e.total \in Nat /\ e.start \in Int /\ e.end \in Int
          /\ e.counted \in Nat /\ e.origin \in Int
        BY DEF Entries
    <2>2. Metered(k, e.start) \in Nat /\ Metered(k, e.end) \in Nat
        BY <1>1, <2>1, MeteredType
    <2> QED BY <1>1, <2>1, <2>2 DEF HonestEntry
<1>2. IInv => NoDoubleCount
    BY <1>1 DEF IInv, TypeOK, NoDoubleCount
<1> QED BY <1>2, LedgerInvariant, PTL

\* No total falls and no mark moves back while the coordinator's memory lasts, in
\* whatever order overlapping polls are folded in.
THEOREM TotalsNeverRewind == Spec => NeverRewinds
<1>1. IInv /\ [Next]_vars => [NoRewind]_vars
    <2> SUFFICES ASSUME IInv, Next
                 PROVE  NoRewind
        OBVIOUS
    <2>0. \A d \in Coordinators, j \in Keys : KeepsGoing(ledger[d][j], ledger[d][j])
        BY DEF KeepsGoing, IInv, TypeOK, Entries
    <2>1. CASE ledger' = ledger
        BY <2>0, <2>1 DEF NoRewind
    <2>2. CASE Crash
        BY <2>2 DEF Crash, NoRewind, IInv, TypeOK
    <2>3. ASSUME NEW c \in Coordinators, NEW k \in Keys, NEW n,
                 ledger' = [ledger EXCEPT ![c][k] = n],
                 KeepsGoing(ledger[c][k], n)
          PROVE  NoRewind
        <3>1. \A d \in Coordinators, j \in Keys :
                ledger'[d][j] = IF d = c /\ j = k THEN n ELSE ledger[d][j]
            BY <2>3 DEF IInv, TypeOK
        <3> QED BY <2>0, <2>3, <3>1 DEF NoRewind
    <2>4. ASSUME NEW c \in Coordinators, Setup(c)
          PROVE  NoRewind
        <3>1. phase[c] = "new" /\ \A d \in Coordinators \ {c} : ledger'[d] = ledger[d]
            BY <2>4 DEF Setup, IInv, TypeOK
        <3> QED BY <2>0, <3>1 DEF NoRewind
    <2>5. ASSUME NEW c \in Coordinators, NEW k \in Keys, NEW total \in Seeds,
                 adopt(c, k, total)
          PROVE  NoRewind
        <3>1. KeepsGoing(ledger[c][k], [Unseen EXCEPT !.known = TRUE, !.total = total])
            BY <2>5 DEF adopt, KeepsGoing
        <3> QED BY <2>3, <2>5, <3>1 DEF adopt
    <2>6. ASSUME NEW c \in Coordinators, NEW i \in Slots, ApplyPrime(c, i)
          PROVE  NoRewind
        <3>1. PICK k \in Keys, n \in Entries :
                /\ ledger' = [ledger EXCEPT ![c][k] = n]
                /\ ~ledger[c][k].marked /\ n.known /\ n.total = ledger[c][k].total
            BY <2>6, ApplyPrimeIInv
        <3>2. KeepsGoing(ledger[c][k], n)
            BY <3>1 DEF KeepsGoing, Entries
        <3> QED BY <2>3, <3>1, <3>2
    <2>7. ASSUME NEW c \in Coordinators, NEW i \in Slots, ApplyAdvance(c, i)
          PROVE  NoRewind
        <3>1. PICK k \in Keys, n \in Entries :
                /\ ledger' = [ledger EXCEPT ![c][k] = n]
                /\ n.known /\ n.marked
                /\ n.total >= ledger[c][k].total /\ n.end >= ledger[c][k].end
            BY <2>7, ApplyAdvanceIInv
        <3>2. KeepsGoing(ledger[c][k], n)
            BY <3>1 DEF KeepsGoing
        <3> QED BY <2>3, <3>1, <3>2
    <2>8. ASSUME NEW c \in Coordinators, NEW i \in Slots, Poll(c, i)
          PROVE  NoRewind
        <3>1. \/ ledger' = ledger
              \/ ApplyPrime(c, i) \/ ApplyAdvance(c, i)
            BY <2>8 DEF Poll, PollStart, PollPlan, PollCall, PollFail, ApplyBegin, ApplyEnd
        <3> QED BY <2>1, <2>6, <2>7, <3>1
    <2>9. ASSUME NEW c \in Coordinators, Shutdown(c) \/ DelayedSave(c)
          PROVE  NoRewind
        BY <2>1, <2>9 DEF Shutdown, DelayedSave
    <2>10. CASE MeterTick \/ Remove
        BY <2>1, <2>10 DEF MeterTick, Remove
    <2> QED BY <2>2, <2>4, <2>5, <2>8, <2>9, <2>10 DEF Next
<1> QED BY <1>1, LedgerInvariant, PTL DEF Spec, NeverRewinds

-----------------------------------------------------------------------------
(* EnergyLedger implements MeteredTotal *)

\* An honest entry is a register backed by its meter.
LEMMA HonestIsBacked ==
    ASSUME TypeOK, MetersRunForwards,
           NEW k \in Keys, NEW e \in Entries, HonestEntry(k, e)
    PROVE  Abstract!Backed(k, Register(e))
<1> SUFFICES ASSUME e.marked
             PROVE  e.total + e.origin <= Metered(k, now)
    BY DEF Abstract!Backed, Register, MeterNow
<1>1. /\ e.total \in Nat /\ e.start \in Int /\ e.end \in Int
      /\ e.counted \in Nat /\ e.origin \in Int
    BY DEF Entries
<1>2. now \in Int
    BY DEF TypeOK
<1>3. /\ Metered(k, e.start) \in Nat /\ Metered(k, e.end) \in Nat /\ Metered(k, now) \in Nat
    BY <1>1, <1>2, MeteredType
<1>4. Metered(k, e.end) <= Metered(k, now)
    <2>1. CASE e.end <= now
        BY <1>1, <1>2, <2>1, MeteredMonotone
    <2>2. CASE e.end > now
        BY <1>1, <1>2, <2>2 DEF Metered, TypeOK
    <2> QED BY <1>1, <1>2, <2>1, <2>2
<1> QED BY <1>1, <1>3, <1>4 DEF HonestEntry

LEMMA InitRefines == Init => Abstract!Init
<1> SUFFICES ASSUME Init PROVE Abstract!Init
    OBVIOUS
<1>1. MeterNow = [k \in Keys |-> 0]
    BY MeterAssumption DEF Init, MeterNow, Metered
<1>2. Register(Unseen) = Abstract!Empty
    BY DEF Register, Unseen, Abstract!Empty
<1>3. InMemory = [c \in Coordinators |-> Abstract!Blank]
    BY <1>2 DEF Init, InMemory, EmptyLedger, Abstract!Blank
<1>4. OnDisk = Abstract!Blank
    BY <1>2 DEF Init, OnDisk, EmptyLedger, Abstract!Blank
<1> QED BY <1>1, <1>3, <1>4 DEF Abstract!Init

LEMMA InitFresh == Init => FreshLoads
BY DEF Init, FreshLoads, IdlePoll

LEMMA NextFresh ==
    ASSUME IInv, FreshLoads, [Next]_vars
    PROVE  FreshLoads'
<1>1. CASE UNCHANGED vars
    BY <1>1 DEF vars, FreshLoads
<1>2. CASE MeterTick \/ Remove
    BY <1>2 DEF MeterTick, Remove, FreshLoads
<1>3. CASE Crash
    BY <1>3 DEF Crash, FreshLoads, IdlePoll, IInv, TypeOK
<1>4. ASSUME NEW c \in Coordinators, Setup(c) \/ Shutdown(c) \/ DelayedSave(c)
      PROVE  FreshLoads'
    BY <1>4 DEF Setup, Shutdown, DelayedSave, FreshLoads, IInv, TypeOK
<1>5. ASSUME NEW c \in Coordinators, NEW k \in Keys, NEW total \in Seeds, adopt(c, k, total)
      PROVE  FreshLoads'
    BY <1>5 DEF adopt, FreshLoads, IInv, TypeOK
<1>6. ASSUME NEW c \in Coordinators, NEW i \in Slots, Poll(c, i)
      PROVE  FreshLoads'
    <2>1. phase[c] # "new" /\ phase' = phase
        BY <1>6 DEF Poll, PollStart, PollPlan, PollCall, PollFail, ApplyBegin, ApplyPrime,
                    ApplyAdvance, ApplyEnd, FreshLoads
    <2>2. \A d \in Coordinators \ {c} : polls'[d] = polls[d]
        BY <1>6 DEF Poll, PollStart, PollPlan, PollCall, PollFail, ApplyBegin, ApplyPrime,
                    ApplyAdvance, ApplyEnd, IInv, TypeOK
    <2>3. \A d \in Coordinators \ {c} : ledger'[d] = ledger[d]
        BY <1>6 DEF Poll, PollStart, PollPlan, PollCall, PollFail, ApplyBegin, ApplyPrime,
                    ApplyAdvance, ApplyEnd, IInv, TypeOK
    <2> QED BY <2>1, <2>2, <2>3 DEF FreshLoads
<1> QED BY <1>1, <1>2, <1>3, <1>4, <1>5, <1>6 DEF Next

\* While the meters stand still, the abstract state follows ledger and store.
LEMMA ShownStill ==
    ASSUME now' = now, cum' = cum
    PROVE  /\ MeterNow' = MeterNow
           /\ ledger' = ledger => InMemory' = InMemory
           /\ store' = store => OnDisk' = OnDisk
BY DEF MeterNow, Metered, InMemory, OnDisk, Register

\* One entry of one ledger replaced is one register rewritten.
LEMMA OneRewritten ==
    ASSUME IInv, IInv', UNCHANGED <<now, cum, store>>,
           NEW c \in Coordinators, NEW k \in Keys, NEW n \in Entries,
           ledger' = [ledger EXCEPT ![c][k] = n]
    PROVE  /\ Abstract!Rewrites(c, k)
           /\ InMemory[c][k] = Register(ledger[c][k])
           /\ InMemory'[c][k] = Register(n)
<1>1. \A d \in Coordinators, j \in Keys :
        ledger'[d][j] = IF d = c /\ j = k THEN n ELSE ledger[d][j]
    BY DEF IInv, TypeOK
<1>2. ledger'[c][k] = n
    BY <1>1
<1>3. /\ InMemory[c][k] = Register(ledger[c][k])
      /\ InMemory'[c][k] = Register(n)
    BY <1>2 DEF InMemory, Register
<1>4. InMemory' = [InMemory EXCEPT ![c][k] = InMemory'[c][k]]
    <2>1. \A d \in Coordinators, j \in Keys :
            InMemory'[d][j] = IF d = c /\ j = k THEN Register(n) ELSE InMemory[d][j]
        BY <1>1 DEF InMemory, Register
    <2>2. /\ InMemory = [d \in Coordinators |-> [j \in Keys |-> InMemory[d][j]]]
          /\ InMemory' = [d \in Coordinators |-> [j \in Keys |-> InMemory'[d][j]]]
        BY DEF InMemory
    <2> DEFINE r == InMemory'[c][k]
               new == [InMemory EXCEPT ![c][k] = r]
    <2>3. r = Register(n)
        BY <1>3
    <2> HIDE DEF r
    <2>4. new = [d \in Coordinators |-> [j \in Keys |->
                   IF d = c /\ j = k THEN Register(n) ELSE InMemory[d][j]]]
        BY <2>2, <2>3
    <2>5. InMemory' = [d \in Coordinators |-> [j \in Keys |->
                   IF d = c /\ j = k THEN Register(n) ELSE InMemory[d][j]]]
        BY <2>1, <2>2
    <2> QED BY <2>4, <2>5 DEF r
<1>5. Abstract!Backed(k, InMemory'[c][k])
    <2>1. HonestEntry(k, n)
        <3>1. HonestEntry(k, n)'
            BY <1>2 DEF IInv
        <3> QED BY <3>1 DEF HonestEntry, Metered
    <2>2. Abstract!Backed(k, Register(n))
        BY <2>1, HonestIsBacked DEF IInv
    <2> QED BY <1>3, <2>2
<1>6. MeterNow' = MeterNow /\ OnDisk' = OnDisk
    BY ShownStill
<1> QED BY <1>3, <1>4, <1>5, <1>6 DEF Abstract!Rewrites

LEMMA adoptRefines ==
    ASSUME IInv, IInv', NEW c \in Coordinators, NEW k \in Keys, NEW total \in Seeds,
           adopt(c, k, total)
    PROVE  Abstract!Adopt(c, k)
<1> DEFINE n == [Unseen EXCEPT !.known = TRUE, !.total = total]
<1>0. total \in Nat /\ ~Unseen.marked /\ Unseen.origin = 0
    BY MeterAssumption DEF Unseen
<1>1. /\ n \in Entries /\ n.known /\ n.marked = Unseen.marked
      /\ n.total = total /\ n.origin = Unseen.origin
    BY <1>0, UnseenFacts DEF Entries
<1>2. Register(n) = [known |-> TRUE, metered |-> FALSE, total |-> total, base |-> 0]
    <2> HIDE DEF n
    <2>1. n.marked = FALSE /\ n.known = TRUE
        BY <1>0, <1>1 DEF Entries
    <2> QED BY <1>0, <1>1, <2>1 DEF Register
<1>3. ~ledger[c][k].known /\ ledger' = [ledger EXCEPT ![c][k] = n]
    BY DEF adopt
<1>4. UNCHANGED <<now, cum, store>>
    BY DEF adopt
<1> HIDE DEF n
<1>5. /\ Abstract!Rewrites(c, k)
      /\ InMemory[c][k] = Register(ledger[c][k])
      /\ InMemory'[c][k] = Register(n)
    BY <1>1, <1>3, <1>4, OneRewritten
<1>6. ~InMemory[c][k].known
    BY <1>3, <1>5 DEF Register
<1> QED BY <1>2, <1>5, <1>6 DEF Abstract!Adopt

LEMMA ApplyPrimeRefines ==
    ASSUME IInv, IInv', NEW c \in Coordinators, NEW i \in Slots, ApplyPrime(c, i)
    PROVE  \E k \in Keys : Abstract!TakeBase(c, k)
<1>1. PICK s \in polls[c][i].samples :
        /\ ~ledger[c][s.key].marked
        /\ ledger' = [ledger EXCEPT ![c][s.key] = prime(ledger[c][s.key], s)]
    BY DEF ApplyPrime
<1> DEFINE k == s.key
           e == ledger[c][k]
           n == prime(e, s)
<1>2. s \in Samples /\ HonestSample(s) /\ k \in Keys /\ e \in Entries
    BY <1>1 DEF IInv, TypeOK, Polls, Samples
<1>3. n \in Entries /\ n.known /\ n.total = e.total
    <2> HIDE DEF e
    <2> QED BY <1>2, PrimeHonest DEF IInv
<1>4. n.marked
    <2> HIDE DEF e
    <2> QED BY <1>2 DEF prime, Entries
<1>5. UNCHANGED <<now, cum, store>>
    BY DEF ApplyPrime
<1>6. ~e.marked /\ ledger' = [ledger EXCEPT ![c][k] = n]
    BY <1>1
<1> HIDE DEF n
<1>7. /\ Abstract!Rewrites(c, k)
      /\ InMemory[c][k] = Register(e)
      /\ InMemory'[c][k] = Register(n)
    <2> HIDE DEF k
    <2> QED BY <1>2, <1>3, <1>5, <1>6, OneRewritten DEF e
<1> HIDE DEF e
<1>8. Abstract!TakeBase(c, k)
    BY <1>3, <1>4, <1>6, <1>7 DEF Abstract!TakeBase, Register
<1> QED BY <1>2, <1>8

\* A bucket either changes the entry's total and mark, or nothing at all, and its
\* base never.
LEMMA ApplyAdvanceRefines ==
    ASSUME IInv, IInv', NEW c \in Coordinators, NEW i \in Slots, ApplyAdvance(c, i)
    PROVE  \E k \in Keys : Abstract!Book(c, k)
<1>1. PICK s \in polls[c][i].samples :
        /\ ledger[c][s.key].marked
        /\ ledger' = [ledger EXCEPT ![c][s.key] = _advance(ledger[c][s.key], s)]
    BY DEF ApplyAdvance
<1> DEFINE k == s.key
           e == ledger[c][k]
           n == _advance(e, s)
<1>2. s \in Samples /\ HonestSample(s) /\ k \in Keys /\ e \in Entries /\ HonestEntry(k, e)
    BY <1>1 DEF IInv, TypeOK, Polls, Samples
<1>3. n \in Entries /\ n.known /\ n.marked /\ n.total >= e.total
    <2> HIDE DEF e
    <2> QED BY <1>1, <1>2, AdvanceHonest DEF IInv, e
<1>4. n.origin = e.origin
    <2> HIDE DEF e
    <2> QED BY <1>2 DEF _advance, Entries
<1>5. UNCHANGED <<now, cum, store>>
    BY DEF ApplyAdvance
<1>6. e.marked /\ ledger' = [ledger EXCEPT ![c][k] = n]
    BY <1>1
<1> HIDE DEF n
<1>7. /\ Abstract!Rewrites(c, k)
      /\ InMemory[c][k] = Register(e)
      /\ InMemory'[c][k] = Register(n)
    <2> HIDE DEF k
    <2> QED BY <1>2, <1>3, <1>5, <1>6, OneRewritten DEF e
<1> HIDE DEF e
<1>8. Abstract!Book(c, k)
    BY <1>3, <1>4, <1>6, <1>7 DEF Abstract!Book, Register
<1> QED BY <1>2, <1>8

LEMMA SetupRefines ==
    ASSUME IInv, FreshLoads, NEW c \in Coordinators, Setup(c)
    PROVE  Abstract!Load(c)
<1>1. ledger[c] = EmptyLedger
    BY DEF Setup, FreshLoads
<1>2. InMemory[c] = Abstract!Blank
    <2>1. InMemory[c] = [k \in Keys |-> Register(Unseen)]
        BY <1>1 DEF InMemory, EmptyLedger, Register
    <2>2. Register(Unseen) = Abstract!Empty
        BY DEF Register, Unseen, Abstract!Empty
    <2> QED BY <2>1, <2>2 DEF Abstract!Blank
<1>3. \A d \in Coordinators : ledger'[d] = IF d = c THEN store ELSE ledger[d]
    BY DEF Setup, IInv, TypeOK
<1>4. InMemory' = [InMemory EXCEPT ![c] = OnDisk]
    BY <1>3 DEF InMemory, OnDisk, Register
<1>5. MeterNow' = MeterNow /\ OnDisk' = OnDisk
    BY ShownStill DEF Setup
<1> QED BY <1>2, <1>4, <1>5 DEF Abstract!Load

LEMMA SaveRefines ==
    ASSUME NEW c \in Coordinators, Shutdown(c) \/ DelayedSave(c)
    PROVE  Abstract!Save(c)
<1>1. store' = ledger[c] /\ UNCHANGED <<now, cum, ledger>>
    BY DEF Shutdown, DelayedSave
<1>2. OnDisk' = InMemory[c]
    BY <1>1 DEF OnDisk, InMemory, Register
<1> QED BY <1>1, <1>2, ShownStill DEF Abstract!Save

LEMMA MeterTickRefines ==
    ASSUME IInv, MeterTick
    PROVE  Abstract!Draw
<1>1. PICK draw \in [Keys -> Rates] :
        cum' = [k \in Keys |-> [t \in 0..(now + 1) |->
                  IF t <= now THEN cum[k][t] ELSE cum[k][now] + draw[k]]]
    BY DEF MeterTick
<1>2. now \in Nat /\ now' = now + 1 /\ cum \in [Keys -> [0..now -> Nat]]
    BY DEF MeterTick, IInv, TypeOK
<1>3. \A k \in Keys : MeterNow'[k] >= MeterNow[k]
    <2> SUFFICES ASSUME NEW k \in Keys
                 PROVE  MeterNow'[k] >= MeterNow[k]
        OBVIOUS
    <2>1. draw[k] \in Nat
        BY MeterAssumption
    <2>5. cum[k][now] \in Nat
        BY <1>2
    <2>2. MeterNow[k] = cum[k][now]
        BY <1>2 DEF MeterNow, Metered
    <2>3. cum'[k][now + 1] = cum[k][now] + draw[k]
        BY <1>1, <1>2
    <2>4. MeterNow'[k] = cum'[k][now + 1]
        BY <1>2 DEF MeterNow, Metered
    <2> QED BY <2>1, <2>2, <2>3, <2>4, <2>5
<1>4. InMemory' = InMemory /\ OnDisk' = OnDisk
    BY DEF MeterTick, InMemory, OnDisk, Register
<1> QED BY <1>3, <1>4 DEF Abstract!Draw

LEMMA NextRefines ==
    ASSUME IInv, IInv', FreshLoads, [Next]_vars
    PROVE  [Abstract!Next]_(Abstract!vars)
<1>1. ASSUME UNCHANGED <<now, cum, ledger, store>>
      PROVE  UNCHANGED Abstract!vars
    BY <1>1, ShownStill DEF Abstract!vars
<1>2. CASE UNCHANGED vars
    BY <1>1, <1>2 DEF vars
<1>3. CASE MeterTick
    BY <1>3, MeterTickRefines DEF Abstract!Next
<1>4. CASE Crash
    <2>1. InMemory' = [c \in Coordinators |-> Abstract!Blank]
        BY <1>4 DEF Crash, InMemory, EmptyLedger, Register, Unseen, Abstract!Blank, Abstract!Empty
    <2>2. MeterNow' = MeterNow /\ OnDisk' = OnDisk
        BY <1>4, ShownStill DEF Crash
    <2>3. Abstract!Lose
        BY <2>1, <2>2 DEF Abstract!Lose
    <2> QED BY <2>3 DEF Abstract!Next
<1>5. CASE Remove
    <2>1. OnDisk' = Abstract!Blank
        BY <1>5 DEF Remove, OnDisk, EmptyLedger, Register, Unseen, Abstract!Blank, Abstract!Empty
    <2>2. MeterNow' = MeterNow /\ InMemory' = InMemory
        BY <1>5, ShownStill DEF Remove
    <2>3. Abstract!Wipe
        BY <2>1, <2>2 DEF Abstract!Wipe
    <2> QED BY <2>3 DEF Abstract!Next
<1>6. ASSUME NEW c \in Coordinators, Setup(c)
      PROVE  Abstract!Next
    BY <1>6, SetupRefines DEF Abstract!Next
<1>7. ASSUME NEW c \in Coordinators, Shutdown(c) \/ DelayedSave(c)
      PROVE  Abstract!Next
    BY <1>7, SaveRefines DEF Abstract!Next
<1>8. ASSUME NEW c \in Coordinators, NEW k \in Keys, NEW total \in Seeds, adopt(c, k, total)
      PROVE  Abstract!Next
    BY <1>8, adoptRefines DEF Abstract!Next
<1>9. ASSUME NEW c \in Coordinators, NEW i \in Slots, Poll(c, i)
      PROVE  [Abstract!Next]_(Abstract!vars)
    <2>1. CASE ApplyPrime(c, i)
        BY <2>1, ApplyPrimeRefines DEF Abstract!Next
    <2>2. CASE ApplyAdvance(c, i)
        BY <2>2, ApplyAdvanceRefines DEF Abstract!Next
    <2>3. CASE ~ApplyPrime(c, i) /\ ~ApplyAdvance(c, i)
        <3>1. UNCHANGED <<now, cum, ledger, store>>
            BY <1>9, <2>3 DEF Poll, PollStart, PollPlan, PollCall, PollFail, ApplyBegin, ApplyEnd
        <3> QED BY <1>1, <3>1
    <2> QED BY <2>1, <2>2, <2>3
<1> QED BY <1>2, <1>3, <1>4, <1>5, <1>6, <1>7, <1>8, <1>9 DEF Next

\* EnergyLedger implements MeteredTotal: whatever the polls do, and however loads,
\* saves and crashes fall between them, a reader sees registers that only grow, and
\* only by energy their meters drew.
THEOREM LedgerImplementsRegisters == Spec => ImplementsRegisters
<1>1. Init => Abstract!Init /\ FreshLoads
    BY InitRefines, InitFresh
<1>2. IInv /\ FreshLoads /\ [Next]_vars => FreshLoads'
    BY NextFresh
<1>3. IInv /\ IInv' /\ FreshLoads /\ [Next]_vars => [Abstract!Next]_(Abstract!vars)
    BY NextRefines
<1> QED BY <1>1, <1>2, <1>3, LedgerInvariant, PTL DEF Spec, ImplementsRegisters, Abstract!Spec

(***************************************************************************)
(* Coverage: what the ledger's cursor promises, "everything before it has  *)
(* been accounted for".  With an exact server nothing a key draws is       *)
(* missed as long as no poll has to backfill and every answer reaches back *)
(* to what the ledger has counted.                                         *)
(***************************************************************************)

-----------------------------------------------------------------------------
(* The grid of bucket boundaries *)

LEMMA IsMultiple ==
    \A q \in Nat \ {0}, a \in Int : a % q = 0 <=> \E n \in Int : a = n * q
<1> SUFFICES ASSUME NEW q \in Nat \ {0}, NEW a \in Int
             PROVE  a % q = 0 <=> \E n \in Int : a = n * q
    OBVIOUS
<1>1. a % q = 0 => \E n \in Int : a = n * q
    OBVIOUS
<1>2. \A n \in Int : (n * q) % q = 0
    OBVIOUS
<1> QED BY <1>1, <1>2

LEMMA Multiples ==
    ASSUME NEW q \in Nat \ {0}, NEW n \in Int, NEW m \in Int
    PROVE  /\ n * q \in Int /\ (n + m) * q = n * q + m * q /\ (n + 1) * q = n * q + q
           /\ n * q < m * q => n * q + q <= m * q
<1>1. n * q \in Int /\ (n + m) * q = n * q + m * q /\ (n + 1) * q = n * q + q
    OBVIOUS
<1>2. ASSUME n * q < m * q
      PROVE  n * q + q <= m * q
    <2>1. n < m
        BY <1>2
    <2>2. \A x \in Int : x >= 0 => x * q >= 0
        OBVIOUS
    <2>3. (m - n - 1) * q >= 0
        BY <2>1, <2>2
    <2> QED BY <2>3
<1> QED BY <1>1, <1>2

\* Two boundaries are a bucket apart.
LEMMA GridGap ==
    ASSUME NEW q \in Nat \ {0}, NEW a \in Int, NEW b \in Int, a % q = 0, b % q = 0, a < b
    PROVE  a + q <= b
<1>1. PICK n \in Int : a = n * q
    BY IsMultiple, Zenon
<1>2. PICK m \in Int : b = m * q
    BY IsMultiple, Zenon
<1> QED BY ONLY q \in Nat \ {0}, a < b, <1>1, <1>2, Multiples

LEMMA GridSum ==
    ASSUME NEW q \in Nat \ {0}, NEW a \in Int, NEW b \in Int, (a - b) % q = 0, b % q = 0
    PROVE  a % q = 0
<1>0. a - b \in Int
    OBVIOUS
<1>1. PICK n \in Int : a - b = n * q
    BY <1>0, IsMultiple, Zenon
<1>2. PICK m \in Int : b = m * q
    BY IsMultiple, Zenon
<1>3. a = (n + m) * q
    BY <1>1, <1>2, Multiples
<1>4. n + m \in Int
    OBVIOUS
<1> QED BY <1>3, <1>4, IsMultiple, Zenon

LEMMA GridNext ==
    ASSUME NEW q \in Nat \ {0}, NEW a \in Int, NEW b \in Int, (a - b) % q = 0
    PROVE  ((a + q) - b) % q = 0
<1>0. a - b \in Int /\ (a + q) - b \in Int
    OBVIOUS
<1>1. PICK n \in Int : a - b = n * q
    BY <1>0, IsMultiple, Zenon
<1>2. (a + q) - b = (n + 1) * q
    BY <1>1, Multiples
<1>3. n + 1 \in Int
    OBVIOUS
<1> QED BY <1>0, <1>2, <1>3, IsMultiple, Zenon

LEMMA GridAlign ==
    ASSUME NEW q \in Nat \ {0}, NEW a \in Int
    PROVE  align_start(a, q) \in Int /\ align_start(a, q) % q = 0
           /\ align_start(a, q) <= a /\ a - q < align_start(a, q)
BY DEF align_start

-----------------------------------------------------------------------------
(* What is assumed, and the inductive invariant *)

\* No poll finds its cursor so old that the live window does not reach it.
NoBackfill ==
    \A c \in Coordinators, i \in Slots :
        polls[c][i].phase = "queued" =>
            polls[c][i].cursor = 0 \/ polls[c][i].cursor >= LiveStart(now)

Oldest(s, batch) == \A o \in batch : o.key = s.key => s.start <= o.start

\* An answer starts no later than the key's mark, or the key drew nothing in between
\* that is not counted.
ReachesBack ==
    \A c \in Coordinators, i \in Slots :
        polls[c][i].phase = "answered" =>
            \A s \in polls[c][i].samples :
                LET e == ledger[c][s.key] IN
                e.marked /\ Oldest(s, polls[c][i].samples) =>
                    \/ s.start <= e.start
                    \/ Metered(s.key, s.start) <= Metered(s.key, e.start) + e.counted

Unbroken == NoBackfill /\ ReachesBack

OnGrid(t) == t % Quarter = 0

\* Marks and samples are quarters that have begun.
Accounted(k, e) ==
    e.marked =>
        /\ e.total + e.origin >= Metered(k, e.start) + e.counted
        /\ OnGrid(e.start) /\ e.end = e.start + Quarter /\ e.start <= now

Placed(s) == OnGrid(s.start) /\ s.end = s.start + Quarter /\ s.start <= now

\* The quarters of a key in one answer follow each other without a gap, and all but
\* the newest are over, so that what they say is final.
Chained(batch) ==
    \A s, o \in batch :
        s.key = o.key =>
            /\ s.start = o.start => s = o
            /\ s.start < o.start =>
                 /\ s.kwh = Metered(s.key, s.end) - Metered(s.key, s.start)
                 /\ \E n \in batch : n.key = s.key /\ n.start = s.end

\* A poll asks for one live window.
AsksLive(p) ==
    /\ p.phase \in {"idle", "queued", "asking"} => p.samples = {}
    /\ p.phase = "asking" =>
         \E w \in Windows :
             p.todo = {w} /\ w.step = Quarter /\ OnGrid(w.start) /\ w.end <= now

Sound(p) == AsksLive(p) /\ Chained(p.samples) /\ \A s \in p.samples : Placed(s)

\* The entry has booked what its key drew before the sample starts, or the sample is
\* no newer than the mark.
CountedUpTo(e, s) == s.start <= e.start \/ Metered(s.key, s.start) <= e.total + e.origin

FoldsOn(entries, batch) ==
    \A s \in batch : entries[s.key].marked /\ Oldest(s, batch) => CountedUpTo(entries[s.key], s)

OneFolding ==
    \A c, d \in Coordinators, i, j \in Slots :
        polls[c][i].phase = "folding" /\ polls[d][j].phase = "folding" => c = d /\ i = j

CInv ==
    /\ \A c \in Coordinators, k \in Keys : Accounted(k, ledger[c][k])
    /\ \A k \in Keys : Accounted(k, store[k])
    /\ \A c \in Coordinators, i \in Slots : Sound(polls[c][i])
    /\ \A c \in Coordinators, i \in Slots :
         polls[c][i].phase = "folding" => FoldsOn(ledger[c], polls[c][i].samples)
    /\ OneFolding

-----------------------------------------------------------------------------
(* The ledger's rules *)

LEMMA PrimeAccounts ==
    ASSUME TypeOK, NEW k \in Keys, NEW e \in Entries,
           NEW s \in Samples, s.key = k, Placed(s)
    PROVE  Accounted(k, prime(e, s))
<1>1. /\ e.total \in Nat /\ s.start \in Int /\ s.end \in Int /\ s.kwh \in Nat
    BY DEF Entries, Samples
<1>2. Metered(k, s.start) \in Nat
    BY <1>1, MeteredType
<1> DEFINE o == Metered(s.key, s.start) + s.kwh - e.total
           n == prime(e, s)
<1>3. o \in Int
    BY <1>1, <1>2
<1>4. n = [e EXCEPT !.known = TRUE, !.marked = TRUE, !.start = s.start, !.end = s.end,
                    !.counted = s.kwh, !.origin = o]
    BY DEF prime
<1> HIDE DEF n
<1>5. n.total = e.total /\ n.start = s.start /\ n.end = s.end /\ n.counted = s.kwh /\ n.origin = o
    <2> HIDE DEF o
    <2> QED BY <1>4 DEF Entries
<1>6. n.total + n.origin >= Metered(k, n.start) + n.counted
    <2>1. \A t, m, w \in Int : t + (m + w - t) >= m + w
        OBVIOUS
    <2> QED BY <1>1, <1>2, <1>5, <2>1
<1> QED BY <1>5, <1>6 DEF Accounted, Placed, n

\* One bucket advanced over: nothing is missing before the new mark, and if the bucket
\* is final, nothing is missing before its end.
LEMMA AdvanceAccounts ==
    ASSUME TypeOK, MetersRunForwards,
           NEW k \in Keys, NEW e \in Entries, e.marked, Accounted(k, e),
           NEW s \in Samples, s.key = k, Placed(s), CountedUpTo(e, s)
    PROVE  /\ Accounted(k, _advance(e, s))
           /\ s.kwh = Metered(k, s.end) - Metered(k, s.start) =>
                \A t \in Int : t <= s.end =>
                    \/ t <= _advance(e, s).start
                    \/ Metered(k, t) <= _advance(e, s).total + _advance(e, s).origin
<1> DEFINE n == _advance(e, s)
<1>0. /\ e.known \in BOOLEAN /\ e.total \in Nat /\ e.start \in Int /\ e.end \in Int
      /\ e.counted \in Nat /\ e.origin \in Int
      /\ s.start \in Int /\ s.end \in Int /\ s.kwh \in Nat
      /\ Quarter \in Nat \ {0} /\ now \in Int
    BY ResolutionAssumption DEF Entries, Samples, TypeOK
<1>1. /\ e.total + e.origin >= Metered(k, e.start) + e.counted
      /\ e.end = e.start + Quarter /\ e.start <= now
      /\ s.end = s.start + Quarter /\ s.start <= now
    BY DEF Accounted, Placed
<1>2. /\ Metered(k, e.start) \in Int /\ Metered(k, s.start) \in Int /\ Metered(k, s.end) \in Int
      /\ \A t \in Int : t <= s.end => Metered(k, t) \in Int /\ Metered(k, t) <= Metered(k, s.end)
    BY <1>0, MeteredType, MeteredMonotone
<1>3. CASE SameBucket(e, s) /\ s.kwh > e.counted
    <2>1. n = [e EXCEPT !.counted = s.kwh, !.total = e.total + (s.kwh - e.counted)]
        BY <1>3 DEF _advance
    <2> HIDE DEF n
    <2>2. /\ n.start = e.start /\ n.end = e.end /\ n.origin = e.origin /\ n.counted = s.kwh
          /\ n.total = e.total + (s.kwh - e.counted)
        BY <2>1 DEF Entries
    <2>3. \A a, o, w, b, m \in Int : a + o >= m + b => (a + (w - b)) + o >= m + w
        OBVIOUS
    <2>4. n.total + n.origin >= Metered(k, e.start) + s.kwh
        BY <1>0, <1>1, <1>2, <2>2, <2>3
    <2>5. Accounted(k, n)
        BY <1>1, <2>2, <2>4 DEF Accounted
    <2>6. s.kwh = Metered(k, s.end) - Metered(k, s.start) => Metered(k, s.end) <= n.total + n.origin
        <3>1. s.start = e.start
            BY <1>3 DEF SameBucket
        <3>2. \A v, m, w, z \in Int : w = v - m /\ z >= m + w => v <= z
            OBVIOUS
        <3>3. n.total + n.origin \in Int
            BY <1>0, <2>2
        <3> QED BY <1>0, <1>2, <2>4, <3>1, <3>2, <3>3
    <2>7. \A t \in Int : t <= s.end /\ Metered(k, s.end) <= n.total + n.origin
                         => Metered(k, t) <= n.total + n.origin
        <3>1. n.total + n.origin \in Int
            BY <1>0, <2>2
        <3> QED BY <1>2, <3>1
    <2> QED BY <2>5, <2>6, <2>7 DEF n
<1>4. CASE SameBucket(e, s) /\ ~(s.kwh > e.counted)
    <2>1. n = e
        BY <1>4 DEF _advance
    <2> HIDE DEF n
    <2>2. s.kwh = Metered(k, s.end) - Metered(k, s.start) => Metered(k, s.end) <= e.total + e.origin
        <3>1. s.start = e.start
            BY <1>4 DEF SameBucket
        <3>2. \A v, m, w, b, z \in Int : w = v - m /\ z >= m + b /\ ~(w > b) => v <= z
            OBVIOUS
        <3>3. e.total + e.origin \in Int
            BY <1>0
        <3> QED BY <1>0, <1>1, <1>2, <1>4, <3>1, <3>2, <3>3
    <2>3. \A t \in Int : t <= s.end /\ Metered(k, s.end) <= e.total + e.origin
                         => Metered(k, t) <= e.total + e.origin
        <3>1. e.total + e.origin \in Int
            BY <1>0
        <3> QED BY <1>2, <3>1
    <2> QED BY <2>1, <2>2, <2>3 DEF n
<1>5. CASE ~SameBucket(e, s) /\ s.start >= e.end
    <2>1. n = [e EXCEPT !.start = s.start, !.end = s.end, !.counted = s.kwh,
                        !.total = e.total + s.kwh]
        BY <1>5 DEF _advance
    <2> HIDE DEF n
    <2>2. /\ n.start = s.start /\ n.end = s.end /\ n.origin = e.origin /\ n.counted = s.kwh
          /\ n.total = e.total + s.kwh
        BY <2>1 DEF Entries
    <2>3. Metered(k, s.start) <= e.total + e.origin
        <3>1. ~(s.start <= e.start)
            BY <1>0, <1>1, <1>5
        <3> QED BY <3>1 DEF CountedUpTo
    <2>4. n.total + n.origin >= Metered(k, s.start) + s.kwh
        <3>1. \A a, o, w, m \in Int : m <= a + o => (a + w) + o >= m + w
            OBVIOUS
        <3> QED BY <1>0, <1>2, <2>2, <2>3, <3>1
    <2>5. Accounted(k, n)
        BY <1>1, <2>2, <2>4 DEF Accounted, Placed
    <2>6. s.kwh = Metered(k, s.end) - Metered(k, s.start) => Metered(k, s.end) <= n.total + n.origin
        <3>1. \A v, m, w, z \in Int : w = v - m /\ z >= m + w => v <= z
            OBVIOUS
        <3>2. n.total + n.origin \in Int
            BY <1>0, <2>2
        <3> QED BY <1>0, <1>2, <2>4, <3>1, <3>2
    <2>7. \A t \in Int : t <= s.end /\ Metered(k, s.end) <= n.total + n.origin
                         => Metered(k, t) <= n.total + n.origin
        <3>1. n.total + n.origin \in Int
            BY <1>0, <2>2
        <3> QED BY <1>2, <3>1
    <2> QED BY <2>5, <2>6, <2>7 DEF n
<1>6. CASE ~SameBucket(e, s) /\ ~(s.start >= e.end)
    <2>1. n = e
        BY <1>6 DEF _advance
    <2> HIDE DEF n
    <2>2. OnGrid(e.start) /\ OnGrid(s.start)
        BY DEF Accounted, Placed
    <2>3. ~(e.start < s.start)
        <3>1. e.start < s.start => e.start + Quarter <= s.start
            BY <1>0, <2>2, GridGap DEF OnGrid
        <3> QED BY <1>0, <1>1, <1>6, <3>1
    <2>4. s.start < e.start
        <3>1. s.start # e.start
            BY <1>1, <1>6 DEF SameBucket
        <3> QED BY <1>0, <2>3, <3>1
    <2>5. s.end <= e.start
        BY <1>0, <1>1, <2>2, <2>4, GridGap DEF OnGrid
    <2> QED BY <1>0, <2>1, <2>5 DEF n
<1> QED BY <1>3, <1>4, <1>5, <1>6 DEF n

-----------------------------------------------------------------------------
(* What SPAN answers *)

\* An exact answer to a window that starts on a boundary and is over.
LEMMA AnswerSound ==
    ASSUME TypeOK, NEW w \in Windows, w.step = Quarter, OnGrid(w.start), w.end <= now,
           NEW keys \in SUBSET Keys
    PROVE  /\ Chained(Answer(w, keys, now))
           /\ \A s \in Answer(w, keys, now) : Placed(s)
<1>0. Quarter \in Nat \ {0} /\ w.start \in Int /\ w.end \in Int /\ now \in Int
    BY ResolutionAssumption DEF Windows, TypeOK
<1> DEFINE bucket(k, b) == Bucket(k, b, Quarter, now)
<1>1. Answer(w, keys, now) = {bucket(k, b) : k \in keys, b \in BucketStarts(w)}
    BY DEF Answer
<1>2. ASSUME NEW b \in BucketStarts(w)
      PROVE  b \in Int /\ b <= now /\ OnGrid(b) /\ (b - w.start) % Quarter = 0
             /\ w.start <= b /\ b < w.end
    <2>1. b \in Int /\ w.start <= b /\ b < w.end /\ (b - w.start) % Quarter = 0
        BY <1>0 DEF BucketStarts
    <2>2. OnGrid(b)
        BY <1>0, <2>1, GridSum DEF OnGrid
    <2> QED BY <1>0, <2>1, <2>2
<1>3. ASSUME NEW k \in keys, NEW b \in BucketStarts(w)
      PROVE  /\ bucket(k, b).key = k /\ bucket(k, b).start = b /\ bucket(k, b).end = b + Quarter
             /\ Placed(bucket(k, b))
    <2>1. bucket(k, b).key = k /\ bucket(k, b).start = b /\ bucket(k, b).end = b + Quarter
        BY DEF Bucket
    <2> HIDE DEF bucket
    <2> QED BY <1>2, <2>1 DEF Placed
<1>4. ASSUME NEW k \in keys, NEW b \in BucketStarts(w), NEW d \in BucketStarts(w), b < d
      PROVE  /\ b + Quarter \in BucketStarts(w)
             /\ bucket(k, b).kwh = Metered(k, b + Quarter) - Metered(k, b)
    <2>1. b + Quarter <= d
        BY <1>0, <1>2, <1>4, GridGap DEF OnGrid
    <2>2. ((b + Quarter) - w.start) % Quarter = 0
        BY <1>0, <1>2, GridNext
    <2>3. b + Quarter \in w.start .. (w.end - 1)
        BY <1>0, <1>2, <2>1
    <2>4. Earlier(b + Quarter, now) = b + Quarter /\ Earlier(b, now) = b
        <3>1. b + Quarter <= now /\ b <= now
            BY <1>0, <1>2, <2>3
        <3> QED BY <1>0, <1>2, <3>1 DEF Earlier
    <2>5. b + Quarter \in BucketStarts(w)
        BY <1>0, <1>2, <2>2, <2>3 DEF BucketStarts
    <2> QED BY <2>4, <2>5 DEF Bucket
<1> HIDE DEF bucket
<1>5. \A s \in Answer(w, keys, now) : Placed(s)
    BY <1>1, <1>3
<1>6. Chained(Answer(w, keys, now))
    <2> SUFFICES ASSUME NEW k \in keys, NEW l \in keys,
                        NEW b \in BucketStarts(w), NEW d \in BucketStarts(w), k = l
                 PROVE  LET s == bucket(k, b)
                            o == bucket(l, d)
                        IN  /\ s.start = o.start => s = o
                            /\ s.start < o.start =>
                                 /\ s.kwh = Metered(s.key, s.end) - Metered(s.key, s.start)
                                 /\ \E n \in Answer(w, keys, now) :
                                      n.key = s.key /\ n.start = s.end
        BY <1>1, <1>3 DEF Chained
    <2>1. b < d => /\ b + Quarter \in BucketStarts(w)
                   /\ bucket(k, b).kwh = Metered(k, b + Quarter) - Metered(k, b)
        BY <1>4
    <2>2. ASSUME b < d
          PROVE  /\ bucket(k, b + Quarter) \in Answer(w, keys, now)
                 /\ bucket(k, b + Quarter).key = k /\ bucket(k, b + Quarter).start = b + Quarter
        BY <1>1, <1>3, <2>1, <2>2
    <2> QED BY <1>3, <2>1, <2>2
<1> QED BY <1>5, <1>6

\* A poll that does not backfill asks for the live window alone.
LEMMA PlansLive ==
    ASSUME now \in Int, NEW covered \in Int, covered = 0 \/ covered >= LiveStart(now)
    PROVE  \E w \in Windows :
              plan_windows(now, covered) = {w} /\ w.step = Quarter
              /\ OnGrid(w.start) /\ w.end <= now
<1>0. now - LiveWindow \in Int /\ Quarter \in Nat \ {0}
    BY ResolutionAssumption, WindowAssumption
<1>1. LiveStart(now) \in Int /\ LiveStart(now) % Quarter = 0
    BY <1>0, GridAlign DEF LiveStart
<1> DEFINE w == LiveWindowAt(now)
<1>2. w = [step |-> Quarter, start |-> LiveStart(now), end |-> now]
    BY DEF LiveWindowAt
<1>3. w \in Windows /\ w.step = Quarter /\ OnGrid(w.start) /\ w.end <= now
    <2> HIDE DEF w
    <2> QED BY <1>1, <1>2 DEF Windows, OnGrid
<1>4. plan_windows(now, covered) = {w}
    <2>1. ~(0 < covered /\ covered < LiveStart(now))
        BY <1>1
    <2> QED BY <2>1 DEF plan_windows
<1> QED BY <1>3, <1>4

-----------------------------------------------------------------------------
(* The invariant *)

LEMMA InitCInv == Init => CInv
<1> SUFFICES ASSUME Init PROVE CInv
    OBVIOUS
<1>1. ~Unseen.marked /\ IdlePoll.phase = "idle" /\ IdlePoll.samples = {}
    BY DEF Unseen, IdlePoll
<1>2. \A c \in Coordinators, k \in Keys : ~ledger[c][k].marked /\ ~store[k].marked
    BY <1>1 DEF Init, EmptyLedger
<1>3. \A c \in Coordinators, i \in Slots : polls[c][i] = IdlePoll
    BY DEF Init
<1>4. (\A c \in Coordinators, k \in Keys : Accounted(k, ledger[c][k]))
      /\ \A k \in Keys : Accounted(k, store[k])
    <2>1. ASSUME NEW k \in Keys
          PROVE  Accounted(k, store[k])
        BY <1>1 DEF Accounted, Init, EmptyLedger
    <2> QED BY <1>2, <2>1 DEF Accounted
<1>5. Sound(IdlePoll)
    BY <1>1 DEF Sound, AsksLive, Chained
<1> QED BY <1>1, <1>3, <1>4, <1>5 DEF CInv, OneFolding

\* The meters aside, a step need only account for what it leaves behind.
LEMMA StillCInv ==
    ASSUME now' = now, cum' = cum,
           \A c \in Coordinators, k \in Keys : Accounted(k, ledger'[c][k]),
           \A k \in Keys : Accounted(k, store'[k]),
           \A c \in Coordinators, i \in Slots : Sound(polls'[c][i]),
           \A c \in Coordinators, i \in Slots :
             polls'[c][i].phase = "folding" => FoldsOn(ledger'[c], polls'[c][i].samples),
           \A c, d \in Coordinators, i, j \in Slots :
             polls'[c][i].phase = "folding" /\ polls'[d][j].phase = "folding"
             => c = d /\ i = j
    PROVE  CInv'
<1>1. (\A c \in Coordinators, k \in Keys : Accounted(k, ledger[c][k]))'
    BY DEF Accounted, Metered, OnGrid
<1>2. (\A k \in Keys : Accounted(k, store[k]))'
    BY DEF Accounted, Metered, OnGrid
<1>3. (\A c \in Coordinators, i \in Slots : Sound(polls[c][i]))'
    BY DEF Sound, AsksLive, Chained, Placed, Metered, OnGrid
<1>4. (\A c \in Coordinators, i \in Slots :
         polls[c][i].phase = "folding" => FoldsOn(ledger[c], polls[c][i].samples))'
    BY DEF FoldsOn, CountedUpTo, Oldest, Metered
<1>5. OneFolding'
    BY DEF OneFolding
<1> QED BY <1>1, <1>2, <1>3, <1>4, <1>5 DEF CInv

LEMMA MeteredStays ==
    ASSUME TypeOK, MeterTick, NEW k \in Keys, NEW t \in Int, t <= now
    PROVE  Metered(k, t)' = Metered(k, t)
<1>1. PICK draw \in [Keys -> Rates] :
        cum' = [j \in Keys |-> [u \in 0..(now + 1) |->
                  IF u <= now THEN cum[j][u] ELSE cum[j][now] + draw[j]]]
    BY DEF MeterTick
<1>2. now \in Nat /\ now' = now + 1
    BY DEF MeterTick, TypeOK
<1>3. CASE t < 0
    BY <1>2, <1>3 DEF Metered
<1>4. CASE t >= 0
    <2>1. t \in 0..(now + 1) /\ cum'[k][t] = cum[k][t]
        BY <1>1, <1>2, <1>4
    <2> QED BY <1>2, <1>4, <2>1 DEF Metered
<1> QED BY <1>3, <1>4

\* What has been said of the past stays true while the meters run on.
LEMMA MeterTickCInv ==
    ASSUME IInv, CInv, MeterTick
    PROVE  CInv'
<1>0. /\ TypeOK /\ now \in Int /\ now' = now + 1 /\ UNCHANGED <<ledger, store, polls>>
      /\ Quarter \in Nat \ {0}
    BY ResolutionAssumption DEF MeterTick, IInv, TypeOK
<1>1. \A k \in Keys, t \in Int : t <= now => Metered(k, t)' = Metered(k, t)
    BY <1>0, MeteredStays
<1>2. ASSUME NEW k \in Keys, NEW e \in Entries, Accounted(k, e)
      PROVE  Accounted(k, e)'
    <2> SUFFICES ASSUME e.marked
                 PROVE  /\ e.total + e.origin >= Metered(k, e.start)' + e.counted
                        /\ OnGrid(e.start) /\ e.end = e.start + Quarter /\ e.start <= now'
        BY DEF Accounted, OnGrid
    <2>1. /\ e.total + e.origin >= Metered(k, e.start) + e.counted
          /\ OnGrid(e.start) /\ e.end = e.start + Quarter /\ e.start <= now
        BY <1>2 DEF Accounted
    <2>2. e.start \in Int
        BY DEF Entries
    <2>3. Metered(k, e.start)' = Metered(k, e.start)
        BY <1>1, <2>1, <2>2
    <2> QED BY <1>0, <2>1, <2>2, <2>3
<1>3. ASSUME NEW s \in Samples, Placed(s)
      PROVE  Placed(s)' /\ Metered(s.key, s.start)' = Metered(s.key, s.start)
             /\ s.key \in Keys /\ s.start \in Int /\ s.end \in Int
    <2>1. s.key \in Keys /\ s.start \in Int /\ s.end \in Int /\ s.start <= now
        BY <1>3 DEF Samples, Placed
    <2> QED BY <1>0, <1>1, <1>3, <2>1 DEF Placed, OnGrid
<1>4. ASSUME NEW c \in Coordinators, NEW i \in Slots
      PROVE  Sound(polls[c][i])'
    <2> DEFINE p == polls[c][i]
    <2>1. Sound(p) /\ p \in Polls /\ p.samples \subseteq Samples /\ p' = p
        BY <1>0 DEF CInv, TypeOK, Polls
    <2>2. AsksLive(p)'
        <3>1. \A w \in Windows : w.end <= now => w.end <= now'
            BY <1>0 DEF Windows
        <3> QED BY <2>1, <3>1 DEF AsksLive, Sound, OnGrid
    <2>3. \A s \in p.samples : Placed(s)'
        BY <1>3, <2>1 DEF Sound
    <2>4. Chained(p.samples)'
        <3> SUFFICES ASSUME NEW s \in p.samples, NEW o \in p.samples, s.key = o.key
                     PROVE  /\ s.start = o.start => s = o
                            /\ s.start < o.start =>
                                 /\ s.kwh = Metered(s.key, s.end)' - Metered(s.key, s.start)'
                                 /\ \E n \in p.samples : n.key = s.key /\ n.start = s.end
            BY <2>1 DEF Chained
        <3>1. /\ s.start = o.start => s = o
              /\ s.start < o.start =>
                   /\ s.kwh = Metered(s.key, s.end) - Metered(s.key, s.start)
                   /\ \E n \in p.samples : n.key = s.key /\ n.start = s.end
            BY <2>1 DEF Sound, Chained
        <3>2. ASSUME s.start < o.start
              PROVE  Metered(s.key, s.end)' = Metered(s.key, s.end)
            <4>1. PICK n \in p.samples : n.start = s.end
                BY <3>1, <3>2
            <4>2. s.end <= now
                BY <2>1, <4>1 DEF Sound, Placed
            <4> QED BY <1>1, <1>3, <2>1, <4>2 DEF Sound
        <3>3. Metered(s.key, s.start)' = Metered(s.key, s.start)
            BY <1>3, <2>1 DEF Sound
        <3> QED BY <3>1, <3>2, <3>3
    <2> QED BY <2>1, <2>2, <2>3, <2>4 DEF Sound
<1>5. ASSUME NEW c \in Coordinators, NEW i \in Slots, polls[c][i].phase = "folding"
      PROVE  FoldsOn(ledger[c], polls[c][i].samples)'
    <2> DEFINE batch == polls[c][i].samples
    <2>1. FoldsOn(ledger[c], batch) /\ batch \subseteq Samples
        BY <1>0, <1>5 DEF CInv, TypeOK, Polls
    <2>2. ASSUME NEW s \in batch
          PROVE  CountedUpTo(ledger[c][s.key], s) => CountedUpTo(ledger[c][s.key], s)'
        <3>1. Metered(s.key, s.start)' = Metered(s.key, s.start)
            BY <1>3, <2>1, <2>2 DEF CInv, Sound
        <3> QED BY <1>0, <3>1 DEF CountedUpTo
    <2> QED BY <1>0, <2>1, <2>2 DEF FoldsOn, Oldest
<1>6. (\A c \in Coordinators, k \in Keys : Accounted(k, ledger[c][k]))'
    <2> SUFFICES ASSUME NEW c \in Coordinators, NEW k \in Keys
                 PROVE  Accounted(k, ledger[c][k])'
        OBVIOUS
    <2>1. ledger[c][k] \in Entries /\ Accounted(k, ledger[c][k])
        BY <1>0 DEF CInv, TypeOK
    <2>2. Accounted(k, ledger[c][k])'
        <3> DEFINE e == ledger[c][k]
        <3>1. e \in Entries /\ e' = e
            BY <1>0, <2>1
        <3> QED BY <1>0, <1>2, <2>1 DEF Accounted
    <2> QED BY <2>2
<1>7. (\A k \in Keys : Accounted(k, store[k]))'
    <2> SUFFICES ASSUME NEW k \in Keys
                 PROVE  Accounted(k, store[k])'
        OBVIOUS
    <2>1. store[k] \in Entries /\ Accounted(k, store[k])
        BY <1>0 DEF CInv, TypeOK
    <2> QED BY <1>0, <1>2, <2>1 DEF Accounted
<1>8. OneFolding'
    BY <1>0 DEF CInv, OneFolding
<1> QED BY <1>0, <1>4, <1>5, <1>6, <1>7, <1>8 DEF CInv

\* Snapshots are copied whole, and an empty ledger promises nothing.
LEMMA LifeCInv ==
    ASSUME IInv, CInv, NEW c \in Coordinators,
           Crash \/ Remove \/ Setup(c) \/ Shutdown(c) \/ DelayedSave(c)
    PROVE  CInv'
<1>0. /\ ledger \in [Coordinators -> [Keys -> Entries]]
      /\ polls \in [Coordinators -> [Slots -> Polls]]
    BY DEF IInv, TypeOK
<1>1. /\ \A d \in Coordinators, k \in Keys : Accounted(k, ledger[d][k])
      /\ \A k \in Keys : Accounted(k, store[k])
      /\ \A d \in Coordinators, i \in Slots : Sound(polls[d][i])
      /\ \A d \in Coordinators, i \in Slots :
           polls[d][i].phase = "folding" => FoldsOn(ledger[d], polls[d][i].samples)
    BY DEF CInv
<1>2. \A k \in Keys : Accounted(k, EmptyLedger[k])
    BY DEF Accounted, EmptyLedger, Unseen
<1>3. Sound(IdlePoll) /\ IdlePoll.phase # "folding"
    BY DEF Sound, AsksLive, Chained, IdlePoll
<1>4. CASE Crash
    BY <1>1, <1>2, <1>3, <1>4, StillCInv DEF Crash
<1>5. CASE Remove
    BY <1>1, <1>2, <1>5, StillCInv DEF Remove, LoopFree
<1>6. CASE Setup(c)
    <2>1. \A d \in Coordinators : ledger'[d] = IF d = c THEN store ELSE ledger[d]
        BY <1>0, <1>6 DEF Setup
    <2> QED BY <1>1, <1>6, <2>1, StillCInv DEF Setup, LoopFree
<1>7. CASE Shutdown(c)
    BY <1>1, <1>7, StillCInv DEF Shutdown, LoopFree
<1>8. CASE DelayedSave(c)
    BY <1>1, <1>8, StillCInv DEF DelayedSave, LoopFree
<1> QED BY <1>4, <1>5, <1>6, <1>7, <1>8

LEMMA adoptCInv ==
    ASSUME IInv, CInv, NEW c \in Coordinators, NEW k \in Keys, NEW total \in Seeds,
           adopt(c, k, total)
    PROVE  CInv'
<1> DEFINE n == [Unseen EXCEPT !.known = TRUE, !.total = total]
<1>1. Accounted(k, n)
    BY DEF Accounted, Unseen
<1>2. ledger' = [ledger EXCEPT ![c][k] = n] /\ LoopFree
      /\ UNCHANGED <<now, cum, polls, store>>
    BY DEF adopt
<1> HIDE DEF n
<1>3. \A d \in Coordinators, j \in Keys :
        ledger'[d][j] = IF d = c /\ j = k THEN n ELSE ledger[d][j]
    BY <1>2 DEF IInv, TypeOK
<1> QED BY <1>1, <1>2, <1>3, StillCInv DEF CInv, LoopFree

\* A step of one poll that leaves ledgers and store alone.
LEMMA PollCInv ==
    ASSUME IInv, CInv, NEW c \in Coordinators, NEW i \in Slots, NEW q, Sound(q),
           q.phase = "folding" => LoopFree /\ FoldsOn(ledger[c], q.samples),
           polls' = [polls EXCEPT ![c][i] = q],
           UNCHANGED <<now, cum, ledger, store>>
    PROVE  CInv'
<1>1. \A d \in Coordinators, j \in Slots :
        polls'[d][j] = IF d = c /\ j = i THEN q ELSE polls[d][j]
    BY DEF IInv, TypeOK
<1>2. \A d \in Coordinators, j \in Slots : Sound(polls'[d][j])
    BY <1>1 DEF CInv
<1>3. \A d \in Coordinators, j \in Slots :
        polls'[d][j].phase = "folding" => FoldsOn(ledger'[d], polls'[d][j].samples)
    BY <1>1 DEF CInv
<1>4. \A a, d \in Coordinators, j, l \in Slots :
        polls'[a][j].phase = "folding" /\ polls'[d][l].phase = "folding" => a = d /\ j = l
    BY <1>1 DEF CInv, OneFolding, LoopFree
<1>5. /\ \A d \in Coordinators, k \in Keys : Accounted(k, ledger'[d][k])
      /\ \A k \in Keys : Accounted(k, store'[k])
    BY DEF CInv
<1> QED BY <1>2, <1>3, <1>4, <1>5, StillCInv

\* A step of the fold: one entry of the owner and what is left of the batch.
LEMMA FoldCInv ==
    ASSUME IInv, CInv, NEW c \in Coordinators, NEW i \in Slots, NEW k \in Keys,
           NEW n, Accounted(k, n),
           polls[c][i].phase = "folding", NEW q, Sound(q),
           FoldsOn([ledger[c] EXCEPT ![k] = n], q.samples),
           ledger' = [ledger EXCEPT ![c][k] = n],
           polls' = [polls EXCEPT ![c][i] = q],
           UNCHANGED <<now, cum, store>>
    PROVE  CInv'
<1>1. \A d \in Coordinators, j \in Slots :
        polls'[d][j] = IF d = c /\ j = i THEN q ELSE polls[d][j]
    BY DEF IInv, TypeOK
<1>2. /\ \A d \in Coordinators, j \in Keys :
           ledger'[d][j] = IF d = c /\ j = k THEN n ELSE ledger[d][j]
      /\ ledger'[c] = [ledger[c] EXCEPT ![k] = n]
    BY DEF IInv, TypeOK
<1>3. \A d \in Coordinators, j \in Slots : Sound(polls'[d][j])
    BY <1>1 DEF CInv
<1>4. \A d \in Coordinators, j \in Slots :
        polls'[d][j].phase = "folding" => d = c /\ j = i
    BY <1>1 DEF CInv, OneFolding
<1>5. \A d \in Coordinators, j \in Slots :
        polls'[d][j].phase = "folding" => FoldsOn(ledger'[d], polls'[d][j].samples)
    BY <1>1, <1>2, <1>4
<1>6. /\ \A d \in Coordinators, j \in Keys : Accounted(j, ledger'[d][j])
      /\ \A j \in Keys : Accounted(j, store'[j])
    BY <1>2 DEF CInv
<1> QED BY <1>3, <1>4, <1>5, <1>6, StillCInv

LEMMA PollStartCInv ==
    ASSUME IInv, CInv, NEW c \in Coordinators, NEW i \in Slots, PollStart(c, i)
    PROVE  CInv'
<1>1. PICK m \in {0} \cup MarkEnds(ledger[c]) :
        polls' = [polls EXCEPT ![c][i] = [IdlePoll EXCEPT !.phase = "queued", !.cursor = m]]
    BY DEF PollStart
<1> DEFINE q == [IdlePoll EXCEPT !.phase = "queued", !.cursor = m]
<1>2. q.phase = "queued" /\ q.samples = {}
    BY DEF IdlePoll
<1>3. polls' = [polls EXCEPT ![c][i] = q]
    BY <1>1
<1> HIDE DEF q
<1>4. Sound(q)
    BY <1>2 DEF Sound, AsksLive, Chained
<1> QED BY <1>2, <1>3, <1>4, PollCInv DEF PollStart

LEMMA PollPlanCInv ==
    ASSUME IInv, CInv, NoBackfill, NEW c \in Coordinators, NEW i \in Slots, PollPlan(c, i)
    PROVE  CInv'
<1> DEFINE p == polls[c][i]
           plan == plan_windows(now, p.cursor)
           q == [p EXCEPT !.phase = "asking", !.todo = plan]
<1>1. p \in Polls /\ p.phase = "queued" /\ p.samples = {} /\ p.cursor \in Int /\ now \in Int
    BY DEF PollPlan, IInv, TypeOK, Polls, CInv, Sound, AsksLive
<1>2. p.cursor = 0 \/ p.cursor >= LiveStart(now)
    BY <1>1 DEF NoBackfill
<1>3. \E w \in Windows : plan = {w} /\ w.step = Quarter /\ OnGrid(w.start) /\ w.end <= now
    BY <1>1, <1>2, PlansLive
<1>4. polls' = [polls EXCEPT ![c][i] = q] /\ UNCHANGED <<now, cum, ledger, store>>
    BY DEF PollPlan
<1>5. q.phase = "asking" /\ q.todo = plan /\ q.samples = {}
    <2> HIDE DEF p, plan
    <2> QED BY <1>1 DEF Polls
<1> HIDE DEF p, q
<1>6. Sound(q)
    BY <1>3, <1>5 DEF Sound, AsksLive, Chained
<1> QED BY <1>4, <1>5, <1>6, PollCInv

LEMMA PollCallCInv ==
    ASSUME MaxLag = 0, IInv, CInv, NEW c \in Coordinators, NEW i \in Slots, PollCall(c, i)
    PROVE  CInv'
<1> DEFINE p == polls[c][i]
<1>1. p \in Polls /\ p.phase = "asking" /\ p.samples = {} /\ now \in Int
    BY DEF PollCall, IInv, TypeOK, CInv, Sound, AsksLive
<1>2. PICK w \in p.todo, horizon \in (now - MaxLag)..now, keys \in SUBSET Keys :
        polls' = [polls EXCEPT ![c][i] =
              [p EXCEPT !.phase = IF p.todo = {w} THEN "answered" ELSE "asking",
                        !.todo = p.todo \ {w},
                        !.samples = p.samples \cup Answer(w, keys, horizon)]]
    BY DEF PollCall
<1>3. horizon = now
    BY <1>1
<1>4. /\ p.todo = {w} /\ w \in Windows /\ w.step = Quarter
      /\ OnGrid(w.start) /\ w.end <= now
    BY <1>1 DEF CInv, Sound, AsksLive
<1> DEFINE batch == Answer(w, keys, now)
           q == [p EXCEPT !.phase = "answered", !.todo = p.todo \ {w}, !.samples = batch]
<1>5. polls' = [polls EXCEPT ![c][i] = q]
    <2>1. p.samples \cup Answer(w, keys, horizon) = batch
        BY <1>1, <1>3
    <2> HIDE DEF p, batch
    <2> QED BY <1>2, <1>4, <2>1
<1>6. Chained(batch) /\ \A s \in batch : Placed(s)
    BY <1>4, AnswerSound DEF IInv
<1>7. q.phase = "answered" /\ q.samples = batch
    <2> HIDE DEF p, batch
    <2> QED BY <1>1 DEF Polls
<1> HIDE DEF p, q, batch
<1>8. Sound(q)
    BY <1>6, <1>7 DEF Sound, AsksLive
<1> QED BY <1>5, <1>7, <1>8, PollCInv DEF PollCall

\* A poll that ends, one way or the other, leaves nothing behind.
LEMMA PollOverCInv ==
    ASSUME IInv, CInv, NEW c \in Coordinators, NEW i \in Slots,
           PollFail(c, i) \/ ApplyEnd(c, i)
    PROVE  CInv'
<1>1. Sound(IdlePoll) /\ IdlePoll.phase # "folding"
    BY DEF Sound, AsksLive, Chained, IdlePoll
<1>2. polls' = [polls EXCEPT ![c][i] = IdlePoll] /\ UNCHANGED <<now, cum, ledger, store>>
    BY DEF PollFail, ApplyEnd
<1> QED BY <1>1, <1>2, PollCInv

LEMMA ApplyBeginCInv ==
    ASSUME IInv, CInv, ReachesBack, NEW c \in Coordinators, NEW i \in Slots, ApplyBegin(c, i)
    PROVE  CInv'
<1> DEFINE p == polls[c][i]
           q == [p EXCEPT !.phase = "folding"]
<1>1. p \in Polls /\ p.phase = "answered" /\ p.samples \subseteq Samples /\ Sound(p)
    BY DEF ApplyBegin, IInv, TypeOK, CInv, Polls
<1>2. q.phase = "folding" /\ q.samples = p.samples
    <2> HIDE DEF p
    <2> QED BY <1>1 DEF Polls
<1>3. /\ polls' = [polls EXCEPT ![c][i] = q] /\ LoopFree
      /\ UNCHANGED <<now, cum, ledger, store>>
    BY DEF ApplyBegin
<1>4. FoldsOn(ledger[c], p.samples)
    <2> SUFFICES ASSUME NEW s \in p.samples, ledger[c][s.key].marked, Oldest(s, p.samples)
                 PROVE  CountedUpTo(ledger[c][s.key], s)
        BY DEF FoldsOn
    <2> DEFINE e == ledger[c][s.key]
    <2>1. s.key \in Keys /\ s.start \in Int /\ e \in Entries /\ TypeOK /\ Accounted(s.key, e)
        BY <1>1 DEF Samples, IInv, TypeOK, CInv
    <2>2. /\ e.total \in Int /\ e.origin \in Int /\ e.counted \in Int /\ e.start \in Int
        BY <2>1 DEF Entries
    <2>3. Metered(s.key, s.start) \in Int /\ Metered(s.key, e.start) \in Int
        BY <2>1, <2>2, MeteredType
    <2>4. e.total + e.origin >= Metered(s.key, e.start) + e.counted
        BY <2>1 DEF Accounted
    <2>5. \/ s.start <= e.start
          \/ Metered(s.key, s.start) <= Metered(s.key, e.start) + e.counted
        BY <1>1 DEF ReachesBack
    <2>6. \A a, b, x, y \in Int : a <= x /\ y >= x => a <= y
        OBVIOUS
    <2>7. e.total + e.origin \in Int /\ Metered(s.key, e.start) + e.counted \in Int
        BY <2>2, <2>3
    <2> HIDE DEF e
    <2>8. s.start <= e.start \/ Metered(s.key, s.start) <= e.total + e.origin
        BY <2>3, <2>4, <2>5, <2>7
    <2> QED BY <2>8 DEF CountedUpTo, e
<1> HIDE DEF p, q
<1>5. Sound(q)
    BY <1>1, <1>2 DEF Sound, AsksLive
<1> QED BY <1>2, <1>3, <1>4, <1>5, PollCInv

LEMMA ApplyPrimeCInv ==
    ASSUME IInv, CInv, NEW c \in Coordinators, NEW i \in Slots, ApplyPrime(c, i)
    PROVE  CInv'
<1> DEFINE p == polls[c][i]
<1>1. PICK s \in p.samples :
        /\ ledger' = [ledger EXCEPT ![c][s.key] = prime(ledger[c][s.key], s)]
        /\ polls' = [polls EXCEPT ![c][i] =
             [p EXCEPT !.samples = {o \in p.samples : o.key # s.key}, !.changed = TRUE]]
    BY DEF ApplyPrime
<1>2. /\ p \in Polls /\ p.phase = "folding" /\ s \in Samples /\ s.key \in Keys
      /\ Sound(p) /\ FoldsOn(ledger[c], p.samples)
    BY <1>1 DEF ApplyPrime, IInv, TypeOK, Polls, Samples, CInv
<1> DEFINE k == s.key
           e == ledger[c][k]
           n == prime(e, s)
           rest == {o \in p.samples : o.key # k}
           q == [p EXCEPT !.samples = rest, !.changed = TRUE]
<1>3. Accounted(k, n)
    <2>1. e \in Entries /\ Placed(s)
        BY <1>2 DEF IInv, TypeOK, Sound
    <2> HIDE DEF e
    <2> QED BY <1>2, <2>1, PrimeAccounts DEF IInv
<1>4. q.phase = "folding" /\ q.samples = rest
    <2> HIDE DEF p, rest
    <2> QED BY <1>2 DEF Polls
<1>5. Chained(rest)
    <2> SUFFICES ASSUME NEW a \in rest, NEW b \in rest, a.key = b.key
                 PROVE  /\ a.start = b.start => a = b
                        /\ a.start < b.start =>
                             /\ a.kwh = Metered(a.key, a.end) - Metered(a.key, a.start)
                             /\ \E m \in rest : m.key = a.key /\ m.start = a.end
        BY DEF Chained
    <2> QED BY <1>2 DEF Sound, Chained
<1>6. FoldsOn([ledger[c] EXCEPT ![k] = n], rest)
    <2> SUFFICES ASSUME NEW a \in rest, [ledger[c] EXCEPT ![k] = n][a.key].marked,
                        Oldest(a, rest)
                 PROVE  CountedUpTo([ledger[c] EXCEPT ![k] = n][a.key], a)
        BY DEF FoldsOn
    <2>1. a \in p.samples /\ a.key # k /\ a.key \in Keys
        BY <1>2 DEF Polls, Samples
    <2>2. [ledger[c] EXCEPT ![k] = n][a.key] = ledger[c][a.key]
        BY <2>1 DEF IInv, TypeOK
    <2>3. Oldest(a, p.samples)
        BY <2>1 DEF Oldest
    <2> QED BY <1>2, <2>1, <2>2, <2>3 DEF FoldsOn
<1>7. /\ ledger' = [ledger EXCEPT ![c][k] = n] /\ polls' = [polls EXCEPT ![c][i] = q]
      /\ UNCHANGED <<now, cum, store>>
    BY <1>1 DEF ApplyPrime
<1>8. \A a \in rest : Placed(a)
    BY <1>2 DEF Sound
<1> HIDE DEF n, q, rest
<1>9. Sound(q)
    BY <1>4, <1>5, <1>8 DEF Sound, AsksLive
<1> QED BY <1>2, <1>3, <1>4, <1>6, <1>7, <1>9, FoldCInv

LEMMA ApplyAdvanceCInv ==
    ASSUME IInv, CInv, NEW c \in Coordinators, NEW i \in Slots, ApplyAdvance(c, i)
    PROVE  CInv'
<1> DEFINE p == polls[c][i]
<1>1. PICK s \in p.samples :
        /\ ledger[c][s.key].marked
        /\ \A o \in p.samples : o.key = s.key => ~Precedes(o, s)
        /\ ledger' = [ledger EXCEPT ![c][s.key] = _advance(ledger[c][s.key], s)]
        /\ polls' = [polls EXCEPT ![c][i] =
             [p EXCEPT !.samples = p.samples \ {s},
                       !.changed = p.changed \/ Moved(ledger[c][s.key], s)]]
    BY DEF ApplyAdvance
<1>2. /\ p \in Polls /\ p.phase = "folding" /\ p.samples \subseteq Samples
      /\ s \in Samples /\ s.key \in Keys
      /\ Sound(p) /\ FoldsOn(ledger[c], p.samples)
    BY <1>1 DEF ApplyAdvance, IInv, TypeOK, Polls, Samples, CInv
<1> DEFINE k == s.key
           e == ledger[c][k]
           n == _advance(e, s)
           rest == p.samples \ {s}
           moved == p.changed \/ Moved(e, s)
           q == [p EXCEPT !.samples = rest, !.changed = moved]
<1>3. \A o \in p.samples : o.start \in Int /\ o.end = o.start + Quarter /\ Quarter \in Nat \ {0}
    BY <1>2, ResolutionAssumption DEF Samples, Sound, Placed
<1>4. Oldest(s, p.samples)
    BY <1>1, <1>3 DEF Oldest, Precedes
<1>5. /\ Accounted(k, n)
      /\ s.kwh = Metered(k, s.end) - Metered(k, s.start) =>
           \A t \in Int : t <= s.end => t <= n.start \/ Metered(k, t) <= n.total + n.origin
    <2>1. e \in Entries /\ e.marked /\ Placed(s) /\ Accounted(k, e) /\ CountedUpTo(e, s)
        BY <1>1, <1>2, <1>4 DEF IInv, TypeOK, Sound, CInv, FoldsOn
    <2> HIDE DEF e
    <2> QED BY <1>2, <2>1, AdvanceAccounts DEF IInv
<1>6. q.phase = "folding" /\ q.samples = rest
    <2> HIDE DEF p, rest, moved
    <2> QED BY <1>2 DEF Polls
<1>7. ASSUME NEW a \in rest, NEW b \in rest, a.key = b.key
      PROVE  /\ a.start = b.start => a = b
             /\ a.start < b.start =>
                  /\ a.kwh = Metered(a.key, a.end) - Metered(a.key, a.start)
                  /\ \E m \in rest : m.key = a.key /\ m.start = a.end
    <2>1. /\ a.start = b.start => a = b
          /\ a.start < b.start =>
               /\ a.kwh = Metered(a.key, a.end) - Metered(a.key, a.start)
               /\ \E m \in p.samples : m.key = a.key /\ m.start = a.end
        BY <1>2, <1>7 DEF Sound, Chained
    <2>2. ASSUME NEW m \in p.samples, m.key = a.key, m.start = a.end
          PROVE  m \in rest
        <3>1. a.start < m.start
            BY <1>3, <2>2
        <3> QED BY <1>3, <1>4, <2>2, <3>1 DEF Oldest
    <2> QED BY <2>1, <2>2
<1>8. FoldsOn([ledger[c] EXCEPT ![k] = n], rest)
    <2> SUFFICES ASSUME NEW a \in rest, [ledger[c] EXCEPT ![k] = n][a.key].marked,
                        Oldest(a, rest)
                 PROVE  CountedUpTo([ledger[c] EXCEPT ![k] = n][a.key], a)
        BY DEF FoldsOn
    <2>0. a \in p.samples /\ a # s /\ a.key \in Keys
        BY <1>2 DEF Samples
    <2>1. CASE a.key # k
        <3>1. [ledger[c] EXCEPT ![k] = n][a.key] = ledger[c][a.key]
            BY <2>0, <2>1 DEF IInv, TypeOK
        <3>2. Oldest(a, p.samples)
            BY <2>1 DEF Oldest
        <3> QED BY <1>2, <2>0, <3>1, <3>2 DEF FoldsOn
    <2>2. CASE a.key = k
        <3>1. [ledger[c] EXCEPT ![k] = n][a.key] = n
            BY <1>2, <2>2 DEF IInv, TypeOK
        <3>2. s.start < a.start
            <4>1. s.start <= a.start
                BY <1>4, <2>0, <2>2 DEF Oldest
            <4>2. s.start # a.start
                BY <1>2, <2>0, <2>2 DEF Sound, Chained
            <4>3. s.start \in Int /\ a.start \in Int
                BY <1>2, <1>3, <2>0 DEF Samples
            <4> QED BY <4>1, <4>2, <4>3
        <3>3. PICK m \in p.samples : m.key = k /\ m.start = s.end
            BY <1>2, <2>0, <2>2, <3>2 DEF Sound, Chained
        <3>4. s.kwh = Metered(k, s.end) - Metered(k, s.start)
            BY <1>2, <2>0, <2>2, <3>2 DEF Sound, Chained
        <3>5. a.start <= s.end
            <4>1. m \in rest
                BY <1>3, <3>3
            <4> QED BY <2>2, <3>3, <4>1 DEF Oldest
        <3>6. a.start <= n.start \/ Metered(k, a.start) <= n.total + n.origin
            BY <1>3, <1>5, <2>0, <3>4, <3>5
        <3> QED BY <2>2, <3>1, <3>6 DEF CountedUpTo
    <2> QED BY <2>1, <2>2
<1>9. /\ ledger' = [ledger EXCEPT ![c][k] = n] /\ polls' = [polls EXCEPT ![c][i] = q]
      /\ UNCHANGED <<now, cum, store>>
    BY <1>1 DEF ApplyAdvance
<1>10. (\A a \in rest : Placed(a)) /\ Chained(rest)
    BY <1>2, <1>7 DEF Sound, Chained
<1> HIDE DEF n, q, rest
<1>11. Sound(q)
    BY <1>6, <1>10 DEF Sound, AsksLive
<1> QED BY <1>2, <1>5, <1>6, <1>8, <1>9, <1>11, FoldCInv

-----------------------------------------------------------------------------
(* The theorem *)

LEMMA CInvStep ==
    ASSUME MaxLag = 0, IInv, CInv, Unbroken, [Next]_vars
    PROVE  CInv'
<1>1. CASE MeterTick
    BY <1>1, MeterTickCInv
<1>2. CASE Crash \/ Remove
    <2>1. PICK c \in Coordinators : TRUE
        BY <1>2 DEF Crash, Remove
    <2> QED BY <1>2, <2>1, LifeCInv
<1>3. ASSUME NEW c \in Coordinators,
             Setup(c) \/ Shutdown(c) \/ DelayedSave(c)
      PROVE  CInv'
    BY <1>3, LifeCInv
<1>4. ASSUME NEW c \in Coordinators, NEW k \in Keys, NEW total \in Seeds,
             adopt(c, k, total)
      PROVE  CInv'
    BY <1>4, adoptCInv
<1>5. ASSUME NEW c \in Coordinators, NEW i \in Slots, Poll(c, i)
      PROVE  CInv'
    BY <1>5, PollStartCInv, PollPlanCInv, PollCallCInv, PollOverCInv, ApplyBeginCInv,
       ApplyPrimeCInv, ApplyAdvanceCInv DEF Poll, Unbroken
<1>6. CASE UNCHANGED vars
    BY <1>6, StillCInv DEF vars, CInv, OneFolding
<1> QED BY <1>1, <1>2, <1>3, <1>4, <1>5, <1>6 DEF Next

\* What covered_through_ms promises, "everything before it has been accounted for":
\* as long as SPAN reports its meters as they stand, no cursor falls behind the live
\* window, and every answer reaches back to what its ledger has counted, nothing a key
\* draws between its priming and its mark is missing from its total, whatever order
\* polls, reloads, saves and crashes come in.
THEOREM NothingIsLost ==
    MaxLag = 0 /\ Spec /\ []Unbroken => []CoveredIsAccounted
<1> SUFFICES ASSUME MaxLag = 0
             PROVE  Spec /\ []Unbroken => []CoveredIsAccounted
    OBVIOUS
<1>1. Init => CInv
    BY InitCInv
<1>2. IInv /\ CInv /\ Unbroken /\ [Next]_vars => CInv'
    BY CInvStep
<1>3. CInv => CoveredIsAccounted
    BY DEF CInv, Accounted, CoveredIsAccounted
<1> QED BY <1>1, <1>2, <1>3, LedgerInvariant, PTL DEF Spec

-----------------------------------------------------------------------------
(* An outage the live window covers *)

ReachesStart(e) == e.marked => e.end >= Start

\* An answer goes from Start or earlier to Start or later; what is left of it while it
\* is folded in still ends there.
SpansStart(p) ==
    /\ p.phase = "queued" => p.cursor = 0 \/ p.cursor >= Start
    /\ p.phase = "asking" => \A w \in p.todo : w.start <= Start /\ w.end >= Start
    /\ p.phase = "answered" =>
         \A s \in p.samples : Oldest(s, p.samples) => s.start <= Start
    /\ \A s \in p.samples :
         s.end >= Start \/ \E o \in p.samples : o.key = s.key /\ s.start < o.start

FromStart ==
    /\ Start <= now /\ now <= Start + LiveWindow
    /\ \A k \in Keys, t \in Int : t <= Start => Metered(k, t) = 0
    /\ \A c \in Coordinators, k \in Keys : ReachesStart(ledger[c][k])
    /\ \A k \in Keys : ReachesStart(store[k])
    /\ \A c \in Coordinators, i \in Slots : SpansStart(polls[c][i])

LEMMA LiveReachesStart ==
    ASSUME now \in Int, FromStart
    PROVE  LiveStart(now) \in Int /\ LiveStart(now) <= Start
<1>0. now - LiveWindow \in Int /\ Quarter \in Nat \ {0} /\ Start \in Int /\ LiveWindow \in Int
    BY ResolutionAssumption, WindowAssumption, MeterAssumption
<1>1. LiveStart(now) \in Int /\ LiveStart(now) <= now - LiveWindow
    BY <1>0, GridAlign DEF LiveStart
<1>2. now - LiveWindow <= Start
    BY <1>0 DEF FromStart
<1> QED BY <1>0, <1>1, <1>2

LEMMA FromStartUnbroken ==
    ASSUME IInv, FromStart
    PROVE  Unbroken
<1>0. TypeOK /\ now \in Int /\ Start \in Int
    BY MeterAssumption DEF IInv, TypeOK
<1>1. ASSUME NEW c \in Coordinators, NEW i \in Slots, polls[c][i].phase = "queued"
      PROVE  polls[c][i].cursor = 0 \/ polls[c][i].cursor >= LiveStart(now)
    <2>1. polls[c][i].cursor \in Int
        BY <1>0 DEF TypeOK, Polls
    <2>2. polls[c][i].cursor = 0 \/ polls[c][i].cursor >= Start
        BY <1>1 DEF FromStart, SpansStart
    <2> QED BY <1>0, <2>1, <2>2, LiveReachesStart
<1>2. ASSUME NEW c \in Coordinators, NEW i \in Slots, polls[c][i].phase = "answered",
             NEW s \in polls[c][i].samples, Oldest(s, polls[c][i].samples)
      PROVE  Metered(s.key, s.start) <= Metered(s.key, ledger[c][s.key].start)
                                        + ledger[c][s.key].counted
    <2>1. s.key \in Keys /\ s.start \in Int
        BY <1>0 DEF TypeOK, Polls, Samples
    <2>2. Metered(s.key, s.start) = 0
        BY <1>2, <2>1 DEF FromStart, SpansStart
    <2>3. ledger[c][s.key].start \in Int /\ ledger[c][s.key].counted \in Nat
        BY <1>0, <2>1 DEF TypeOK, Entries
    <2>4. Metered(s.key, ledger[c][s.key].start) \in Nat
        BY <1>0, <2>1, <2>3, MeteredType
    <2> QED BY <2>2, <2>3, <2>4
<1> QED BY <1>1, <1>2 DEF Unbroken, NoBackfill, ReachesBack

LEMMA AnswerSpansStart ==
    ASSUME NEW w \in Windows, w.step = Quarter, w.start <= Start, w.end >= Start,
           NEW keys \in SUBSET Keys, NEW h \in Int
    PROVE  LET batch == Answer(w, keys, h) IN
           \A s \in batch :
             /\ Oldest(s, batch) => s.start <= Start
             /\ s.end >= Start \/ \E o \in batch : o.key = s.key /\ s.start < o.start
<1>0. /\ Quarter \in Nat \ {0} /\ w.start \in Int /\ w.end \in Int /\ Start \in Int
    BY ResolutionAssumption, MeterAssumption DEF Windows
<1> DEFINE bucket(k, b) == Bucket(k, b, Quarter, h)
           batch == Answer(w, keys, h)
<1>1. batch = {bucket(k, b) : k \in keys, b \in BucketStarts(w)}
    BY DEF Answer
<1>2. \A k \in keys, b \in BucketStarts(w) :
        bucket(k, b).key = k /\ bucket(k, b).start = b /\ bucket(k, b).end = b + Quarter
    BY DEF Bucket
<1>3. \A b : b \in BucketStarts(w) <=>
              b \in Int /\ w.start <= b /\ b < w.end /\ (b - w.start) % Quarter = 0
    BY <1>0 DEF BucketStarts
<1> HIDE DEF bucket, batch
<1>4. ASSUME NEW k \in keys, NEW b \in BucketStarts(w), Oldest(bucket(k, b), batch)
      PROVE  b <= Start
    <2>1. w.start \in BucketStarts(w)
        <3>1. (w.start - w.start) % Quarter = 0
            BY <1>0
        <3> QED BY <1>0, <1>3, <3>1
    <2>2. b <= w.start
        BY <1>1, <1>2, <1>4, <2>1 DEF Oldest
    <2> QED BY <1>0, <1>3, <2>2
<1>5. ASSUME NEW k \in keys, NEW b \in BucketStarts(w), ~(b + Quarter >= Start)
      PROVE  \E o \in batch : o.key = k /\ b < o.start
    <2>1. ((b + Quarter) - w.start) % Quarter = 0
        BY <1>0, <1>3, GridNext
    <2>2. b + Quarter \in BucketStarts(w) /\ b < b + Quarter
        BY <1>0, <1>3, <1>5, <2>1
    <2> QED BY <1>1, <1>2, <2>2
<1>6. ASSUME NEW s \in batch
      PROVE  /\ Oldest(s, batch) => s.start <= Start
             /\ s.end >= Start \/ \E o \in batch : o.key = s.key /\ s.start < o.start
    <2>1. PICK k \in keys, b \in BucketStarts(w) : s = bucket(k, b)
        BY <1>1
    <2>2. s.key = k /\ s.start = b /\ s.end = b + Quarter
        BY <1>2, <2>1
    <2> QED BY <1>4, <1>5, <2>1, <2>2
<1> QED BY <1>6 DEF batch

LEMMA InitFromStart == Init => FromStart
<1> SUFFICES ASSUME Init PROVE FromStart
    OBVIOUS
<1>0. Start \in Nat /\ LiveWindow \in Nat
    BY MeterAssumption, WindowAssumption
<1>1. ~Unseen.marked /\ IdlePoll.phase = "idle" /\ IdlePoll.samples = {}
    BY DEF Unseen, IdlePoll
<1>2. \A k \in Keys, t \in Int : t <= Start => Metered(k, t) = 0
    BY <1>0 DEF Init, Metered
<1>3. SpansStart(IdlePoll)
    BY <1>1 DEF SpansStart
<1> QED BY <1>0, <1>1, <1>2, <1>3 DEF Init, FromStart, ReachesStart, EmptyLedger

LEMMA StillFromStart ==
    ASSUME FromStart, now' = now, cum' = cum,
           \A c \in Coordinators, k \in Keys : ReachesStart(ledger'[c][k]),
           \A k \in Keys : ReachesStart(store'[k]),
           \A c \in Coordinators, i \in Slots : SpansStart(polls'[c][i])
    PROVE  FromStart'
<1>1. (\A k \in Keys, t \in Int : t <= Start => Metered(k, t) = 0)'
    BY DEF FromStart, Metered
<1> QED BY <1>1 DEF FromStart, ReachesStart, SpansStart, Oldest

\* One poll replaced, ledgers and store left alone.
LEMMA PollFromStart ==
    ASSUME TypeOK, FromStart, NEW c \in Coordinators, NEW i \in Slots, NEW q, SpansStart(q),
           polls' = [polls EXCEPT ![c][i] = q],
           UNCHANGED <<now, cum, ledger, store>>
    PROVE  FromStart'
<1>1. \A d \in Coordinators, j \in Slots :
        polls'[d][j] = IF d = c /\ j = i THEN q ELSE polls[d][j]
    BY DEF TypeOK
<1>2. \A d \in Coordinators, j \in Slots : SpansStart(polls'[d][j])
    BY <1>1 DEF FromStart
<1> QED BY <1>2, StillFromStart DEF FromStart

\* One entry and one poll replaced.
LEMMA FoldFromStart ==
    ASSUME TypeOK, FromStart, NEW c \in Coordinators, NEW i \in Slots, NEW k \in Keys,
           NEW n, ReachesStart(n), NEW q, SpansStart(q),
           ledger' = [ledger EXCEPT ![c][k] = n],
           polls' = [polls EXCEPT ![c][i] = q],
           UNCHANGED <<now, cum, store>>
    PROVE  FromStart'
<1>1. \A d \in Coordinators, j \in Slots :
        polls'[d][j] = IF d = c /\ j = i THEN q ELSE polls[d][j]
    BY DEF TypeOK
<1>2. \A d \in Coordinators, j \in Keys :
        ledger'[d][j] = IF d = c /\ j = k THEN n ELSE ledger[d][j]
    BY DEF TypeOK
<1>3. \A d \in Coordinators, j \in Slots : SpansStart(polls'[d][j])
    BY <1>1 DEF FromStart
<1>4. \A d \in Coordinators, j \in Keys : ReachesStart(ledger'[d][j])
    BY <1>2 DEF FromStart
<1> QED BY <1>3, <1>4, StillFromStart DEF FromStart

LEMMA MeterTickFromStart ==
    ASSUME TypeOK, FromStart, MeterTick, MaxNow <= Start + LiveWindow
    PROVE  FromStart'
<1>0. /\ now \in Nat /\ now' = now + 1 /\ now < MaxNow /\ UNCHANGED <<ledger, store, polls>>
      /\ Start \in Int /\ LiveWindow \in Int /\ MaxNow \in Int
    BY MeterAssumption, WindowAssumption DEF MeterTick, TypeOK
<1>1. Start <= now' /\ now' <= Start + LiveWindow
    BY <1>0 DEF FromStart
<1>2. ASSUME NEW k \in Keys, NEW t \in Int, t <= Start
      PROVE  Metered(k, t)' = 0
    <2>1. t <= now
        BY <1>0, <1>2 DEF FromStart
    <2> QED BY <1>2, <2>1, MeteredStays DEF FromStart
<1>3. (\A k \in Keys, t \in Int : t <= Start => Metered(k, t) = 0)'
    BY <1>2
<1>4. /\ (\A c \in Coordinators, k \in Keys : ReachesStart(ledger[c][k]))'
      /\ (\A k \in Keys : ReachesStart(store[k]))'
      /\ (\A c \in Coordinators, i \in Slots : SpansStart(polls[c][i]))'
    BY <1>0 DEF FromStart, ReachesStart, SpansStart, Oldest
<1> QED BY <1>1, <1>3, <1>4 DEF FromStart

LEMMA LifeFromStart ==
    ASSUME TypeOK, FromStart, NEW c \in Coordinators,
           Crash \/ Remove \/ Setup(c) \/ Shutdown(c) \/ DelayedSave(c)
    PROVE  FromStart'
<1>1. /\ \A d \in Coordinators, k \in Keys : ReachesStart(ledger[d][k])
      /\ \A k \in Keys : ReachesStart(store[k])
      /\ \A d \in Coordinators, i \in Slots : SpansStart(polls[d][i])
    BY DEF FromStart
<1>2. \A k \in Keys : ReachesStart(EmptyLedger[k])
    BY DEF ReachesStart, EmptyLedger, Unseen
<1>3. SpansStart(IdlePoll)
    BY DEF SpansStart, IdlePoll
<1>4. CASE Crash
    BY <1>1, <1>2, <1>3, <1>4, StillFromStart DEF Crash
<1>5. CASE Remove
    BY <1>1, <1>2, <1>5, StillFromStart DEF Remove
<1>6. CASE Setup(c)
    <2>1. \A d \in Coordinators : ledger'[d] = IF d = c THEN store ELSE ledger[d]
        BY <1>6 DEF Setup, TypeOK
    <2> QED BY <1>1, <1>6, <2>1, StillFromStart DEF Setup
<1>7. CASE Shutdown(c)
    BY <1>1, <1>7, StillFromStart DEF Shutdown
<1>8. CASE DelayedSave(c)
    BY <1>1, <1>8, StillFromStart DEF DelayedSave
<1> QED BY <1>4, <1>5, <1>6, <1>7, <1>8

LEMMA adoptFromStart ==
    ASSUME TypeOK, FromStart, NEW c \in Coordinators, NEW k \in Keys, NEW total \in Seeds,
           adopt(c, k, total)
    PROVE  FromStart'
<1> DEFINE n == [Unseen EXCEPT !.known = TRUE, !.total = total]
<1>1. ReachesStart(n)
    BY DEF ReachesStart, Unseen
<1>2. ledger' = [ledger EXCEPT ![c][k] = n] /\ UNCHANGED <<now, cum, polls, store>>
    BY DEF adopt
<1> HIDE DEF n
<1>3. \A d \in Coordinators, j \in Keys :
        ledger'[d][j] = IF d = c /\ j = k THEN n ELSE ledger[d][j]
    BY <1>2 DEF TypeOK
<1> QED BY <1>1, <1>2, <1>3, StillFromStart DEF FromStart

LEMMA AskFromStart ==
    ASSUME IInv, CInv, FromStart, NEW c \in Coordinators, NEW i \in Slots,
           PollStart(c, i) \/ PollPlan(c, i) \/ PollCall(c, i)
    PROVE  FromStart'
<1> DEFINE p == polls[c][i]
<1>0. TypeOK /\ p \in Polls /\ now \in Int /\ Sound(p) /\ SpansStart(p)
    BY DEF IInv, TypeOK, CInv, FromStart
<1>1. CASE PollStart(c, i)
    <2>1. PICK m \in {0} \cup MarkEnds(ledger[c]) :
            polls' = [polls EXCEPT ![c][i] = [IdlePoll EXCEPT !.phase = "queued", !.cursor = m]]
        BY <1>1 DEF PollStart
    <2>2. m = 0 \/ m >= Start
        BY DEF MarkEnds, FromStart, ReachesStart
    <2> DEFINE q == [IdlePoll EXCEPT !.phase = "queued", !.cursor = m]
    <2>3. q.phase = "queued" /\ q.cursor = m /\ q.samples = {}
        BY DEF IdlePoll
    <2>4. polls' = [polls EXCEPT ![c][i] = q] /\ UNCHANGED <<now, cum, ledger, store>>
        BY <1>1, <2>1 DEF PollStart
    <2> HIDE DEF q
    <2>5. SpansStart(q)
        BY <2>2, <2>3 DEF SpansStart
    <2> QED BY <1>0, <2>4, <2>5, PollFromStart
<1>2. CASE PollPlan(c, i)
    <2> DEFINE plan == plan_windows(now, p.cursor)
               q == [p EXCEPT !.phase = "asking", !.todo = plan]
    <2>1. p.phase = "queued" /\ p.samples = {} /\ p.cursor \in Int
        BY <1>0, <1>2 DEF PollPlan, Polls, Sound, AsksLive
    <2>2. plan = {LiveWindowAt(now)}
        <3>1. p.cursor = 0 \/ p.cursor >= LiveStart(now)
            BY <2>1, FromStartUnbroken DEF Unbroken, NoBackfill
        <3>2. ~(0 < p.cursor /\ p.cursor < LiveStart(now))
            BY <1>0, <2>1, <3>1, LiveReachesStart
        <3> QED BY <3>2 DEF plan_windows
    <2>3. LiveWindowAt(now).start <= Start /\ LiveWindowAt(now).end >= Start
        <3>1. LiveStart(now) <= Start /\ now >= Start
            BY <1>0, LiveReachesStart, MeterAssumption DEF FromStart
        <3> QED BY <3>1 DEF LiveWindowAt
    <2>4. q.phase = "asking" /\ q.todo = plan /\ q.samples = {}
        <3> HIDE DEF p, plan
        <3> QED BY <1>0, <2>1 DEF Polls
    <2>5. polls' = [polls EXCEPT ![c][i] = q] /\ UNCHANGED <<now, cum, ledger, store>>
        BY <1>2 DEF PollPlan
    <2> HIDE DEF p, q, plan
    <2>6. SpansStart(q)
        BY <2>2, <2>3, <2>4 DEF SpansStart
    <2> QED BY <1>0, <2>5, <2>6, PollFromStart
<1>3. CASE PollCall(c, i)
    <2>1. p.phase = "asking" /\ p.samples = {}
        BY <1>0, <1>3 DEF PollCall, Sound, AsksLive
    <2>2. PICK w \in p.todo, horizon \in (now - MaxLag)..now, keys \in SUBSET Keys :
            polls' = [polls EXCEPT ![c][i] =
                  [p EXCEPT !.phase = IF p.todo = {w} THEN "answered" ELSE "asking",
                            !.todo = p.todo \ {w},
                            !.samples = p.samples \cup Answer(w, keys, horizon)]]
        BY <1>3 DEF PollCall
    <2>3. /\ p.todo = {w} /\ w \in Windows /\ w.step = Quarter
          /\ w.start <= Start /\ w.end >= Start /\ horizon \in Int
        BY <1>0, <2>1, MeterAssumption DEF Sound, AsksLive, SpansStart
    <2> DEFINE batch == Answer(w, keys, horizon)
               q == [p EXCEPT !.phase = "answered", !.todo = p.todo \ {w}, !.samples = batch]
    <2>4. polls' = [polls EXCEPT ![c][i] = q]
        <3>1. p.samples \cup batch = batch
            BY <2>1
        <3> HIDE DEF p, batch
        <3> QED BY <2>2, <2>3, <3>1 DEF batch
    <2>5. \A s \in batch :
            /\ Oldest(s, batch) => s.start <= Start
            /\ s.end >= Start \/ \E o \in batch : o.key = s.key /\ s.start < o.start
        BY <2>3, AnswerSpansStart
    <2>6. q.phase = "answered" /\ q.samples = batch
        <3> HIDE DEF p, batch
        <3> QED BY <1>0 DEF Polls
    <2> HIDE DEF p, q, batch
    <2>7. SpansStart(q)
        BY <2>5, <2>6 DEF SpansStart
    <2> QED BY <1>0, <1>3, <2>4, <2>7, PollFromStart DEF PollCall
<1> QED BY <1>1, <1>2, <1>3

LEMMA ApplyFromStart ==
    ASSUME IInv, CInv, FromStart, NEW c \in Coordinators, NEW i \in Slots,
           \/ PollFail(c, i) \/ ApplyEnd(c, i) \/ ApplyBegin(c, i)
           \/ ApplyPrime(c, i) \/ ApplyAdvance(c, i)
    PROVE  FromStart'
<1> DEFINE p == polls[c][i]
<1>0. TypeOK /\ p \in Polls /\ p.samples \subseteq Samples /\ SpansStart(p) /\ Start \in Int
    BY MeterAssumption DEF IInv, TypeOK, FromStart, Polls
<1>1. CASE PollFail(c, i) \/ ApplyEnd(c, i)
    <2>1. SpansStart(IdlePoll)
        BY DEF SpansStart, IdlePoll
    <2>2. polls' = [polls EXCEPT ![c][i] = IdlePoll] /\ UNCHANGED <<now, cum, ledger, store>>
        BY <1>1 DEF PollFail, ApplyEnd
    <2> QED BY <1>0, <2>1, <2>2, PollFromStart
<1>2. CASE ApplyBegin(c, i)
    <2> DEFINE q == [p EXCEPT !.phase = "folding"]
    <2>1. q.phase = "folding" /\ q.samples = p.samples
        <3> HIDE DEF p
        <3> QED BY <1>0 DEF Polls
    <2>2. polls' = [polls EXCEPT ![c][i] = q] /\ UNCHANGED <<now, cum, ledger, store>>
        BY <1>2 DEF ApplyBegin
    <2> HIDE DEF p, q
    <2>3. SpansStart(q)
        BY <1>0, <2>1 DEF SpansStart
    <2> QED BY <1>0, <2>2, <2>3, PollFromStart
<1>3. CASE ApplyPrime(c, i)
    <2>1. PICK s \in p.samples :
            /\ \A o \in p.samples : o.key = s.key => ~Precedes(s, o)
            /\ ledger' = [ledger EXCEPT ![c][s.key] = prime(ledger[c][s.key], s)]
            /\ polls' = [polls EXCEPT ![c][i] =
                 [p EXCEPT !.samples = {o \in p.samples : o.key # s.key}, !.changed = TRUE]]
        BY <1>3 DEF ApplyPrime
    <2> DEFINE n == prime(ledger[c][s.key], s)
               rest == {o \in p.samples : o.key # s.key}
               q == [p EXCEPT !.samples = rest, !.changed = TRUE]
    <2>2. s.key \in Keys /\ ledger[c][s.key] \in Entries /\ p.phase = "folding"
        <3>1. s \in Samples /\ s.key \in Keys /\ ledger[c][s.key] \in Entries
            BY <1>0, <2>1 DEF Samples, TypeOK
        <3> QED BY <1>3, <3>1 DEF ApplyPrime
    <2>3. s.end >= Start
        BY <1>0, <2>1 DEF SpansStart, Precedes
    <2>4. ReachesStart(n)
        <3>1. n.end = s.end
            BY <2>2 DEF prime, Entries
        <3> QED BY <2>3, <3>1 DEF ReachesStart
    <2>5. q.phase = "folding" /\ q.samples = rest
        <3> HIDE DEF p, rest
        <3> QED BY <1>0, <2>2 DEF Polls
    <2>6. \A a \in rest :
            a.end >= Start \/ \E o \in rest : o.key = a.key /\ a.start < o.start
        BY <1>0 DEF SpansStart
    <2>7. /\ ledger' = [ledger EXCEPT ![c][s.key] = n] /\ polls' = [polls EXCEPT ![c][i] = q]
          /\ UNCHANGED <<now, cum, store>>
        BY <1>3, <2>1 DEF ApplyPrime
    <2> HIDE DEF p, q, n, rest
    <2>8. SpansStart(q)
        BY <2>5, <2>6 DEF SpansStart
    <2> QED BY <1>0, <2>2, <2>4, <2>7, <2>8, FoldFromStart
<1>4. CASE ApplyAdvance(c, i)
    <2>1. PICK s \in p.samples :
            /\ ledger[c][s.key].marked
            /\ \A o \in p.samples : o.key = s.key => ~Precedes(o, s)
            /\ ledger' = [ledger EXCEPT ![c][s.key] = _advance(ledger[c][s.key], s)]
            /\ polls' = [polls EXCEPT ![c][i] =
                 [p EXCEPT !.samples = p.samples \ {s},
                           !.changed = p.changed \/ Moved(ledger[c][s.key], s)]]
        BY <1>4 DEF ApplyAdvance
    <2> DEFINE e == ledger[c][s.key]
               n == _advance(e, s)
               rest == p.samples \ {s}
               moved == p.changed \/ Moved(e, s)
               q == [p EXCEPT !.samples = rest, !.changed = moved]
    <2>2. /\ s \in Samples /\ s.key \in Keys /\ e \in Entries /\ p.phase = "folding"
          /\ HonestSample(s) /\ HonestEntry(s.key, e)
        <3>1. s \in Samples /\ s.key \in Keys /\ e \in Entries
            BY <1>0, <2>1 DEF Samples, TypeOK
        <3> QED BY <1>4, <2>1, <3>1 DEF ApplyAdvance, IInv
    <2>3. e.end \in Int /\ e.end >= Start
        BY <2>1, <2>2 DEF FromStart, ReachesStart, Entries
    <2>4. ReachesStart(n)
        <3>1. n \in Entries /\ n.end >= e.end
            <4>1. e.marked
                BY <2>1
            <4> HIDE DEF e
            <4> QED BY <2>2, <4>1, AdvanceHonest DEF IInv
        <3>2. n.end \in Int
            BY <3>1 DEF Entries
        <3> HIDE DEF n
        <3> QED BY <1>0, <2>3, <3>1, <3>2 DEF ReachesStart
    <2>5. q.phase = "folding" /\ q.samples = rest
        <3> HIDE DEF p, rest, moved
        <3> QED BY <1>0, <2>2 DEF Polls
    <2>6. ASSUME NEW a \in rest
          PROVE  a.end >= Start \/ \E o \in rest : o.key = a.key /\ a.start < o.start
        <3> SUFFICES ASSUME NEW o \in p.samples, o.key = a.key, a.start < o.start
                     PROVE  o # s
            BY <1>0 DEF SpansStart
        <3>1. a.start \in Int /\ s.start \in Int
            BY <1>0, <2>2 DEF Samples
        <3> QED BY <2>1, <3>1 DEF Precedes
    <2>7. /\ ledger' = [ledger EXCEPT ![c][s.key] = n] /\ polls' = [polls EXCEPT ![c][i] = q]
          /\ UNCHANGED <<now, cum, store>>
        BY <1>4, <2>1 DEF ApplyAdvance
    <2> HIDE DEF p, q, n, rest
    <2>8. SpansStart(q)
        BY <2>5, <2>6 DEF SpansStart
    <2> QED BY <1>0, <2>2, <2>4, <2>7, <2>8, FoldFromStart
<1> QED BY <1>1, <1>2, <1>3, <1>4

LEMMA FromStartStep ==
    ASSUME MaxNow <= Start + LiveWindow, IInv, CInv, FromStart, [Next]_vars
    PROVE  FromStart'
<1>0. TypeOK
    BY DEF IInv
<1>1. CASE MeterTick
    BY <1>0, <1>1, MeterTickFromStart
<1>2. CASE Crash \/ Remove
    <2>1. PICK c \in Coordinators : TRUE
        BY <1>2 DEF Crash, Remove
    <2> QED BY <1>0, <1>2, <2>1, LifeFromStart
<1>3. ASSUME NEW c \in Coordinators,
             Setup(c) \/ Shutdown(c) \/ DelayedSave(c)
      PROVE  FromStart'
    BY <1>0, <1>3, LifeFromStart
<1>4. ASSUME NEW c \in Coordinators, NEW k \in Keys, NEW total \in Seeds,
             adopt(c, k, total)
      PROVE  FromStart'
    BY <1>0, <1>4, adoptFromStart
<1>5. ASSUME NEW c \in Coordinators, NEW i \in Slots, Poll(c, i)
      PROVE  FromStart'
    BY <1>5, AskFromStart, ApplyFromStart DEF Poll
<1>6. CASE UNCHANGED vars
    BY <1>6, StillFromStart DEF vars, FromStart
<1> QED BY <1>1, <1>2, <1>3, <1>4, <1>5, <1>6 DEF Next

\* Nothing need be assumed of the polls while the live window reaches back to the time
\* the meters started: an outage that long, restarts, crashes and unmetered keys
\* included, is repaired from the panel's own history.
THEOREM OutageIsRepaired ==
    MaxLag = 0 /\ MaxNow <= Start + LiveWindow /\ Spec => []CoveredIsAccounted
<1> SUFFICES ASSUME MaxLag = 0, MaxNow <= Start + LiveWindow
             PROVE  Spec => []CoveredIsAccounted
    OBVIOUS
<1>1. Init => CInv /\ FromStart
    BY InitCInv, InitFromStart
<1>2. IInv /\ CInv /\ FromStart /\ [Next]_vars => CInv' /\ FromStart'
    BY FromStartUnbroken, CInvStep, FromStartStep
<1>3. CInv => CoveredIsAccounted
    BY DEF CInv, Accounted, CoveredIsAccounted
<1> QED BY <1>1, <1>2, <1>3, LedgerInvariant, PTL DEF Spec

=============================================================================
