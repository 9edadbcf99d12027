---------------------------- MODULE EnergyLedger ----------------------------
(***************************************************************************)
(* Measured energy: energy.py's EnergyLedger, the poll that feeds it        *)
(* (coordinator._poll_energy, CloudBackend.fetch_energy) and the store that *)
(* carries it across restarts.                                             *)
(*                                                                         *)
(* A coordinator is one load of the config entry.  Everything that runs on *)
(* Home Assistant's event loop is one action, except `apply`, whose loops   *)
(* take one step per key primed or bucket advanced: no other loop action   *)
(* runs in between (LoopFree), while the meters and the executor threads   *)
(* do.  A poll may outlive its timer period and even the unload of its     *)
(* entry, since nothing cancels it, so several may be in flight.           *)
(*                                                                         *)
(* Energy is counted in whole units.  SPAN is external: it meters          *)
(* (MeterTick), and answers a window with what it had metered up to some   *)
(* earlier moment (PollCall).                                              *)
(***************************************************************************)
EXTENDS HistoryWindows

CONSTANTS
    Keys,          \* metered property keys, e.g. circuit-7/power
    Coordinators,  \* successive loads of the config entry
    Slots,         \* polls one coordinator may have in flight
    Seeds,         \* totals a restored entity may offer to `adopt`
    Rates,         \* energy one key may draw in a tick
    MaxLag,        \* SPAN may be this many ticks behind its own meters
    MayOmit,       \* SPAN may leave a key that has energy out of an answer
    Start,         \* the clock when the model starts
    MaxNow         \* bound: the clock stops here

ASSUME MeterAssumption ==
    /\ Seeds \subseteq Nat
    /\ Rates \subseteq Nat
    /\ MaxLag \in Nat
    /\ MayOmit \in BOOLEAN
    /\ Start \in Nat
    /\ MaxNow \in Nat

VARIABLES
    now,      \* the clock, in ticks
    cum,      \* cum[k][t]: energy key k has drawn by time t
    phase,    \* of each coordinator: "new", "running", "closed", "gone"
    ledger,   \* ledger[c][k]: coordinator c's _entries[k]
    saving,   \* coordinators with a delayed save scheduled
    polls,    \* polls[c][i]: the i-th poll coordinator c may have in flight
    store,    \* the ledger snapshot on disk
    removed   \* the config entry has been deleted

vars == <<now, cum, phase, ledger, saving, polls, store, removed>>

-----------------------------------------------------------------------------
(* Data *)

\* _Entry.  `known` is membership in _entries, `marked` is last_start_ms not
\* being None.  `origin` is a history variable the code does not have: what the
\* meter showed when the key was primed, less the total it was primed with.
\* `_sealed` is left out: `adopt` and `load` put a key in _entries whenever they
\* seal it, so the membership test of `adopt` decides alone.
Entries == [known : BOOLEAN, marked : BOOLEAN, total : Nat,
            start : Int, end : Int, counted : Nat, origin : Int]

Unseen == [known |-> FALSE, marked |-> FALSE, total |-> 0,
           start |-> 0, end |-> 0, counted |-> 0, origin |-> 0]

EmptyLedger == [k \in Keys |-> Unseen]

\* EnergySample
Samples == [key : Keys, start : Int, end : Int, kwh : Nat]

\* One call of _poll_energy: waiting for an executor thread with the cursor it
\* read, asking SPAN, holding the answer, or being folded into the ledger.
Polls == [phase   : {"idle", "queued", "asking", "answered", "folding"},
          cursor  : Int,
          todo    : SUBSET Windows,
          samples : SUBSET Samples,
          changed : BOOLEAN]

IdlePoll == [phase |-> "idle", cursor |-> 0, todo |-> {}, samples |-> {},
             changed |-> FALSE]

\* What key k had drawn by time t.
Metered(k, t) == IF t < 0 THEN 0 ELSE IF t > now THEN cum[k][now] ELSE cum[k][t]

Earlier(a, b) == IF a < b THEN a ELSE b

\* The bucket [s, s + step) of key k, as SPAN sees it when its meters are
\* known up to `horizon`.
Bucket(k, s, step, horizon) ==
    [key |-> k, start |-> s, end |-> s + step,
     kwh |-> Metered(k, Earlier(s + step, horizon)) - Metered(k, Earlier(s, horizon))]

Answer(w, keys, horizon) ==
    {Bucket(k, s, w.step, horizon) : k \in keys, s \in BucketStarts(w)}

\* Mutant: newest first.
NewestFirst(a, b) == a.start > b.start \/ (a.start = b.start /\ a.end > b.end)

Precedes(a, b) == a.start < b.start \/ (a.start = b.start /\ a.end < b.end)

-----------------------------------------------------------------------------
(* The ledger's rules *)

MarkEnds(entries) == {entries[k].end : k \in {j \in Keys : entries[j].marked}}

\* The cursor: the newest end of a mark, 0 when no key has one.
IsCoveredThrough(m, entries) ==
    IF MarkEnds(entries) = {} THEN m = 0
    ELSE m \in MarkEnds(entries) /\ \A e \in MarkEnds(entries) : e <= m

SameBucket(e, s) == s.start = e.start /\ s.end = e.end

\* A key's first batch only sets the mark, at its newest bucket.
prime(e, s) ==
    [e EXCEPT !.known = TRUE, !.marked = TRUE, !.start = s.start, !.end = s.end,
              !.counted = s.kwh, !.origin = Metered(s.key, s.start) + s.kwh - e.total]

\* Mutant: a figure revised down is subtracted.
GrowthOrShrink(e, s) ==
    IF SameBucket(e, s)
    THEN [e EXCEPT !.counted = s.kwh, !.total = e.total + (s.kwh - e.counted)]
    ELSE IF s.start >= e.end
         THEN [e EXCEPT !.start = s.start, !.end = s.end, !.counted = s.kwh,
                        !.total = e.total + s.kwh]
         ELSE e

\* Mutant: a bucket that overlaps the mark is new time.
OverlapIsNew(e, s) ==
    IF SameBucket(e, s)
    THEN IF s.kwh > e.counted
         THEN [e EXCEPT !.counted = s.kwh, !.total = e.total + (s.kwh - e.counted)]
         ELSE e
    ELSE IF s.start >= e.start
         THEN [e EXCEPT !.start = s.start, !.end = s.end, !.counted = s.kwh,
                        !.total = e.total + s.kwh]
         ELSE e

_advance(e, s) ==
    IF SameBucket(e, s)
    THEN IF s.kwh > e.counted
         THEN [e EXCEPT !.counted = s.kwh, !.total = e.total + (s.kwh - e.counted)]
         ELSE e
    ELSE IF s.start >= e.end
         THEN [e EXCEPT !.start = s.start, !.end = s.end, !.counted = s.kwh,
                        !.total = e.total + s.kwh]
         ELSE e

\* _advance's result: an idle bucket moves the mark but reports no change.
Moved(e, s) ==
    IF SameBucket(e, s) THEN s.kwh > e.counted ELSE s.start >= e.end /\ s.kwh > 0

-----------------------------------------------------------------------------
Init ==
    /\ now = Start
    /\ cum = [k \in Keys |-> [t \in 0..Start |-> 0]]
    /\ phase = [c \in Coordinators |-> "new"]
    /\ ledger = [c \in Coordinators |-> EmptyLedger]
    /\ saving = {}
    /\ polls = [c \in Coordinators |-> [i \in Slots |-> IdlePoll]]
    /\ store = EmptyLedger
    /\ removed = FALSE

\* Nothing else runs on the event loop while a batch is being folded in.
LoopFree == \A c \in Coordinators, i \in Slots : polls[c][i].phase # "folding"

(* SPAN's meters *)

MeterTick ==
    /\ now < MaxNow
    /\ now' = now + 1
    /\ \E draw \in [Keys -> Rates] :
         cum' = [k \in Keys |-> [t \in 0..(now + 1) |->
                   IF t <= now THEN cum[k][t] ELSE cum[k][now] + draw[k]]]
    /\ UNCHANGED <<phase, ledger, saving, polls, store, removed>>

(* The config entry's life *)

\* Mutant: what was counted of the open bucket is not restored.
SetupUncounted(c) ==
    /\ LoopFree
    /\ ~removed
    /\ phase[c] = "new"
    /\ \A d \in Coordinators : phase[d] # "running"
    /\ phase' = [phase EXCEPT ![c] = "running"]
    /\ ledger' = [ledger EXCEPT ![c] = [k \in Keys |-> [store[k] EXCEPT !.counted = 0]]]
    /\ UNCHANGED <<now, cum, saving, polls, store, removed>>

\* async_start: the stored snapshot becomes the ledger.
Setup(c) ==
    /\ LoopFree
    /\ ~removed
    /\ phase[c] = "new"
    /\ \A d \in Coordinators : phase[d] # "running"
    /\ phase' = [phase EXCEPT ![c] = "running"]
    /\ ledger' = [ledger EXCEPT ![c] = store]
    /\ UNCHANGED <<now, cum, saving, polls, store, removed>>

\* async_shutdown: timers are cancelled and the pending save is forced out.  A
\* poll in flight is not cancelled.
Shutdown(c) ==
    /\ LoopFree
    /\ phase[c] = "running"
    /\ phase' = [phase EXCEPT ![c] = "closed"]
    /\ store' = ledger[c]
    /\ saving' = saving \ {c}
    /\ UNCHANGED <<now, cum, ledger, polls, removed>>

\* The process dies.  The snapshot last written is all that remains.
Crash ==
    /\ \E c \in Coordinators : phase[c] = "running"
    /\ phase' = [c \in Coordinators |-> IF phase[c] = "new" THEN "new" ELSE "gone"]
    /\ saving' = {}
    /\ polls' = [c \in Coordinators |-> [i \in Slots |-> IdlePoll]]
    /\ ledger' = [c \in Coordinators |-> EmptyLedger]
    /\ UNCHANGED <<now, cum, store, removed>>

\* async_remove_entry
Remove ==
    /\ LoopFree
    /\ ~removed
    /\ \A c \in Coordinators : phase[c] # "running"
    /\ \E c \in Coordinators : phase[c] = "closed"
    /\ removed' = TRUE
    /\ store' = EmptyLedger
    /\ UNCHANGED <<now, cum, phase, ledger, saving, polls>>

\* Home Assistant's Store calls as_dict when the delay of a save runs out.
DelayedSave(c) ==
    /\ LoopFree
    /\ c \in saving
    /\ store' = ledger[c]
    /\ saving' = saving \ {c}
    /\ UNCHANGED <<now, cum, phase, ledger, polls, removed>>

\* Mutant: an offer is taken whatever the ledger has.
AdoptAlways(c, k, total) ==
    /\ LoopFree
    /\ phase[c] = "running"
    /\ ledger' = [ledger EXCEPT ![c][k] = [Unseen EXCEPT !.known = TRUE, !.total = total]]
    /\ UNCHANGED <<now, cum, phase, saving, polls, store, removed>>

\* An entity restored with a total of its own hands it over, as often as it is
\* added; a key that has an entry keeps it.
adopt(c, k, total) ==
    /\ LoopFree
    /\ phase[c] = "running"
    /\ ~ledger[c][k].known
    /\ ledger' = [ledger EXCEPT ![c][k] = [Unseen EXCEPT !.known = TRUE, !.total = total]]
    /\ UNCHANGED <<now, cum, phase, saving, polls, store, removed>>

(* One poll *)

\* The timer fires: the cursor is read on the loop, the fetch queued.
PollStart(c, i) ==
    /\ LoopFree
    /\ phase[c] = "running"
    /\ polls[c][i].phase = "idle"
    /\ \E m \in {0} \cup MarkEnds(ledger[c]) :
         /\ IsCoveredThrough(m, ledger[c])
         /\ polls' = [polls EXCEPT ![c][i] =
                        [IdlePoll EXCEPT !.phase = "queued", !.cursor = m]]
    /\ UNCHANGED <<now, cum, phase, ledger, saving, store, removed>>

\* fetch_energy, on an executor thread: the windows are planned from the clock of
\* that moment and the cursor of the earlier one.
PollPlan(c, i) ==
    /\ polls[c][i].phase = "queued"
    /\ polls' = [polls EXCEPT ![c][i] =
                   [polls[c][i] EXCEPT !.phase = "asking",
                                       !.todo = plan_windows(now, polls[c][i].cursor)]]
    /\ UNCHANGED <<now, cum, phase, ledger, saving, store, removed>>

\* One gRPC call.  SPAN leaves out keys that are idle all through the window, and
\* others too when MayOmit.
PollCall(c, i) ==
    LET p == polls[c][i] IN
    /\ p.phase = "asking"
    /\ \E w \in p.todo, horizon \in (now - MaxLag)..now, keys \in SUBSET Keys :
         /\ CoarsestFirst(w, p.todo)
         /\ MayOmit \/ \A k \in Keys \ keys :
              Metered(k, w.start) = Metered(k, w.end + w.step)
         /\ polls' = [polls EXCEPT ![c][i] =
              [p EXCEPT !.phase = IF p.todo = {w} THEN "answered" ELSE "asking",
                        !.todo = p.todo \ {w},
                        !.samples = p.samples \cup Answer(w, keys, horizon)]]
    /\ UNCHANGED <<now, cum, phase, ledger, saving, store, removed>>

\* Any failure of the fetch loses the whole batch, answered windows included.
PollFail(c, i) ==
    /\ LoopFree
    /\ polls[c][i].phase \in {"queued", "asking"}
    /\ polls' = [polls EXCEPT ![c][i] = IdlePoll]
    /\ UNCHANGED <<now, cum, phase, ledger, saving, store, removed>>

\* The coroutine resumes on the loop and starts to fold its samples.
ApplyBegin(c, i) ==
    /\ LoopFree
    /\ polls[c][i].phase = "answered"
    /\ polls' = [polls EXCEPT ![c][i] = [polls[c][i] EXCEPT !.phase = "folding"]]
    /\ UNCHANGED <<now, cum, phase, ledger, saving, store, removed>>

\* A key without a mark: the newest bucket of its group primes it, the group is
\* done.
ApplyPrime(c, i) ==
    LET p == polls[c][i] IN
    /\ p.phase = "folding"
    /\ \E s \in p.samples :
         /\ ~ledger[c][s.key].marked
         /\ \A o \in p.samples : o.key = s.key => ~Precedes(s, o)
         /\ ledger' = [ledger EXCEPT ![c][s.key] = prime(ledger[c][s.key], s)]
         /\ polls' = [polls EXCEPT ![c][i] =
              [p EXCEPT !.samples = {o \in p.samples : o.key # s.key}, !.changed = TRUE]]
    /\ UNCHANGED <<now, cum, phase, saving, store, removed>>

\* A key with a mark: its oldest bucket not yet seen is advanced over.
ApplyAdvance(c, i) ==
    LET p == polls[c][i] IN
    /\ p.phase = "folding"
    /\ \E s \in p.samples :
         /\ ledger[c][s.key].marked
         /\ \A o \in p.samples : o.key = s.key => ~Precedes(o, s)
         /\ ledger' = [ledger EXCEPT ![c][s.key] = _advance(ledger[c][s.key], s)]
         /\ polls' = [polls EXCEPT ![c][i] =
              [p EXCEPT !.samples = p.samples \ {s},
                        !.changed = p.changed \/ Moved(ledger[c][s.key], s)]]
    /\ UNCHANGED <<now, cum, phase, saving, store, removed>>

\* The batch is in: a batch that changed a total or a mark schedules a save.
ApplyEnd(c, i) ==
    /\ polls[c][i].phase = "folding"
    /\ polls[c][i].samples = {}
    /\ saving' = IF polls[c][i].changed THEN saving \cup {c} ELSE saving
    /\ polls' = [polls EXCEPT ![c][i] = IdlePoll]
    /\ UNCHANGED <<now, cum, phase, ledger, store, removed>>

-----------------------------------------------------------------------------
Poll(c, i) ==
    \/ PollStart(c, i)
    \/ PollPlan(c, i)
    \/ PollCall(c, i)
    \/ PollFail(c, i)
    \/ ApplyBegin(c, i)
    \/ ApplyPrime(c, i)
    \/ ApplyAdvance(c, i)
    \/ ApplyEnd(c, i)

Next ==
    \/ MeterTick
    \/ Crash
    \/ Remove
    \/ \E c \in Coordinators :
         \/ Setup(c)
         \/ Shutdown(c)
         \/ DelayedSave(c)
         \/ \E k \in Keys, total \in Seeds : adopt(c, k, total)
         \/ \E i \in Slots : Poll(c, i)

Spec == Init /\ [][Next]_vars

-----------------------------------------------------------------------------
(* Properties *)

TypeOK ==
    /\ now \in Nat
    /\ cum \in [Keys -> [0..now -> Nat]]
    /\ phase \in [Coordinators -> {"new", "running", "closed", "gone"}]
    /\ ledger \in [Coordinators -> [Keys -> Entries]]
    /\ saving \in SUBSET Coordinators
    /\ polls \in [Coordinators -> [Slots -> Polls]]
    /\ store \in [Keys -> Entries]
    /\ removed \in BOOLEAN

\* What the entry has booked since it was primed was metered since then, and by
\* the end of its mark.
BookedWasMetered(k, e) == e.marked => e.total + e.origin <= Metered(k, e.end)

\* "The one thing this must never do is ... count an interval twice"
\* (EnergyLedger's docstring): no ledger, in memory or on disk, has booked more
\* for a key than SPAN metered after the reading that primed it, whatever the
\* order in which overlapping polls, saves, reloads and crashes happen.
NoDoubleCount ==
    \A k \in Keys :
        /\ BookedWasMetered(k, store[k])
        /\ \A c \in Coordinators : BookedWasMetered(k, ledger[c][k])

\* Why NoDoubleCount holds: the meters run forwards; a sample, in flight or in
\* hand, never says more than was metered between its bounds; and an entry has
\* booked the time before its mark, plus what it counted of the mark itself.
MetersRunForwards ==
    \A k \in Keys, s, t \in 0..now : s <= t => cum[k][s] <= cum[k][t]

HonestSample(s) ==
    /\ s.start <= s.end
    /\ s.kwh <= Metered(s.key, s.end) - Metered(s.key, s.start)

HonestEntry(k, e) ==
    e.marked =>
        /\ e.known
        /\ e.start <= e.end
        /\ e.counted <= Metered(k, e.end) - Metered(k, e.start)
        /\ e.total + e.origin <= Metered(k, e.start) + e.counted

IInv ==
    /\ TypeOK
    /\ MetersRunForwards
    /\ \A c \in Coordinators, i \in Slots : \A s \in polls[c][i].samples : HonestSample(s)
    /\ \A c \in Coordinators, k \in Keys : HonestEntry(k, ledger[c][k])
    /\ \A k \in Keys : HonestEntry(k, store[k])

\* "... go backwards": for as long as a coordinator's memory lasts, its unload
\* included, no key is forgotten, no total falls, and no mark moves back.
KeepsGoing(e, n) ==
    e.known =>
        /\ n.known
        /\ n.total >= e.total
        /\ e.marked => n.marked /\ n.end >= e.end

NoRewind ==
    \A c \in Coordinators, k \in Keys :
        phase[c] # "new" /\ phase'[c] # "gone" => KeepsGoing(ledger[c][k], ledger'[c][k])

NeverRewinds == [][NoRewind]_vars

\* covered_through_ms: "everything before it has been accounted for".  Nothing a
\* key drew between its priming and its mark is missing from its total.
CoveredIsAccounted ==
    \A c \in Coordinators, k \in Keys :
        LET e == ledger[c][k] IN
        e.marked => e.total + e.origin >= Metered(k, e.start) + e.counted

-----------------------------------------------------------------------------
(* Refinement *)

\* The abstract register an entry stands for: how much of the mark was counted, and
\* where it lies, do not show.
Register(e) == [known |-> e.known, metered |-> e.marked, total |-> e.total, base |-> e.origin]

MeterNow == [k \in Keys |-> Metered(k, now)]
InMemory == [c \in Coordinators |-> [k \in Keys |-> Register(ledger[c][k])]]
OnDisk == [k \in Keys |-> Register(store[k])]

Abstract == INSTANCE MeteredTotal
    WITH Loads <- Coordinators, meter <- MeterNow, memory <- InMemory, disk <- OnDisk

\* The ledger, its polls and its store are a set of metered registers: every step
\* of theirs, the folding of late, overlapping or revised buckets included, is a
\* step of such a register or shows nowhere.
ImplementsRegisters == Abstract!Spec

\* Before its setup a coordinator has counted nothing and asks nothing.
FreshLoads ==
    \A c \in Coordinators :
        phase[c] = "new" =>
            /\ ledger[c] = EmptyLedger
            /\ \A i \in Slots : polls[c][i].phase = "idle"
=============================================================================
