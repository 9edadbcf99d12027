---------------------------- MODULE RelayProofs -----------------------------
(***************************************************************************)
(* For any number of commands and attaches and any durations: as long as   *)
(* snapshots do not leave the circuit out, the switch looks off only if    *)
(* the breaker was, or SPAN has accepted to open it.  Within an attach     *)
(* nothing disturbs, the optimistic guess does not outlive an interval.    *)
(* And whatever happens, the refresh loops keep going, each in its time.   *)
(***************************************************************************)
EXTENDS RelayControl, TLAPS

\* SPAN's snapshots are complete, so what the backend has once seen it keeps: the
\* entity has a state only while the circuit is known, and a command only starts then.
NothingOmitted ==
    /\ "omit" \notin Turmoil
    /\ ~omits
    /\ known = "none" => buffer = "none" /\ data = "none"
    /\ \A c \in Commands : call[c].at # "idle" => known # "none"
    /\ \A e \in 1..MaxEpoch : loops[e].at = "answered" => loops[e].snapshot # "none"

\* While nobody has opened the breaker, no copy of its state says so: not the cache,
\* the buffer or the entity, no command that has reached SPAN, no snapshot in hand.
NobodySaysOpen ==
    ~asked =>
        /\ relay # "OPEN" /\ known # "OPEN" /\ buffer # "OPEN" /\ data # "OPEN"
        /\ \A c \in Commands :
             call[c].at \in {"sent", "guessed", "returned"} => call[c].value # "OPEN"
        /\ \A e \in 1..MaxEpoch : loops[e].snapshot # "OPEN"

IInv == TypeOK /\ NothingOmitted /\ NobodySaysOpen

-----------------------------------------------------------------------------
(* Loops *)

Places == {"gone", "delay", "calling", "answered", "announcing", "waiting", "woken"}

\* Every loop keeps the snapshot it has or forgets it.
SnapshotsKept ==
    /\ loops' \in [1..MaxEpoch -> Loops]
    /\ \A e \in 1..MaxEpoch :
         /\ loops'[e].snapshot \in {"none", loops[e].snapshot}
         /\ loops'[e].at = "answered" => loops[e].at = "answered"
                                         /\ loops'[e].snapshot = loops[e].snapshot

LEMMA NoLoopType ==
    /\ NoLoop \in Loops /\ NoLoop.at = "gone" /\ NoLoop.snapshot = "none"
    /\ NewLoop \in Loops /\ NewLoop.at = "delay" /\ NewLoop.snapshot = "none"
<1>1. NoLoop \in Loops /\ NoLoop.at = "gone" /\ NoLoop.snapshot = "none"
    BY DEF NoLoop, Loops, Readings
<1>2. NewLoop = [NoLoop EXCEPT !.at = "delay"]
    BY DEF NewLoop
<1>3. \A r \in Loops : LET n == [r EXCEPT !.at = "delay"] IN
         n \in Loops /\ n.at = "delay" /\ n.snapshot = r.snapshot
    BY DEF Loops
<1> QED BY <1>1, <1>2, <1>3

LEMMA LoopAtKeeps ==
    ASSUME TypeOK, NEW e \in 1..MaxEpoch, NEW where \in Places \ {"answered"}, LoopAt(e, where)
    PROVE  SnapshotsKept
<1>1. loops \in [1..MaxEpoch -> Loops]
    BY DEF TypeOK
<1>2. \A r \in Loops : LET n == [r EXCEPT !.at = where, !.timer = 0] IN
         n \in Loops /\ n.at = where /\ n.snapshot = r.snapshot
    BY DEF Loops, Places
<1>3. PICK n \in Loops : /\ loops' = [loops EXCEPT ![e] = n]
                         /\ n.at = where /\ n.snapshot = loops[e].snapshot
    BY <1>1, <1>2 DEF LoopAt
<1> QED BY <1>1, <1>3 DEF SnapshotsKept

LEMMA WaitAgainKeeps ==
    ASSUME TypeOK, NEW e \in 1..MaxEpoch, WaitAgain(e)
    PROVE  SnapshotsKept
<1>1. loops \in [1..MaxEpoch -> Loops]
    BY DEF TypeOK
<1>2. \A r \in Loops, where \in {"woken", "waiting"} :
         LET n == [r EXCEPT !.at = where, !.first = FALSE] IN
         n \in Loops /\ n.at = where /\ n.snapshot = r.snapshot
    BY DEF Loops
<1>3. PICK n \in Loops : /\ loops' = [loops EXCEPT ![e] = n]
                         /\ n.at # "answered" /\ n.snapshot = "none"
    <2>1. PICK where \in {"woken", "waiting"} :
             loops' = [loops EXCEPT ![e] = [NoLoop EXCEPT !.at = where, !.first = FALSE]]
        BY DEF WaitAgain
    <2> DEFINE n == [NoLoop EXCEPT !.at = where, !.first = FALSE]
    <2>2. n \in Loops /\ n.at = where /\ n.snapshot = NoLoop.snapshot
        BY ONLY <1>2, NoLoopType, where \in {"woken", "waiting"}, Zenon
    <2>3. loops' = [loops EXCEPT ![e] = n]
        BY <2>1
    <2> HIDE DEF n
    <2> QED BY <2>2, <2>3, NoLoopType
<1> QED BY <1>1, <1>3 DEF SnapshotsKept

LEMMA RingKeeps ==
    ASSUME TypeOK, NEW c \in Commands, Ring(c)
    PROVE  SnapshotsKept
<1>1. loops \in [1..MaxEpoch -> Loops]
    BY DEF TypeOK
<1>2. \A r \in Loops : LET n == [r EXCEPT !.at = "woken"] IN
         n \in Loops /\ n.at = "woken" /\ n.snapshot = r.snapshot
    BY DEF Loops
<1>3. loops' = [e \in 1..MaxEpoch |->
         IF loops[e].at = "waiting" THEN [loops[e] EXCEPT !.at = "woken"] ELSE loops[e]]
    BY DEF Ring
<1> QED BY <1>1, <1>2, <1>3 DEF SnapshotsKept

LEMMA TickKeeps ==
    ASSUME TypeOK, Tick
    PROVE  SnapshotsKept
<1>1. loops \in [1..MaxEpoch -> Loops]
    BY DEF TypeOK
<1>2. \A r \in Loops : LET n == [r EXCEPT !.timer = @ + 1] IN
         n \in Loops /\ n.at = r.at /\ n.snapshot = r.snapshot
    BY DEF Loops
<1>3. loops' = [e \in 1..MaxEpoch |->
         IF loops[e].at = "gone" THEN loops[e] ELSE [loops[e] EXCEPT !.timer = @ + 1]]
    BY DEF Tick
<1> QED BY <1>1, <1>2, <1>3 DEF SnapshotsKept

LEMMA ReattachKeeps ==
    ASSUME TypeOK, Reattach
    PROVE  SnapshotsKept /\ epoch' \in 1..MaxEpoch
<1>1. loops \in [1..MaxEpoch -> Loops] /\ epoch \in 1..MaxEpoch /\ MaxEpoch \in Nat
    BY RelayAssumption DEF TypeOK
<1>2. epoch' = epoch + 1 /\ epoch < MaxEpoch /\ loops' = [loops EXCEPT ![epoch + 1] = NewLoop]
    BY DEF Reattach
<1> QED BY <1>1, <1>2, NoLoopType DEF SnapshotsKept
-----------------------------------------------------------------------------
(* The steps *)

LEMMA AtType ==
    ASSUME TypeOK, NEW c \in Commands, NEW where \in {"sent", "guessed", "returned"}, At(c, where)
    PROVE  /\ call' \in [Commands -> Calls]
           /\ call'[c].at = where /\ call'[c].value = call[c].value
           /\ \A d \in Commands : d # c => call'[d] = call[d]
<1>1. call \in [Commands -> Calls]
    BY DEF TypeOK
<1>2. \A r \in Calls : LET n == [r EXCEPT !.at = where] IN
         n \in Calls /\ n.at = where /\ n.value = r.value
    BY DEF Calls
<1>3. PICK n \in Calls : /\ call' = [call EXCEPT ![c] = n]
                         /\ n.at = where /\ n.value = call[c].value
    BY <1>1, <1>2 DEF At
<1> QED BY <1>1, <1>3

LEMMA NoCallType == NoCall \in Calls /\ NoCall.at = "idle"
BY DEF NoCall, Calls, States

\* A step of the loops that leaves the cache, the commands and the world alone.
LEMMA KeepingStep ==
    ASSUME IInv, SnapshotsKept,
           UNCHANGED <<relay, omits, asked, known, data, call>>,
           buffer' \in {buffer, known},
           calm' \in BOOLEAN, wake' \in BOOLEAN, framed' \in BOOLEAN, epoch' \in 1..MaxEpoch,
           alarm' \in [Commands -> NoAlarm..PostCommand], wrong' \in 0..SwitchRefresh
    PROVE  IInv'
<1> USE DEF IInv
<1>1. TypeOK'
    BY DEF TypeOK, SnapshotsKept
<1>2. NothingOmitted'
    BY DEF NothingOmitted, SnapshotsKept
<1>3. NobodySaysOpen'
    BY DEF NobodySaysOpen, SnapshotsKept
<1> QED BY <1>1, <1>2, <1>3

LEMMA SameLoops == ASSUME TypeOK, UNCHANGED loops PROVE SnapshotsKept
BY DEF TypeOK, SnapshotsKept

LEMMA LookStep ==
    ASSUME IInv, NEW c \in Commands, NEW value \in States, Look(c, value)
    PROVE  IInv'
<1> USE DEF IInv
<1>1. known # "none"
    BY DEF Look, Available, NothingOmitted
<1>2. call' = [call EXCEPT ![c] = [at |-> "looked", value |-> value]]
      /\ UNCHANGED <<relay, omits, calm, asked, known, alarm, wake, loops, epoch, buffer, data,
                     framed, wrong>>
    BY <1>1 DEF Look, HasCircuit, world, backend
<1>3. TypeOK'
    <2>1. [at |-> "looked", value |-> value] \in Calls
        BY DEF Calls
    <2> QED BY <1>2, <2>1 DEF TypeOK
<1>4. NothingOmitted'
    BY <1>1, <1>2 DEF NothingOmitted
<1>5. NobodySaysOpen'
    BY <1>2 DEF NobodySaysOpen, TypeOK
<1> QED BY <1>3, <1>4, <1>5

LEMMA SendStep ==
    ASSUME IInv, NEW c \in Commands, Send(c) \/ SendFails(c)
    PROVE  IInv'
<1> USE DEF IInv
<1>1. /\ call[c].at = "looked" /\ call[c].value \in States
      /\ asked' = (asked \/ call[c].value = "OPEN") /\ relay' \in {relay, call[c].value}
      /\ UNCHANGED <<omits, calm, known, alarm, wake, loops, epoch, buffer, data, framed, wrong>>
    BY DEF Send, SendFails, backend, TypeOK, Calls
<1>2. /\ call' \in [Commands -> Calls]
      /\ call'[c].at \in {"idle", "sent"}
      /\ call'[c].at = "sent" => call'[c].value = call[c].value
      /\ \A d \in Commands : d # c => call'[d] = call[d]
    <2>1. CASE Send(c)
        BY <2>1, AtType DEF Send
    <2>2. CASE SendFails(c)
        BY <2>2, NoCallType DEF SendFails, TypeOK
    <2> QED BY <2>1, <2>2
<1>3. TypeOK'
    BY <1>1, <1>2 DEF TypeOK
<1>4. NothingOmitted'
    BY <1>1, <1>2 DEF NothingOmitted
<1>5. NobodySaysOpen'
    BY <1>1, <1>2 DEF NobodySaysOpen
<1> QED BY <1>3, <1>4, <1>5

\* Guess, Report and Return: the commanded state goes to the cache, the buffer and the
\* entity.
LEMMA GuessStep ==
    ASSUME IInv, NEW c \in Commands, Guess(c) \/ Report(c) \/ Return(c)
    PROVE  IInv'
<1> USE DEF IInv
<1>0. known # "none" /\ call[c].value \in States
      /\ (~asked => call[c].value # "OPEN" /\ known # "OPEN")
    <2>1. call[c].at \in {"sent", "guessed", "returned"}
        BY DEF Guess, Report, Return
    <2> QED BY <2>1 DEF NothingOmitted, NobodySaysOpen, TypeOK, Calls
<1>1. /\ known' \in {known, call[c].value} /\ buffer' \in {buffer, known}
      /\ data' \in {data, call[c].value}
      /\ alarm' \in [Commands -> NoAlarm..PostCommand] /\ wrong' \in 0..SwitchRefresh
      /\ UNCHANGED <<relay, omits, calm, asked, wake, loops, epoch, framed>>
    <2>1. PostCommand \in NoAlarm..PostCommand /\ 0 \in 0..SwitchRefresh
        BY RelayAssumption DEF NoAlarm
    <2>2. CASE Guess(c)
        BY <2>2 DEF Guess, world, TypeOK
    <2>3. CASE Report(c)
        BY <1>0, <2>1, <2>3 DEF Report, Emit, world, TypeOK
    <2>4. CASE Return(c)
        BY <2>1, <2>4 DEF Return, world, backend, TypeOK
    <2> QED BY <2>2, <2>3, <2>4
<1>2. /\ call' \in [Commands -> Calls]
      /\ \/ call'[c].at = "idle"
         \/ call'[c].at \in {"guessed", "returned"} /\ call'[c].value = call[c].value
      /\ \A d \in Commands : d # c => call'[d] = call[d]
    <2>1. CASE Guess(c)
        BY <2>1, AtType DEF Guess
    <2>2. CASE Report(c)
        BY <1>0, <2>2, AtType DEF Report
    <2>3. CASE Return(c)
        <3>1. call' = [call EXCEPT ![c] = NoCall] /\ call \in [Commands -> Calls]
            BY <2>3 DEF Return, TypeOK
        <3>2. call' \in [Commands -> Calls]
            BY <3>1, NoCallType
        <3>3. call'[c] = NoCall /\ \A d \in Commands : d # c => call'[d] = call[d]
            BY <3>1
        <3> QED BY <3>2, <3>3, NoCallType
    <2> QED BY <2>1, <2>2, <2>3
<1>3. TypeOK'
    BY <1>0, <1>1, <1>2 DEF TypeOK, Readings
<1>4. NothingOmitted'
    <2>1. known' # "none"
        BY <1>0, <1>1 DEF States
    <2> QED BY <1>1, <2>1 DEF NothingOmitted
<1>5. NobodySaysOpen'
    BY <1>0, <1>1, <1>2 DEF NobodySaysOpen
<1> QED BY <1>3, <1>4, <1>5

LEMMA TakeSnapshotStep ==
    ASSUME IInv, NEW e \in 1..MaxEpoch, TakeSnapshot(e)
    PROVE  IInv'
<1> USE DEF IInv
<1>1. Snapshot = relay /\ relay \in States
    BY DEF Snapshot, NothingOmitted, TypeOK
<1>2. \A r \in Loops : LET n == [r EXCEPT !.at = "answered", !.snapshot = relay] IN
         n \in Loops /\ n.at = "answered" /\ n.snapshot = relay
    BY <1>1 DEF Loops, Readings
<1>3. PICK n \in Loops : /\ loops' = [loops EXCEPT ![e] = n]
                         /\ n.at = "answered" /\ n.snapshot = relay
    BY <1>1, <1>2 DEF TakeSnapshot, TypeOK
<1>4. UNCHANGED <<relay, omits, calm, asked, known, alarm, wake, epoch, buffer, data, call,
                  framed, wrong>>
    BY DEF TakeSnapshot, world
<1>5. TypeOK'
    BY <1>3, <1>4 DEF TypeOK
<1>6. loops'[e] = n /\ \A i \in 1..MaxEpoch : i # e => loops'[i] = loops[i]
    BY <1>3 DEF TypeOK
<1>7. NothingOmitted'
    BY <1>1, <1>3, <1>4, <1>6 DEF NothingOmitted, States
<1>8. NobodySaysOpen'
    BY <1>3, <1>4, <1>6 DEF NobodySaysOpen
<1> QED BY <1>5, <1>7, <1>8

LEMMA StoreStep ==
    ASSUME IInv, NEW e \in 1..MaxEpoch, Store(e)
    PROVE  IInv'
<1> USE DEF IInv
<1>1. /\ loops[e].at = "answered" /\ known' = loops[e].snapshot
      /\ UNCHANGED <<relay, omits, calm, asked, alarm, wake, epoch, buffer, data, call, framed,
                     wrong>>
    BY DEF Store, world
<1>2. SnapshotsKept
    BY LoopAtKeeps, WaitAgainKeeps DEF Store, Places
<1>3. known' # "none" /\ known' \in Readings
    BY <1>1 DEF NothingOmitted, TypeOK, Loops
<1>4. TypeOK'
    BY <1>1, <1>2, <1>3 DEF TypeOK, SnapshotsKept
<1>5. NothingOmitted'
    BY <1>1, <1>2, <1>3 DEF NothingOmitted, SnapshotsKept
<1>6. NobodySaysOpen'
    BY <1>1, <1>2 DEF NobodySaysOpen, SnapshotsKept
<1> QED BY <1>4, <1>5, <1>6
LEMMA InitIInv == "omit" \notin Turmoil /\ Init => IInv
<1> SUFFICES ASSUME "omit" \notin Turmoil, Init PROVE IInv
    OBVIOUS
<1>1. \A e \in 1..MaxEpoch : loops[e] \in Loops /\ loops[e].at # "answered"
                             /\ loops[e].snapshot = "none"
    BY NoLoopType DEF Init
<1>2. \A c \in Commands : call[c] \in Calls /\ call[c].at = "idle"
    BY NoCallType DEF Init
<1>3. alarm \in [Commands -> NoAlarm..PostCommand]
    BY RelayAssumption DEF Init, NoAlarm
<1>4. call \in [Commands -> Calls] /\ loops \in [1..MaxEpoch -> Loops]
    BY <1>1, <1>2 DEF Init
<1>5. TypeOK
    <2>1. relay \in States /\ omits \in BOOLEAN /\ calm \in BOOLEAN /\ asked \in BOOLEAN
          /\ wake \in BOOLEAN /\ framed \in BOOLEAN
        BY DEF Init, States
    <2>2. known \in Readings /\ buffer \in Readings /\ data \in Readings
        BY DEF Init, Readings
    <2>3. epoch \in 1..MaxEpoch /\ wrong \in 0..SwitchRefresh
        BY RelayAssumption DEF Init
    <2> QED BY <1>3, <1>4, <2>1, <2>2, <2>3 DEF TypeOK
<1>6. NothingOmitted
    BY <1>1, <1>2 DEF Init, NothingOmitted
<1>7. NobodySaysOpen
    BY <1>1, <1>2 DEF Init, NobodySaysOpen
<1> QED BY <1>5, <1>6, <1>7 DEF IInv

LEMMA NextIInv == IInv /\ [Next]_vars => IInv'
<1> SUFFICES ASSUME IInv, [Next]_vars PROVE IInv'
    OBVIOUS
<1> USE DEF IInv
<1>0. /\ epoch \in 1..MaxEpoch /\ alarm \in [Commands -> NoAlarm..PostCommand]
      /\ calm \in BOOLEAN /\ wake \in BOOLEAN /\ framed \in BOOLEAN /\ wrong \in 0..SwitchRefresh
    BY DEF TypeOK
<1>1. CASE UNCHANGED vars
    BY <1>1 DEF vars, world, backend, TypeOK, NothingOmitted, NobodySaysOpen
<1>2. CASE Flush
    <2>1. /\ buffer # "none" /\ data' = buffer /\ buffer' = "none"
          /\ UNCHANGED <<relay, omits, calm, asked, known, alarm, wake, loops, epoch, call, framed,
                         wrong>>
        BY <1>2 DEF Flush, world, backend
    <2>2. TypeOK'
        BY <2>1 DEF TypeOK, Readings
    <2>3. NothingOmitted' /\ NobodySaysOpen'
        BY <2>1 DEF NothingOmitted, NobodySaysOpen
    <2> QED BY <2>2, <2>3
<1>3. CASE Frame
    BY <1>0, <1>3, SameLoops, KeepingStep DEF Frame, Emit, world, backend
<1>4. ASSUME NEW c \in Commands, Ring(c)
      PROVE  IInv'
    <2>1. alarm' \in [Commands -> NoAlarm..PostCommand]
        BY <1>0, <1>4, RelayAssumption DEF Ring, NoAlarm
    <2> QED BY <1>0, <1>4, <2>1, RingKeeps, KeepingStep DEF Ring, world
<1>5. ASSUME NEW e \in 1..MaxEpoch, Begin(e) \/ WaitEnds(e)
      PROVE  IInv'
    <2>1. SnapshotsKept
        BY <1>5, LoopAtKeeps DEF Begin, WaitEnds, NextRound, Places
    <2> QED BY <1>0, <1>5, <2>1, KeepingStep DEF Begin, WaitEnds, world
<1>6. ASSUME NEW e \in 1..MaxEpoch, Announce(e) \/ RefreshFails(e)
      PROVE  IInv'
    <2>1. SnapshotsKept
        BY <1>6, WaitAgainKeeps DEF Announce, RefreshFails
    <2>2. buffer' \in {buffer, known}
        BY <1>6 DEF Announce, RefreshFails, Emit
    <2> QED BY <1>0, <1>6, <2>1, <2>2, KeepingStep DEF Announce, RefreshFails, world
<1>7. CASE Reattach
    BY <1>0, <1>7, ReattachKeeps, KeepingStep DEF Reattach, world
<1>8. CASE RelayMoves
    <2>1. /\ relay' \in States /\ asked' = TRUE
          /\ UNCHANGED <<omits, calm, known, alarm, wake, loops, epoch, buffer, data, call, framed,
                         wrong>>
        BY <1>8 DEF RelayMoves, backend
    <2> QED BY <2>1 DEF TypeOK, NothingOmitted, NobodySaysOpen
<1>9. CASE SnapshotChanges
    BY <1>9 DEF SnapshotChanges, NothingOmitted
<1>10. CASE CalmDown
    <2>1. /\ calm' = TRUE /\ UNCHANGED <<relay, asked, known, alarm, wake, loops, epoch, buffer,
                                         data, call, framed, wrong>>
          /\ omits' = FALSE /\ omits = FALSE
        BY <1>10 DEF CalmDown, backend, NothingOmitted, TypeOK
    <2> QED BY <1>0, <2>1, SameLoops, KeepingStep
<1>11. CASE Tick
    <2>1. alarm' \in [Commands -> NoAlarm..PostCommand]
        <3>1. \A n \in NoAlarm..PostCommand : (IF n > 0 THEN n - 1 ELSE n) \in NoAlarm..PostCommand
            BY RelayAssumption DEF NoAlarm
        <3> QED BY <1>0, <1>11, <3>1 DEF Tick
    <2>2. wrong' \in 0..SwitchRefresh
        BY <1>0, <1>11, RelayAssumption DEF Tick
    <2>3. UNCHANGED <<relay, omits, calm, asked, known, wake, epoch, buffer, data, call>>
          /\ framed' = FALSE
        BY <1>11 DEF Tick, world
    <2> QED BY <1>0, <1>11, <2>1, <2>2, <2>3, TickKeeps, KeepingStep
<1> QED
    BY <1>1, <1>2, <1>3, <1>4, <1>5, <1>6, <1>7, <1>8, <1>9, <1>10, <1>11,
       LookStep, SendStep, GuessStep, TakeSnapshotStep, StoreStep
    DEF Next, CommandSteps, LoopSteps

-----------------------------------------------------------------------------
LEMMA RelayInvariant == "omit" \notin Turmoil /\ Spec => []IInv
<1>1. "omit" \notin Turmoil /\ Init => IInv
    BY InitIInv
<1>2. IInv /\ [Next]_vars => IInv'
    BY NextIInv
<1> QED BY <1>1, <1>2, PTL DEF Spec

\* The switch looks off only if the breaker was, or SPAN accepted to open it (is_on),
\* for any number of commands and attaches, failed calls, and relays that move on their
\* own; not if snapshots leave the circuit out (README, known divergences).
THEOREM LiveBreakerLooksOn == "omit" \notin Turmoil /\ Spec => []LiveBreakerNotOff
<1>1. IInv => LiveBreakerNotOff
    BY DEF IInv, NobodySaysOpen, LiveBreakerNotOff, LooksOff
<1> QED BY <1>1, RelayInvariant, PTL

-----------------------------------------------------------------------------
(* The guess is short *)

\* While nothing but commands happens to one attach, and the snapshot in flight when a
\* command returns, the alarm and the snapshot it asks for fit into a refresh interval.
Undisturbed ==
    /\ Turmoil = {} /\ MaxEpoch = 1
    /\ PostCommand + 2 * RpcTicks < SwitchRefresh

Loop == loops[1]

\* A command that has reported has its alarm set, the loop lives, its calls end in
\* time, and only its first snapshot goes unannounced.
Orderly ==
    /\ \A c \in Commands : call[c].at = "returned" => alarm[c] = PostCommand
    /\ Loop.at # "gone"
    /\ Loop.at \in {"calling", "answered"} => Loop.timer <= RpcTicks
    /\ Loop.at \in {"waiting", "woken"} => ~Loop.first

\* What becomes of a request: its alarm is set; it has rung and the loop comes round
\* to it, after the snapshot it may be taking; that snapshot is asked for.
AlarmSet == \E c \in Commands : alarm[c] >= 0 /\ wrong + alarm[c] <= PostCommand

RequestHeard ==
    \/ wake /\ Loop.at = "delay" /\ wrong <= PostCommand
    \/ wake /\ Loop.at \in {"calling", "answered"} /\ wrong <= PostCommand + Loop.timer
    \/ wake /\ Loop.at = "announcing" /\ wrong <= PostCommand + RpcTicks
    \/ Loop.at = "woken" /\ wrong <= PostCommand + RpcTicks

BeingAsked ==
    /\ ~Loop.first
    /\ Loop.at \in {"calling", "answered"}
    /\ Loop.at = "answered" => Loop.snapshot = relay
    /\ wrong <= (PostCommand + RpcTicks) + Loop.timer

\* Or there is nothing left to correct: the cache has the breaker's state, and so has
\* what is newest on the way to the entity.
Told ==
    /\ known \in {"none", relay}
    /\ Loop.at = "answered" => Loop.snapshot = relay
    /\ \/ Loop.at = "announcing" /\ known = relay
       \/ buffer = relay
       \/ buffer = "none" /\ data \in {"none", relay}

Corrected ==
    (\A c \in Commands : call[c].at = "idle") => AlarmSet \/ RequestHeard \/ BeingAsked \/ Told

WrongForShort == wrong <= PostCommand + 2 * RpcTicks

GInv == Orderly /\ Corrected /\ WrongForShort

\* What the steps of the loop do to it.
LEMMA LoopAtGives ==
    ASSUME TypeOK, MaxEpoch = 1, NEW where \in Places, LoopAt(1, where)
    PROVE  Loop'.at = where /\ Loop'.timer = 0
           /\ Loop'.snapshot = Loop.snapshot /\ Loop'.first = Loop.first
<1>1. \A r \in Loops : LET n == [r EXCEPT !.at = where, !.timer = 0] IN
         n.at = where /\ n.timer = 0 /\ n.snapshot = r.snapshot /\ n.first = r.first
    BY DEF Loops
<1>2. loops \in [1..1 -> Loops] /\ 1 \in 1..1
    BY DEF TypeOK
<1>3. Loop \in Loops /\ Loop' = [Loop EXCEPT !.at = where, !.timer = 0]
    BY <1>2 DEF LoopAt, Loop
<1> QED BY <1>1, <1>3

LEMMA WaitAgainGives ==
    ASSUME TypeOK, MaxEpoch = 1, WaitAgain(1)
    PROVE  /\ Loop'.at = (IF wake THEN "woken" ELSE "waiting")
           /\ Loop'.first = FALSE
<1>1. \A r \in Loops, where \in {"woken", "waiting"} :
         LET n == [r EXCEPT !.at = where, !.first = FALSE] IN n.at = where /\ n.first = FALSE
    BY DEF Loops
<1>2. loops \in [1..1 -> Loops] /\ 1 \in 1..1
    BY DEF TypeOK
<1> DEFINE where == IF wake THEN "woken" ELSE "waiting"
<1>3. Loop' = [NoLoop EXCEPT !.at = where, !.first = FALSE]
    BY <1>2 DEF WaitAgain, Loop
<1>4. where \in {"woken", "waiting"}
    OBVIOUS
<1> HIDE DEF where
<1>5. Loop'.at = where /\ Loop'.first = FALSE
    BY <1>1, <1>3, <1>4, NoLoopType
<1> QED BY <1>5 DEF where

LEMMA GuessTypes ==
    ASSUME TypeOK, MaxEpoch = 1
    PROVE  /\ wrong \in Int /\ 0 <= wrong /\ Loop \in Loops /\ Loop.timer \in Int
           /\ 0 <= Loop.timer
           /\ PostCommand \in Int /\ 1 <= PostCommand /\ RpcTicks \in Int /\ 0 <= RpcTicks
           /\ relay \in States /\ known \in Readings
           /\ \A c \in Commands : alarm[c] \in Int /\ alarm[c] <= PostCommand
<1>1. loops \in [1..1 -> Loops] /\ 1 \in 1..1
    BY DEF TypeOK
<1>2. Loop \in Loops /\ Loop.timer \in Nat
    BY <1>1 DEF Loop, Loops
<1>3. alarm \in [Commands -> NoAlarm..PostCommand]
    BY DEF TypeOK
<1> QED BY <1>2, <1>3, RelayAssumption DEF TypeOK, NoAlarm

-----------------------------------------------------------------------------
LEMMA GuessInit == Undisturbed /\ Init => GInv
<1> SUFFICES ASSUME Undisturbed, Init PROVE GInv
    OBVIOUS
<1>1. Loop = NewLoop
    BY DEF Init, Loop, Undisturbed
<1>2. Loop.at = "delay"
    BY <1>1, NoLoopType
<1>3. \A c \in Commands : call[c].at = "idle"
    BY NoCallType DEF Init
<1>4. Told
    BY <1>2 DEF Init, Told
<1>5. wrong <= PostCommand + 2 * RpcTicks
    <2>1. \A p, r \in Nat : 0 <= p + 2 * r
        OBVIOUS
    <2> QED BY <2>1, RelayAssumption DEF Init
<1> QED BY <1>2, <1>3, <1>4, <1>5 DEF GInv, Orderly, Corrected, WrongForShort

\* A command under way asks nothing of the loop, and reports by setting its alarm.
LEMMA GuessCommand ==
    ASSUME IInv, GInv, Undisturbed, NEW c \in Commands,
           \/ \E value \in States : Look(c, value)
           \/ Send(c) \/ Guess(c) \/ Report(c)
    PROVE  GInv'
<1> USE DEF GInv, IInv
<1>1. known # "none"
    BY DEF Look, Available, Send, Guess, Report, NothingOmitted
<1>2. UNCHANGED <<loops, wrong>> /\ \A d \in Commands \ {c} : alarm'[d] = alarm[d]
    BY DEF Look, Send, Guess, Report, world, backend, TypeOK
<1>3. /\ call'[c].at \in {"looked", "sent", "guessed", "returned"}
      /\ call'[c].at = "returned" => alarm'[c] = PostCommand
      /\ \A d \in Commands : d # c => call'[d] = call[d]
    <2>1. ASSUME NEW value \in States, Look(c, value)
          PROVE  call'[c].at = "looked" /\ \A d \in Commands : d # c => call'[d] = call[d]
        BY <1>1, <2>1 DEF Look, HasCircuit, TypeOK
    <2>2. CASE Send(c)
        BY <2>2, AtType DEF Send
    <2>3. CASE Guess(c)
        BY <2>3, AtType DEF Guess
    <2>4. CASE Report(c)
        BY <1>1, <2>4, AtType DEF Report, TypeOK
    <2> QED BY <2>1, <2>2, <2>3, <2>4
<1>4. Orderly'
    BY <1>2, <1>3 DEF Orderly, Loop
<1>5. Corrected'
    BY <1>3 DEF Corrected
<1> QED BY <1>2, <1>4, <1>5 DEF WrongForShort

LEMMA GuessReturn ==
    ASSUME IInv, GInv, Undisturbed, NEW c \in Commands, Return(c)
    PROVE  GInv'
<1> USE DEF GInv, IInv
<1>1. /\ alarm[c] = PostCommand /\ wrong' = 0 /\ UNCHANGED <<alarm, loops>>
      /\ call'[c].at = "idle"
      /\ \A d \in Commands : d # c => call'[d] = call[d]
    BY NoCallType DEF Return, Orderly, backend, TypeOK
<1>2. AlarmSet'
    <2>1. \A p \in Int : 1 <= p => p >= 0 /\ 0 + p <= p
        OBVIOUS
    <2> QED BY <1>1, <2>1, GuessTypes DEF AlarmSet, Undisturbed
<1>3. Orderly'
    BY <1>1 DEF Orderly, Loop
<1>4. WrongForShort'
    <2>1. \A w, b \in Int : 0 <= w /\ w <= b => 0 <= b
        OBVIOUS
    <2> QED BY <1>1, <2>1, GuessTypes DEF WrongForShort, Undisturbed
<1> QED BY <1>2, <1>3, <1>4 DEF Corrected

\* The alarm rings: a loop that waits takes the request up, any other finds the Event
\* set when it gets there.
LEMMA GuessRing ==
    ASSUME IInv, GInv, Undisturbed, NEW c \in Commands, Ring(c)
    PROVE  GInv'
<1> USE DEF GInv, IInv
<1>1. /\ alarm[c] = 0 /\ wake' = TRUE
      /\ \A d \in Commands : d # c => alarm'[d] = alarm[d]
      /\ UNCHANGED <<relay, known, buffer, data, call, wrong>>
    BY DEF Ring, world, TypeOK
<1>2. /\ Loop.at = "waiting" => Loop'.at = "woken" /\ Loop'.first = Loop.first
      /\ Loop.at # "waiting" => Loop' = Loop
    <2>1. \A r \in Loops : LET n == [r EXCEPT !.at = "woken"] IN
             n.at = "woken" /\ n.first = r.first
        BY DEF Loops
    <2>2. Loop' = IF Loop.at = "waiting" THEN [Loop EXCEPT !.at = "woken"] ELSE Loop
        BY DEF Ring, Loop, Undisturbed
    <2> QED BY <2>1, <2>2, GuessTypes DEF Undisturbed
<1>3. Orderly'
    <2>1. PostCommand # 0
        BY RelayAssumption
    <2> QED BY <1>1, <1>2, <2>1 DEF Orderly
<1>4. WrongForShort'
    BY <1>1 DEF WrongForShort
<1>5. Corrected'
    <2> SUFFICES ASSUME \A d \in Commands : call[d].at = "idle"
                 PROVE  (AlarmSet \/ RequestHeard \/ BeingAsked \/ Told)'
        BY <1>1 DEF Corrected
    <2>1. CASE AlarmSet
        <3>1. PICK d \in Commands : alarm[d] >= 0 /\ wrong + alarm[d] <= PostCommand
            BY <2>1 DEF AlarmSet
        <3>2. CASE d # c
            BY <1>1, <3>1, <3>2 DEF AlarmSet
        <3>3. CASE d = c
            <4>1. /\ wrong <= PostCommand /\ wrong <= PostCommand + RpcTicks
                  /\ wrong <= PostCommand + Loop.timer
                <5>1. \A w, p, r \in Int : w + 0 <= p /\ 0 <= r => w <= p /\ w <= p + r
                    OBVIOUS
                <5> QED BY <1>1, <3>1, <3>3, <5>1, GuessTypes DEF Undisturbed
            <4>2. Loop.at \in {"delay", "calling", "answered", "announcing", "waiting", "woken"}
                BY GuessTypes DEF Loops, Undisturbed, Orderly
            <4> QED BY <1>1, <1>2, <4>1, <4>2 DEF RequestHeard
        <3> QED BY <3>2, <3>3
    <2>2. CASE RequestHeard
        BY <1>1, <1>2, <2>2 DEF RequestHeard
    <2>3. CASE BeingAsked
        BY <1>1, <1>2, <2>3 DEF BeingAsked
    <2>4. CASE Told
        BY <1>1, <1>2, <2>4 DEF Told
    <2> QED BY <2>1, <2>2, <2>3, <2>4 DEF Corrected
<1> QED BY <1>3, <1>4, <1>5

\* Readings on their way: the newest of them is what the cache says.
LEMMA GuessReadings ==
    ASSUME IInv, GInv, Undisturbed, Flush \/ Frame
    PROVE  GInv'
<1> USE DEF GInv, IInv
<1>1. UNCHANGED <<relay, known, alarm, wake, loops, call, wrong>>
    BY DEF Flush, Frame, world, backend
<1>2. \/ buffer # "none" /\ buffer' = "none" /\ data' = buffer
      \/ data' = data /\ buffer' = (IF known = "none" THEN buffer ELSE known)
    BY DEF Flush, Frame, Emit
<1>3. Told => Told'
    BY <1>1, <1>2 DEF Told, NothingOmitted, Loop, TypeOK, States
<1> QED BY <1>1, <1>3 DEF Orderly, Corrected, AlarmSet, RequestHeard, BeingAsked, WrongForShort, Loop

\* A round of the loop begins: at once, woken, or because the interval is over.
LEMMA GuessRound ==
    ASSUME IInv, GInv, Undisturbed, Begin(1) \/ WaitEnds(1)
    PROVE  GInv'
<1> USE DEF GInv, IInv
<1>1. UNCHANGED <<relay, known, alarm, buffer, data, call, wrong>>
      /\ (wake' = wake \/ Loop.at = "woken")
    BY DEF Begin, WaitEnds, world, Loop
<1>2. Loop'.at = "calling" /\ Loop'.timer = 0 /\ Loop'.first = Loop.first
      /\ Loop.at \in {"delay", "woken", "waiting"}
    <2>1. epoch = 1
        BY DEF TypeOK, Undisturbed
    <2>2. LoopAt(1, "calling")
        BY <2>1 DEF Begin, WaitEnds, NextRound
    <2> QED BY <2>2, LoopAtGives DEF Begin, WaitEnds, Loop, Places, Undisturbed
<1>3. Orderly'
    BY <1>1, <1>2, GuessTypes DEF Orderly, Undisturbed
<1>4. RequestHeard => RequestHeard' \/ BeingAsked'
    <2>1. \A w, p, r \in Int : (w <= p => w <= p + 0) /\ (w <= p + r => w <= (p + r) + 0)
        OBVIOUS
    <2>2. wrong <= PostCommand => wrong <= PostCommand + 0
        BY <2>1, GuessTypes DEF Undisturbed
    <2>3. wrong <= PostCommand + RpcTicks => wrong <= (PostCommand + RpcTicks) + 0
        BY <2>1, GuessTypes DEF Undisturbed
    <2> QED BY <1>1, <1>2, <2>2, <2>3 DEF RequestHeard, BeingAsked, Orderly
<1>5. AlarmSet => AlarmSet'
    BY <1>1 DEF AlarmSet
<1>6. ~BeingAsked /\ (Told => Told')
    BY <1>1, <1>2 DEF BeingAsked, Told
<1> QED BY <1>1, <1>3, <1>4, <1>5, <1>6 DEF Corrected, WrongForShort

\* The snapshot is the breaker's state, and the breaker stays as it is.
LEMMA GuessSnapshot ==
    ASSUME IInv, GInv, Undisturbed, TakeSnapshot(1)
    PROVE  GInv'
<1> USE DEF GInv, IInv
<1>1. UNCHANGED <<relay, known, alarm, wake, buffer, data, call, wrong>> /\ Loop.at = "calling"
    BY DEF TakeSnapshot, world, Loop
<1>2. Loop'.at = "answered" /\ Loop'.snapshot = relay
      /\ Loop'.timer = Loop.timer /\ Loop'.first = Loop.first
    <2>1. \A r \in Loops, s \in Readings : LET n == [r EXCEPT !.at = "answered", !.snapshot = s] IN
             n.at = "answered" /\ n.snapshot = s /\ n.timer = r.timer /\ n.first = r.first
        BY DEF Loops
    <2>2. loops \in [1..1 -> Loops] /\ 1 \in 1..1 /\ relay \in Readings
        BY DEF TypeOK, Readings, Undisturbed
    <2>3. Loop' = [Loop EXCEPT !.at = "answered", !.snapshot = relay]
        BY <2>2 DEF TakeSnapshot, Snapshot, NothingOmitted, Loop
    <2> QED BY <2>1, <2>2, <2>3, GuessTypes DEF Undisturbed
<1>3. Orderly'
    BY <1>1, <1>2 DEF Orderly
<1> QED BY <1>1, <1>2, <1>3
        DEF Corrected, AlarmSet, RequestHeard, BeingAsked, Told, WrongForShort

LEMMA GuessStored ==
    ASSUME IInv, GInv, Undisturbed, Store(1)
    PROVE  GInv'
<1> USE DEF GInv, IInv
<1>1. UNCHANGED <<relay, alarm, wake, buffer, data, call, wrong>> /\ Loop.at = "answered"
      /\ known' = Loop.snapshot
    BY DEF Store, world, Loop
<1>2. IF Loop.first
      THEN Loop'.first = FALSE /\ Loop'.at = IF wake THEN "woken" ELSE "waiting"
      ELSE Loop'.at = "announcing"
    <2>1. CASE Loop.first
        BY <2>1, WaitAgainGives DEF Store, Loop, Undisturbed
    <2>2. CASE ~Loop.first
        BY <2>2, LoopAtGives DEF Store, Loop, Undisturbed, Places
    <2> QED BY <2>1, <2>2
<1>3. Orderly'
    BY <1>1, <1>2 DEF Orderly
<1>4. RequestHeard => RequestHeard'
    <2>1. \A w, p, t, r \in Int : t <= r /\ w <= p + t => w <= p + r
        OBVIOUS
    <2>2. wrong <= PostCommand + Loop.timer => wrong <= PostCommand + RpcTicks
        BY <1>1, <2>1, GuessTypes DEF Orderly, Undisturbed
    <2> QED BY <1>1, <1>2, <2>2 DEF RequestHeard
<1>5. BeingAsked => Told'
    BY <1>1, <1>2 DEF BeingAsked, Told
<1>6. Told => Told'
    BY <1>1, <1>2 DEF Told
<1>7. AlarmSet => AlarmSet'
    BY <1>1 DEF AlarmSet
<1> QED BY <1>1, <1>3, <1>4, <1>5, <1>6, <1>7 DEF Corrected, WrongForShort

LEMMA GuessAnnounced ==
    ASSUME IInv, GInv, Undisturbed, Announce(1)
    PROVE  GInv'
<1> USE DEF GInv, IInv
<1>1. UNCHANGED <<relay, known, alarm, wake, data, call, wrong>> /\ Loop.at = "announcing"
      /\ buffer' = IF known = "none" THEN buffer ELSE known
    BY DEF Announce, Emit, world, Loop
<1>2. Loop'.first = FALSE /\ Loop'.at = IF wake THEN "woken" ELSE "waiting"
    BY WaitAgainGives DEF Announce, Loop, Undisturbed
<1>3. Orderly'
    BY <1>1, <1>2 DEF Orderly
<1>4. Told => Told'
    BY <1>1, <1>2 DEF Told, NothingOmitted, TypeOK, States
<1> QED BY <1>1, <1>2, <1>3, <1>4
        DEF Corrected, AlarmSet, RequestHeard, BeingAsked, WrongForShort

\* A tick: either the entity is right, or what is under way is one tick nearer.
LEMMA GuessTick ==
    ASSUME IInv, GInv, Undisturbed, Tick
    PROVE  GInv'
<1> USE DEF GInv, IInv
<1>1. /\ UNCHANGED <<relay, known, wake, buffer, data, call>> /\ buffer = "none"
      /\ \A c \in Commands : /\ call[c].at = "idle" /\ alarm[c] # 0
                             /\ alarm[c] > 0 => alarm'[c] = alarm[c] - 1
    <2>1. \A c \in Commands : call[c] = NoCall /\ alarm[c] # 0
        BY DEF Tick, Due
    <2> QED BY <2>1, NoCallType DEF Tick, Due, world
<1>2. /\ Loop'.at = Loop.at /\ Loop'.snapshot = Loop.snapshot /\ Loop'.first = Loop.first
      /\ Loop'.timer = Loop.timer + 1
    <2>1. \A r \in Loops : LET n == [r EXCEPT !.timer = @ + 1] IN
             n.at = r.at /\ n.snapshot = r.snapshot /\ n.first = r.first /\ n.timer = r.timer + 1
        BY DEF Loops
    <2>2. Loop' = [Loop EXCEPT !.timer = @ + 1]
        BY DEF Tick, Loop, Orderly, Undisturbed
    <2> QED BY <2>1, <2>2, GuessTypes DEF Undisturbed
<1>3. /\ Loop.at \notin {"delay", "announcing", "woken"}
      /\ Loop.at \in {"calling", "answered"} => Loop.timer < RpcTicks
    <2>1. 1 \in 1..MaxEpoch
        BY DEF Undisturbed
    <2> QED BY <2>1, GuessTypes DEF Tick, Due, Loop, Undisturbed
<1>4. wrong' <= wrong + 1 /\ wrong' \in Int /\ (data \in {"none", relay} => wrong' = 0)
    <2>1. \A w \in Int : 0 <= w => 0 <= w + 1 /\ w + 1 <= w + 1 /\ w <= w + 1 /\ w + 1 \in Int
        OBVIOUS
    <2>2. wrong' \in {0, wrong + 1, wrong} /\ (data \in {"none", relay} => wrong' = 0)
        BY DEF Tick
    <2> QED BY <2>1, <2>2, GuessTypes DEF Undisturbed
<1>5. Orderly'
    <2>1. \A t, r \in Int : t < r => t + 1 <= r
        OBVIOUS
    <2> QED BY <1>1, <1>2, <1>3, <2>1, GuessTypes DEF Orderly, Undisturbed
<1>6. WrongForShort /\ \A r \in Int : 0 <= r => 0 <= PostCommand + 2 * r
    BY GuessTypes DEF Undisturbed
<1>7. CASE AlarmSet
    <2>1. PICK c \in Commands : alarm[c] >= 0 /\ wrong + alarm[c] <= PostCommand
        BY <1>7 DEF AlarmSet
    <2>2. alarm[c] > 0 /\ alarm'[c] = alarm[c] - 1 /\ alarm[c] \in Int
        <3>1. \A a \in Int : a >= 0 /\ a # 0 => a > 0
            OBVIOUS
        <3> QED BY <1>1, <2>1, <3>1, GuessTypes DEF Undisturbed
    <2>3. alarm'[c] >= 0 /\ wrong' + alarm'[c] <= PostCommand
        <3>1. \A w, v, a, p \in Int : v <= w + 1 /\ a > 0 /\ w + a <= p =>
                a - 1 >= 0 /\ v + (a - 1) <= p
            OBVIOUS
        <3> QED BY <1>4, <2>1, <2>2, <3>1, GuessTypes DEF Undisturbed
    <2>4. wrong' <= PostCommand + 2 * RpcTicks
        <3>1. \A v, w, a, p, r \in Int : v <= w + 1 /\ a > 0 /\ w + a <= p /\ 0 <= r => v <= p + 2 * r
            OBVIOUS
        <3> QED BY <1>4, <2>1, <2>2, <3>1, GuessTypes DEF Undisturbed
    <2> QED BY <1>5, <2>3, <2>4 DEF AlarmSet, Corrected, WrongForShort
<1>8. CASE RequestHeard
    <2>1. wake /\ Loop.at \in {"calling", "answered"} /\ wrong <= PostCommand + Loop.timer
        BY <1>3, <1>8 DEF RequestHeard
    <2>2. wrong' <= PostCommand + (Loop.timer + 1) /\ wrong' <= PostCommand + 2 * RpcTicks
        <3>1. \A v, w, p, t, r \in Int : v <= w + 1 /\ w <= p + t /\ t < r /\ 0 <= r =>
                v <= p + (t + 1) /\ v <= p + 2 * r
            OBVIOUS
        <3> QED BY <1>3, <1>4, <2>1, <3>1, GuessTypes DEF Undisturbed
    <2> QED BY <1>1, <1>2, <1>5, <2>1, <2>2 DEF RequestHeard, Corrected, WrongForShort
<1>9. CASE BeingAsked
    <2>1. Loop.at \in {"calling", "answered"} /\ wrong <= (PostCommand + RpcTicks) + Loop.timer
        BY <1>9 DEF BeingAsked
    <2>2. wrong' <= (PostCommand + RpcTicks) + (Loop.timer + 1) /\ wrong' <= PostCommand + 2 * RpcTicks
        <3>1. \A v, w, p, t, r \in Int : v <= w + 1 /\ w <= (p + r) + t /\ t < r =>
                v <= (p + r) + (t + 1) /\ v <= p + 2 * r
            OBVIOUS
        <3> QED BY <1>3, <1>4, <2>1, <3>1, GuessTypes DEF Undisturbed
    <2> QED BY <1>1, <1>2, <1>5, <1>9, <2>2 DEF BeingAsked, Corrected, WrongForShort
<1>10. CASE Told
    <2>1. data \in {"none", relay}
        BY <1>1, <1>3, <1>10, GuessTypes DEF Told, Undisturbed, States
    <2>2. wrong' = 0 /\ Told'
        BY <1>1, <1>2, <1>4, <1>10, <2>1 DEF Told
    <2>3. WrongForShort'
        BY <1>6, <2>2, GuessTypes DEF WrongForShort, Undisturbed
    <2> QED BY <1>5, <2>2, <2>3 DEF Corrected
<1> QED BY <1>1, <1>7, <1>8, <1>9, <1>10 DEF Corrected

LEMMA GuessNext == Undisturbed /\ IInv /\ GInv /\ [Next]_vars => GInv'
<1> SUFFICES ASSUME Undisturbed, IInv, GInv, [Next]_vars
             PROVE  GInv'
    OBVIOUS
<1>1. ~Reattach /\ \A e \in 1..MaxEpoch : e = 1
    BY DEF Undisturbed, Reattach, IInv, TypeOK
<1>2. /\ ~RelayMoves /\ ~SnapshotChanges
      /\ \A c \in Commands : ~SendFails(c)
      /\ \A e \in 1..MaxEpoch : ~RefreshFails(e)
    BY DEF Undisturbed, RelayMoves, SnapshotChanges, SendFails, RefreshFails
<1>3. CASE CalmDown \/ UNCHANGED vars
    <2>1. UNCHANGED <<relay, known, alarm, wake, loops, buffer, data, call, wrong>>
        BY <1>3 DEF CalmDown, vars, world, backend
    <2> QED BY <2>1 DEF GInv, Orderly, Corrected, AlarmSet, RequestHeard, BeingAsked, Told,
                        WrongForShort, Loop
<1> QED
    BY <1>1, <1>2, <1>3, GuessCommand, GuessReturn, GuessRing, GuessReadings, GuessRound,
       GuessSnapshot, GuessStored, GuessAnnounced, GuessTick
    DEF Next, CommandSteps, LoopSteps

\* However commands overlap each other and the snapshots, the entity differs from the
\* breaker for less than a refresh interval after the last of them: it is not left to
\* sit on the optimistic guess (POST_COMMAND_REFRESH_SECONDS), as long as the alarm and
\* two snapshot calls fit into that interval, and within one attach.
THEOREM GuessNeverLingers == Undisturbed /\ Spec => []GuessIsShort
<1> SUFFICES ASSUME Undisturbed
             PROVE  Spec => []GuessIsShort
    OBVIOUS
<1>1. Spec => []IInv
    BY RelayInvariant DEF Undisturbed
<1>2. Init => GInv
    BY GuessInit
<1>3. IInv /\ GInv /\ [Next]_vars => GInv'
    BY GuessNext
<1>4. IInv /\ GInv => GuessIsShort
    <2>1. \A w, b, s \in Int : w <= b /\ b < s => w < s
        OBVIOUS
    <2> QED BY <2>1, GuessTypes, RelayAssumption
            DEF IInv, GInv, WrongForShort, GuessIsShort, Undisturbed
<1> QED BY <1>1, <1>2, <1>3, <1>4, PTL DEF Spec

-----------------------------------------------------------------------------
(* The refresh loops *)

InTime(loop) ==
    /\ loop.at = "waiting" => loop.timer <= SwitchRefresh
    /\ loop.at \in {"calling", "answered"} => loop.timer <= RpcTicks

\* The loop of the last attach is there; no loop, left over or not, is longer in its
\* wait than an interval or longer in its call than a call may take, so that it soon
\* comes to its loop condition; and none waits while a request is set.
RefreshKeepsUp ==
    /\ loops[epoch].at # "gone"
    /\ \A e \in 1..MaxEpoch : InTime(loops[e])
    /\ wake => \A e \in 1..MaxEpoch : loops[e].at # "waiting"

\* Types, with incomplete snapshots too.
LEMMA InitType == Init => TypeOK
<1> SUFFICES ASSUME Init PROVE TypeOK
    OBVIOUS
<1>1. call \in [Commands -> Calls] /\ loops \in [1..MaxEpoch -> Loops]
    BY NoLoopType, NoCallType DEF Init
<1>2. alarm \in [Commands -> NoAlarm..PostCommand]
    BY RelayAssumption DEF Init, NoAlarm
<1>3. relay \in States /\ omits \in BOOLEAN /\ calm \in BOOLEAN /\ asked \in BOOLEAN
      /\ wake \in BOOLEAN /\ framed \in BOOLEAN
    BY DEF Init, States
<1>4. known \in Readings /\ buffer \in Readings /\ data \in Readings
    BY DEF Init, Readings
<1>5. epoch \in 1..MaxEpoch /\ wrong \in 0..SwitchRefresh
    BY RelayAssumption DEF Init
<1> QED BY <1>1, <1>2, <1>3, <1>4, <1>5 DEF TypeOK

LEMMA CommandType ==
    ASSUME TypeOK, NEW c \in Commands,
           \/ \E value \in States : Look(c, value)
           \/ CommandSteps(c) \/ SendFails(c)
    PROVE  TypeOK'
<1>1. call \in [Commands -> Calls] /\ call[c].value \in States
    BY DEF TypeOK, Calls
<1>2. ASSUME NEW value \in States, Look(c, value)
      PROVE  TypeOK'
    <2>1. \A at \in {"looked", "returned"} : [at |-> at, value |-> value] \in Calls
        BY DEF Calls
    <2>2. call' \in [Commands -> Calls]
        BY <1>1, <1>2, <2>1 DEF Look
    <2> QED BY <1>2, <2>2 DEF Look, TypeOK, world, backend
<1>3. CASE Send(c) \/ SendFails(c)
    <2>1. call' \in [Commands -> Calls]
        BY <1>1, <1>3, AtType, NoCallType DEF Send, SendFails
    <2>2. relay' \in States /\ asked' \in BOOLEAN
        BY <1>1, <1>3 DEF Send, SendFails, TypeOK
    <2>3. UNCHANGED <<omits, calm, known, alarm, wake, loops, epoch, buffer, data, framed, wrong>>
        BY <1>3 DEF Send, SendFails, backend
    <2> QED BY <2>1, <2>2, <2>3 DEF TypeOK
<1>4. CASE Guess(c)
    <2>1. call' \in [Commands -> Calls]
        BY <1>4, AtType DEF Guess
    <2> QED BY <1>1, <1>4, <2>1 DEF Guess, TypeOK, Readings, world
<1>5. CASE Report(c)
    <2>1. call' \in [Commands -> Calls]
        BY <1>1, <1>5, AtType, NoCallType DEF Report
    <2>2. alarm' \in [Commands -> NoAlarm..PostCommand]
        BY <1>5, RelayAssumption DEF Report, TypeOK, NoAlarm
    <2>3. buffer' \in Readings
        BY <1>5 DEF Report, Emit, TypeOK
    <2> QED BY <1>5, <2>1, <2>2, <2>3 DEF Report, TypeOK, world
<1>6. CASE Return(c)
    <2>1. call' \in [Commands -> Calls]
        BY <1>1, <1>6, NoCallType DEF Return
    <2>2. data' \in Readings /\ wrong' \in 0..SwitchRefresh
        BY <1>1, <1>6, RelayAssumption DEF Return, Readings
    <2> QED BY <1>6, <2>1, <2>2 DEF Return, TypeOK, world, backend
<1>7. CASE Ring(c)
    <2>1. alarm' \in [Commands -> NoAlarm..PostCommand]
        BY <1>7, RelayAssumption DEF Ring, TypeOK, NoAlarm
    <2>2. loops' \in [1..MaxEpoch -> Loops]
        BY <1>7, RingKeeps DEF SnapshotsKept
    <2> QED BY <1>7, <2>1, <2>2 DEF Ring, TypeOK, world
<1> QED BY <1>2, <1>3, <1>4, <1>5, <1>6, <1>7 DEF CommandSteps

LEMMA LoopType ==
    ASSUME TypeOK, NEW e \in 1..MaxEpoch, LoopSteps(e) \/ RefreshFails(e)
    PROVE  TypeOK'
<1>1. loops \in [1..MaxEpoch -> Loops]
    BY DEF TypeOK
<1>2. CASE TakeSnapshot(e)
    <2>1. Snapshot \in Readings
        BY DEF Snapshot, TypeOK, Readings
    <2>2. \A r \in Loops : [r EXCEPT !.at = "answered", !.snapshot = Snapshot] \in Loops
        BY <2>1 DEF Loops
    <2>3. loops' \in [1..MaxEpoch -> Loops]
        BY <1>1, <1>2, <2>2 DEF TakeSnapshot
    <2> QED BY <1>2, <2>3 DEF TakeSnapshot, TypeOK, world
<1>3. CASE ~TakeSnapshot(e)
    <2>1. loops' \in [1..MaxEpoch -> Loops]
        BY <1>3, LoopAtKeeps, WaitAgainKeeps
        DEF LoopSteps, Begin, Store, Announce, WaitEnds, RefreshFails, NextRound, Places,
            SnapshotsKept
    <2>2. known' \in Readings
        BY <1>1, <1>3 DEF LoopSteps, Begin, Store, Announce, WaitEnds, RefreshFails, TypeOK, Loops
    <2>3. buffer' \in Readings
        BY <1>3 DEF LoopSteps, Begin, Store, Announce, WaitEnds, RefreshFails, TypeOK, Emit
    <2>4. wake' \in BOOLEAN
        BY <1>3 DEF LoopSteps, Begin, Store, Announce, WaitEnds, RefreshFails, TypeOK
    <2>5. UNCHANGED <<world, alarm, epoch, data, call, framed, wrong>>
        BY <1>3 DEF LoopSteps, Begin, Store, Announce, WaitEnds, RefreshFails
    <2> QED BY <2>1, <2>2, <2>3, <2>4, <2>5 DEF TypeOK, world
<1> QED BY <1>2, <1>3

LEMMA NextType == TypeOK /\ [Next]_vars => TypeOK'
<1> SUFFICES ASSUME TypeOK, [Next]_vars PROVE TypeOK'
    OBVIOUS
<1>1. CASE Flush \/ Frame
    <2>1. buffer' \in Readings /\ data' \in Readings /\ framed' \in BOOLEAN
        BY <1>1 DEF Flush, Frame, Emit, TypeOK, Readings
    <2>2. UNCHANGED <<world, backend, call, wrong>>
        BY <1>1 DEF Flush, Frame
    <2> QED BY <2>1, <2>2 DEF TypeOK, world, backend
<1>2. CASE Reattach
    <2>1. epoch' \in 1..MaxEpoch /\ loops' \in [1..MaxEpoch -> Loops]
        BY <1>2, ReattachKeeps DEF SnapshotsKept
    <2> QED BY <1>2, <2>1 DEF Reattach, TypeOK, world
<1>3. CASE RelayMoves \/ SnapshotChanges \/ CalmDown
    <2>1. relay' \in States /\ omits' \in BOOLEAN /\ calm' \in BOOLEAN /\ asked' \in BOOLEAN
        BY <1>3 DEF RelayMoves, SnapshotChanges, CalmDown, TypeOK
    <2>2. UNCHANGED <<backend, buffer, data, call, framed, wrong>>
        BY <1>3 DEF RelayMoves, SnapshotChanges, CalmDown
    <2> QED BY <2>1, <2>2 DEF TypeOK, backend
<1>4. CASE Tick
    <2>1. alarm' \in [Commands -> NoAlarm..PostCommand]
        <3>1. \A n \in NoAlarm..PostCommand : (IF n > 0 THEN n - 1 ELSE n) \in NoAlarm..PostCommand
            BY RelayAssumption DEF NoAlarm
        <3> QED BY <1>4, <3>1 DEF Tick, TypeOK
    <2>2. wrong' \in 0..SwitchRefresh
        BY <1>4, RelayAssumption DEF Tick, TypeOK
    <2>3. loops' \in [1..MaxEpoch -> Loops]
        BY <1>4, TickKeeps DEF SnapshotsKept
    <2> QED BY <1>4, <2>1, <2>2, <2>3 DEF Tick, TypeOK, world
<1>5. CASE UNCHANGED vars
    BY <1>5 DEF vars, world, backend, TypeOK
<1> QED BY <1>1, <1>2, <1>3, <1>4, <1>5, CommandType, LoopType DEF Next

\* What one loop does leaves the others as they are.
LEMMA OneLoopKeepsUp ==
    ASSUME TypeOK, RefreshKeepsUp, NEW e \in 1..MaxEpoch, NEW n \in Loops,
           loops' = [loops EXCEPT ![e] = n], InTime(n), epoch' = epoch,
           n.at = "gone" => e # epoch,
           wake' => wake /\ n.at # "waiting"
    PROVE  RefreshKeepsUp'
<1>1. loops'[e] = n /\ \A i \in 1..MaxEpoch : i # e => loops'[i] = loops[i]
    BY DEF TypeOK
<1>2. epoch \in 1..MaxEpoch
    BY DEF TypeOK
<1> QED BY <1>1, <1>2 DEF RefreshKeepsUp, InTime

LEMMA LoopAtKeepsUp ==
    ASSUME TypeOK, RefreshKeepsUp, NEW e \in 1..MaxEpoch,
           NEW where \in {"gone", "calling", "announcing"}, LoopAt(e, where),
           epoch' = epoch, where = "gone" => e # epoch, wake' => wake
    PROVE  RefreshKeepsUp'
<1>1. \A r \in Loops : LET n == [r EXCEPT !.at = where, !.timer = 0] IN
         n \in Loops /\ n.at = where /\ n.timer = 0
    BY DEF Loops
<1>2. PICK n \in Loops : loops' = [loops EXCEPT ![e] = n] /\ n.at = where /\ n.timer = 0
    BY <1>1 DEF LoopAt, TypeOK
<1>3. InTime(n)
    BY <1>2, RelayAssumption DEF InTime
<1> QED BY <1>2, <1>3, OneLoopKeepsUp

LEMMA WaitAgainKeepsUp ==
    ASSUME TypeOK, RefreshKeepsUp, NEW e \in 1..MaxEpoch, WaitAgain(e),
           epoch' = epoch, wake' = wake
    PROVE  RefreshKeepsUp'
<1>1. NoLoop \in Loops /\ NoLoop.timer = 0
    BY NoLoopType DEF NoLoop
<1>2. \A r \in Loops, where \in {"woken", "waiting"} :
         LET n == [r EXCEPT !.at = where, !.first = FALSE] IN
         n \in Loops /\ n.at = where /\ n.timer = r.timer
    BY DEF Loops
<1> DEFINE where == IF wake THEN "woken" ELSE "waiting"
<1>3. where \in {"woken", "waiting"} /\ (wake => where = "woken") /\ where # "gone"
    OBVIOUS
<1>4. loops' = [loops EXCEPT ![e] = [NoLoop EXCEPT !.at = where, !.first = FALSE]]
    BY DEF WaitAgain
<1> HIDE DEF where
<1>5. PICK n \in Loops : loops' = [loops EXCEPT ![e] = n] /\ n.at = where /\ n.timer = 0
    <2> DEFINE n == [NoLoop EXCEPT !.at = where, !.first = FALSE]
    <2>1. n \in Loops /\ n.at = where /\ n.timer = NoLoop.timer
        BY ONLY <1>1, <1>2, <1>3, Zenon
    <2>2. loops' = [loops EXCEPT ![e] = n]
        BY <1>4
    <2> HIDE DEF n
    <2> QED BY <1>1, <2>1, <2>2
<1>6. InTime(n)
    BY <1>3, <1>5, RelayAssumption DEF InTime
<1> QED BY <1>3, <1>5, <1>6, OneLoopKeepsUp

LEMMA NextKeepsUp == TypeOK /\ RefreshKeepsUp /\ [Next]_vars => RefreshKeepsUp'
<1> SUFFICES ASSUME TypeOK, RefreshKeepsUp, [Next]_vars PROVE RefreshKeepsUp'
    OBVIOUS
<1>1. loops \in [1..MaxEpoch -> Loops] /\ epoch \in 1..MaxEpoch
    BY DEF TypeOK
<1>2. CASE UNCHANGED <<loops, epoch, wake>>
    BY <1>2 DEF RefreshKeepsUp
<1>3. ASSUME NEW c \in Commands, Ring(c)
      PROVE  RefreshKeepsUp'
    <2>1. /\ epoch' = epoch
          /\ loops' = [e \in 1..MaxEpoch |->
                IF loops[e].at = "waiting" THEN [loops[e] EXCEPT !.at = "woken"] ELSE loops[e]]
        BY <1>3 DEF Ring
    <2>2. \A r \in Loops : [r EXCEPT !.at = "woken"].at = "woken"
        BY DEF Loops
    <2>3. \A e \in 1..MaxEpoch :
             \/ loops'[e].at = "woken"
             \/ loops'[e] = loops[e] /\ loops[e].at # "waiting"
        BY <1>1, <2>1, <2>2
    <2> QED BY <1>1, <2>1, <2>3 DEF RefreshKeepsUp, InTime
<1>4. ASSUME NEW e \in 1..MaxEpoch, Begin(e) \/ WaitEnds(e)
      PROVE  RefreshKeepsUp'
    <2>1. NextRound(e) /\ epoch' = epoch /\ (wake' => wake)
        BY <1>4 DEF Begin, WaitEnds
    <2> QED BY <2>1, LoopAtKeepsUp DEF NextRound
<1>5. ASSUME NEW e \in 1..MaxEpoch, TakeSnapshot(e)
      PROVE  RefreshKeepsUp'
    <2>1. Snapshot \in Readings
        BY DEF Snapshot, TypeOK, Readings
    <2>2. \A r \in Loops : LET n == [r EXCEPT !.at = "answered", !.snapshot = Snapshot] IN
             n \in Loops /\ n.at = "answered" /\ n.timer = r.timer
        BY <2>1 DEF Loops
    <2>3. PICK n \in Loops : loops' = [loops EXCEPT ![e] = n] /\ n.at = "answered"
                             /\ n.timer = loops[e].timer
        BY <1>1, <1>5, <2>2 DEF TakeSnapshot
    <2>4. InTime(n)
        BY <1>5, <2>3 DEF InTime, RefreshKeepsUp, TakeSnapshot
    <2> QED BY <1>5, <2>3, <2>4, OneLoopKeepsUp DEF TakeSnapshot
<1>6. ASSUME NEW e \in 1..MaxEpoch, Store(e) \/ Announce(e) \/ RefreshFails(e)
      PROVE  RefreshKeepsUp'
    <2>1. (WaitAgain(e) \/ LoopAt(e, "announcing")) /\ epoch' = epoch /\ wake' = wake
        BY <1>6 DEF Store, Announce, RefreshFails
    <2> QED BY <2>1, LoopAtKeepsUp, WaitAgainKeepsUp
<1>7. CASE Reattach
    <2>1. epoch' = epoch + 1 /\ epoch + 1 \in 1..MaxEpoch /\ wake' = wake
          /\ loops' = [loops EXCEPT ![epoch + 1] = NewLoop]
        BY <1>1, <1>7, RelayAssumption DEF Reattach
    <2>2. loops'[epoch'] = NewLoop /\ \A i \in 1..MaxEpoch : i # epoch' => loops'[i] = loops[i]
        BY <1>1, <2>1
    <2> QED BY <2>1, <2>2, NoLoopType DEF RefreshKeepsUp, InTime
<1>8. CASE Tick
    <2>1. UNCHANGED <<epoch, wake>> /\ ~Due
          /\ loops' = [e \in 1..MaxEpoch |->
                IF loops[e].at = "gone" THEN loops[e] ELSE [loops[e] EXCEPT !.timer = @ + 1]]
        BY <1>8 DEF Tick
    <2>2. \A r \in Loops : LET n == [r EXCEPT !.timer = @ + 1] IN
             n.at = r.at /\ n.timer = r.timer + 1
        BY DEF Loops
    <2>3. \A e \in 1..MaxEpoch : loops'[e].at = loops[e].at
                                 /\ loops'[e].timer \in {loops[e].timer, loops[e].timer + 1}
        BY <1>1, <2>1, <2>2
    <2>4. \A e \in 1..MaxEpoch :
             /\ loops[e].timer \in Nat
             /\ loops[e].at = "waiting" => ~(loops[e].timer >= SwitchRefresh)
             /\ loops[e].at \in {"calling", "answered"} => ~(loops[e].timer >= RpcTicks)
        BY <1>1, <2>1 DEF Due, Loops
    <2>5. \A t, m \in Nat : ~(t >= m) => t <= m /\ t + 1 <= m
        OBVIOUS
    <2>6. \A e \in 1..MaxEpoch : InTime(loops'[e])
        BY <2>3, <2>4, <2>5, RelayAssumption DEF InTime
    <2> QED BY <1>1, <2>1, <2>3, <2>6 DEF RefreshKeepsUp
<1>9. CASE Flush \/ Frame \/ RelayMoves \/ SnapshotChanges \/ CalmDown \/ UNCHANGED vars
    BY <1>2, <1>9 DEF Flush, Frame, RelayMoves, SnapshotChanges, CalmDown, vars, backend
<1>10. ASSUME NEW c \in Commands,
              \/ \E value \in States : Look(c, value)
              \/ Send(c) \/ Guess(c) \/ Report(c) \/ Return(c) \/ SendFails(c)
       PROVE  RefreshKeepsUp'
    BY <1>2, <1>10 DEF Look, Send, Guess, Report, Return, SendFails, backend
<1> QED BY <1>3, <1>4, <1>5, <1>6, <1>7, <1>8, <1>9, <1>10 DEF Next, CommandSteps, LoopSteps

LEMMA TypeInvariant == Spec => []TypeOK
BY InitType, NextType, PTL DEF Spec

\* Calls, alarms and refresh loops stay what the threads make of them, with failed
\* calls, reattaches and incomplete snapshots.
THEOREM RelayTyped == Spec => []TypeOK
BY TypeInvariant

\* Whatever moves, fails, reattaches or is left out: the last attach has a refresh loop
\* (_subscribe_epoch), every loop comes round in an interval and a call's time, and no
\* request that is set finds a loop asleep (_wait_before_refresh, _request_refresh).
THEOREM RefreshGoesOn == Spec => []RefreshKeepsUp
<1>1. Init => RefreshKeepsUp
    <2> SUFFICES ASSUME Init PROVE RefreshKeepsUp
        OBVIOUS
    <2>1. epoch \in 1..MaxEpoch /\ loops[epoch].at = "delay" /\ ~wake
          /\ \A e \in 1..MaxEpoch : loops[e].at \in {"gone", "delay"}
        BY NoLoopType, RelayAssumption DEF Init
    <2> QED BY <2>1 DEF RefreshKeepsUp, InTime
<1> QED BY <1>1, NextKeepsUp, TypeInvariant, PTL DEF Spec

=============================================================================
