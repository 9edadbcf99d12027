---------------------------- MODULE RelayControl ----------------------------
(***************************************************************************)
(* One breaker: relay commands (switch.py, coordinator.async_send_command, *)
(* CloudBackend.send_command), the loops that re-read the trait snapshot   *)
(* (_schedule_subscribe, _refresh_circuits, _wait_before_refresh), and the *)
(* reading buffer between the backend's threads and the event loop.        *)
(*                                                                         *)
(* Executor threads send commands, one loop per attach refreshes, the      *)
(* stream thread republishes the cached state with every frame, and delay  *)
(* threads ring for a refresh; all share _circuits and one Event, without  *)
(* a lock.  Time is counted in ticks of 3 seconds; Tick is disabled while  *)
(* a thread has something due.                                             *)
(*                                                                         *)
(* The panel behind SPAN is external: it carries a command out or declines *)
(* it, a slow relay or the SPAN app may move the breaker later, a snapshot *)
(* may leave its circuit out.                                              *)
(***************************************************************************)
EXTENDS Integers

CONSTANTS
    Commands,       \* commands that may be under way at once
    SwitchRefresh,  \* SWITCH_REFRESH_SECONDS, 20 ticks
    PostCommand,    \* POST_COMMAND_REFRESH_SECONDS, 1 tick
    RpcTicks,       \* a snapshot call takes at most this long
    Turmoil,        \* what else happens: "move", "fail", "omit"
    MaxEpoch        \* bound: attaches

ASSUME RelayAssumption ==
    /\ SwitchRefresh \in Nat \ {0}
    /\ PostCommand \in Nat \ {0}
    /\ RpcTicks \in Nat
    /\ Turmoil \subseteq {"move", "fail", "omit"}
    /\ MaxEpoch \in Nat \ {0}

VARIABLES
    relay,    \* external: where the breaker is
    omits,    \* external: SPAN's snapshot leaves the circuit out
    calm,     \* external: nobody commands, moves, drops or breaks anything any more
    asked,    \* the relay was open, or SPAN accepted to open it (history)
    known,    \* relay_closed of the circuit in _circuits, "none" if it is not there
    buffer,   \* the circuit's reading in the coordinator's buffer, or "none"
    data,     \* its reading in coordinator.data, or "none"
    call,     \* the commands under way
    alarm,    \* the delay threads of _request_refresh: ticks left
    wake,     \* the flag of the Event _refresh_request
    loops,    \* the refresh loop of each attach
    epoch,    \* _subscribe_epoch
    framed,   \* a frame has arrived in this tick
    wrong     \* ticks since the last command that `data` has differed from the
              \* relay, counted while there is no turmoil (history)

world   == <<relay, omits, calm, asked>>
backend == <<known, alarm, wake, loops, epoch>>
vars    == <<world, backend, buffer, data, call, framed, wrong>>

States   == {"OPEN", "CLOSED"}
Readings == States \cup {"none"}

Calls == [at : {"idle", "looked", "sent", "guessed", "returned"}, value : States]
NoCall == [at |-> "idle", value |-> "OPEN"]

NoAlarm == -1

Loops == [at : {"gone", "delay", "calling", "answered", "announcing", "waiting", "woken"},
          timer : Nat, snapshot : Readings, first : BOOLEAN]
NoLoop == [at |-> "gone", timer |-> 0, snapshot |-> "none", first |-> TRUE]
NewLoop == [NoLoop EXCEPT !.at = "delay"]

-----------------------------------------------------------------------------
Init ==
    /\ relay = "CLOSED" /\ omits = FALSE /\ calm = FALSE
    /\ asked = FALSE
    /\ known = "none" /\ buffer = "none" /\ data = "none"
    /\ call = [c \in Commands |-> NoCall]
    /\ alarm = [c \in Commands |-> NoAlarm]
    /\ wake = FALSE
    /\ epoch = 1
    /\ loops = [e \in 1..MaxEpoch |-> IF e = 1 THEN NewLoop ELSE NoLoop]
    /\ framed = FALSE
    /\ wrong = 0

(* Readings on their way to the entities *)

\* _on_reading: the newest reading of the key waits for the next flush.
Emit(value) == buffer' = IF value = "none" THEN buffer ELSE value

\* _flush
Flush ==
    /\ buffer # "none"
    /\ data' = buffer
    /\ buffer' = "none"
    /\ UNCHANGED <<world, backend, call, framed, wrong>>

\* readings_from_frame: the cached state rides along on every frame.  One frame a
\* tick at least; a further one that would tell nothing new is left out.
Frame ==
    /\ ~framed \/ known # data
    /\ framed' = TRUE
    /\ Emit(known)
    /\ UNCHANGED <<world, backend, data, call, wrong>>

(* A command *)

At(c, where) == call' = [call EXCEPT ![c].at = where]

\* The switch is available, and a command possible.
Available == data # "none"

\* is_on is False.
LooksOff == data = "OPEN"

\* _circuit_for_node finds the circuit.
HasCircuit == known # "none"

\* Mutant: the commanded state is cached before SPAN has the command.
GuessFirst(c, value) ==
    /\ ~calm
    /\ call[c] = NoCall /\ alarm[c] = NoAlarm
    /\ Available
    /\ call' = [call EXCEPT ![c] =
         [at |-> IF HasCircuit THEN "looked" ELSE "returned", value |-> value]]
    /\ known' = IF HasCircuit THEN value ELSE known
    /\ UNCHANGED <<world, alarm, wake, loops, epoch, buffer, data, framed, wrong>>

\* async_turn_on and async_turn_off, on the executor: the circuit is looked up.
\* Without one the command is ignored, and the call returns as if it were not.
Look(c, value) ==
    /\ ~calm
    /\ call[c] = NoCall /\ alarm[c] = NoAlarm
    /\ Available
    /\ call' = [call EXCEPT ![c] =
         [at |-> IF HasCircuit THEN "looked" ELSE "returned", value |-> value]]
    /\ UNCHANGED <<world, backend, buffer, data, framed, wrong>>

\* send_messages: the acknowledgement only says that SPAN has it.  The panel has
\* moved the relay by then, or declines; one that moves later is RelayMoves.
Send(c) ==
    /\ call[c].at = "looked"
    /\ At(c, "sent")
    /\ asked' = (asked \/ call[c].value = "OPEN")
    /\ relay' \in {relay, call[c].value}
    /\ UNCHANGED <<omits, calm, backend, buffer, data, framed, wrong>>

\* The call raises, before or after SPAN had it: the user sees the error, nothing
\* else changes here.
SendFails(c) ==
    /\ "fail" \in Turmoil /\ ~calm
    /\ call[c].at = "looked"
    /\ call' = [call EXCEPT ![c] = NoCall]
    /\ relay' \in {relay, call[c].value}
    /\ asked' = (asked \/ call[c].value = "OPEN")
    /\ UNCHANGED <<omits, calm, backend, buffer, data, framed, wrong>>

\* The commanded state is cached, in whatever _circuits is by now ...
Guess(c) ==
    /\ call[c].at = "sent"
    /\ known' = call[c].value
    /\ At(c, "guessed")
    /\ UNCHANGED <<world, alarm, wake, loops, epoch, buffer, data, framed, wrong>>

\* Mutant: no refresh is asked for.
ReportOnly(c) ==
    /\ call[c].at = "guessed"
    /\ Emit(known)
    /\ IF known = "none" THEN call' = [call EXCEPT ![c] = NoCall] ELSE At(c, "returned")
    /\ UNCHANGED <<world, known, alarm, wake, loops, epoch, data, framed, wrong>>

\* ... read back and emitted, and a refresh is asked for.  A snapshot without the
\* circuit in between raises a KeyError.
Report(c) ==
    /\ call[c].at = "guessed"
    /\ Emit(known)
    /\ IF known = "none"
       THEN call' = [call EXCEPT ![c] = NoCall] /\ UNCHANGED alarm
       ELSE At(c, "returned") /\ alarm' = [alarm EXCEPT ![c] = PostCommand]
    /\ UNCHANGED <<world, known, wake, loops, epoch, data, framed, wrong>>

\* async_send_command resumes on the event loop.
Return(c) ==
    /\ call[c].at = "returned"
    /\ data' = call[c].value
    /\ call' = [call EXCEPT ![c] = NoCall]
    /\ wrong' = 0
    /\ UNCHANGED <<world, backend, buffer, framed>>

\* _request_refresh's thread sets the Event, which wakes every loop that waits.
Ring(c) ==
    /\ alarm[c] = 0
    /\ alarm' = [alarm EXCEPT ![c] = NoAlarm]
    /\ wake' = TRUE
    /\ loops' = [e \in 1..MaxEpoch |->
         IF loops[e].at = "waiting" THEN [loops[e] EXCEPT !.at = "woken"] ELSE loops[e]]
    /\ UNCHANGED <<world, known, epoch, buffer, data, call, framed, wrong>>

(* A refresh loop *)

LoopAt(e, where) == loops' = [loops EXCEPT ![e] = [loops[e] EXCEPT !.at = where, !.timer = 0]]

\* Mutant: no loop retires.
NextRoundAnyway(e) == LoopAt(e, "calling")

\* The loop condition: a loop of an earlier attach retires.
NextRound(e) == IF e = epoch THEN LoopAt(e, "calling") ELSE LoopAt(e, "gone")

\* To the next wait: an Event already set ends it at once.
WaitAgain(e) ==
    loops' = [loops EXCEPT ![e] = [NoLoop EXCEPT !.at = IF wake THEN "woken" ELSE "waiting",
                                                 !.first = FALSE]]

Begin(e) ==
    /\ loops[e].at = "delay"
    /\ NextRound(e)
    /\ UNCHANGED <<world, known, alarm, wake, epoch, buffer, data, call, framed, wrong>>

\* What the switch trait in SPAN's snapshot says of the circuit, if it is there.
Snapshot == IF omits THEN "none" ELSE relay

\* SPAN takes the snapshot; its answer may take until RpcTicks.
TakeSnapshot(e) ==
    /\ loops[e].at = "calling"
    /\ loops' = [loops EXCEPT ![e] =
         [loops[e] EXCEPT !.at = "answered", !.snapshot = Snapshot]]
    /\ UNCHANGED <<world, known, alarm, wake, epoch, buffer, data, call, framed, wrong>>

\* Mutant: a circuit already known keeps the state it has.
StoreNew(e) ==
    /\ loops[e].at = "answered"
    /\ known' = IF known = "none" THEN loops[e].snapshot ELSE known
    /\ IF loops[e].first THEN WaitAgain(e) ELSE LoopAt(e, "announcing")
    /\ UNCHANGED <<world, alarm, wake, epoch, buffer, data, call, framed, wrong>>

\* The snapshot replaces _circuits; the first of an attach is not announced.
Store(e) ==
    /\ loops[e].at = "answered"
    /\ known' = loops[e].snapshot
    /\ IF loops[e].first THEN WaitAgain(e) ELSE LoopAt(e, "announcing")
    /\ UNCHANGED <<world, alarm, wake, epoch, buffer, data, call, framed, wrong>>

Announce(e) ==
    /\ loops[e].at = "announcing"
    /\ Emit(known)
    /\ WaitAgain(e)
    /\ UNCHANGED <<world, known, alarm, wake, epoch, data, call, framed, wrong>>

RefreshFails(e) ==
    /\ "fail" \in Turmoil /\ ~calm
    /\ loops[e].at \in {"calling", "answered"}
    /\ WaitAgain(e)
    /\ UNCHANGED <<world, known, alarm, wake, epoch, buffer, data, call, framed, wrong>>

\* _wait_before_refresh returns, clearing the Event if that is what ended it.
WaitEnds(e) ==
    /\ \/ loops[e].at = "woken" /\ wake' = FALSE
       \/ loops[e].at = "waiting" /\ loops[e].timer >= SwitchRefresh /\ UNCHANGED wake
    /\ NextRound(e)
    /\ UNCHANGED <<world, known, alarm, epoch, buffer, data, call, framed, wrong>>

\* _schedule_subscribe, on the next attach.
Reattach ==
    /\ ~calm
    /\ epoch < MaxEpoch
    /\ epoch' = epoch + 1
    /\ loops' = [loops EXCEPT ![epoch + 1] = NewLoop]
    /\ UNCHANGED <<world, known, alarm, wake, buffer, data, call, framed, wrong>>

(* The outside world *)

\* A relay slow to obey, the SPAN app, or a hand at the panel.
RelayMoves ==
    /\ "move" \in Turmoil /\ ~calm
    /\ relay' \in States \ {relay}
    /\ asked' = TRUE
    /\ UNCHANGED <<omits, calm, backend, buffer, data, call, framed, wrong>>

SnapshotChanges ==
    /\ "omit" \in Turmoil /\ ~calm
    /\ omits' = ~omits
    /\ UNCHANGED <<relay, calm, asked, backend, buffer, data, call, framed, wrong>>

\* The turmoil ends, and SPAN's snapshots are complete again.
CalmDown ==
    /\ ~calm
    /\ calm' = TRUE
    /\ omits' = FALSE
    /\ UNCHANGED <<relay, asked, backend, buffer, data, call, framed, wrong>>

\* A thread has something to do in this tick.
Due ==
    \/ ~framed
    \/ buffer # "none"
    \/ \E c \in Commands : call[c] # NoCall \/ alarm[c] = 0
    \/ \E e \in 1..MaxEpoch :
         \/ loops[e].at \in {"delay", "announcing", "woken"}
         \/ loops[e].at = "waiting" /\ loops[e].timer >= SwitchRefresh
         \/ loops[e].at \in {"calling", "answered"} /\ loops[e].timer >= RpcTicks

Tick ==
    /\ ~Due
    /\ framed' = FALSE
    /\ alarm' = [c \in Commands |-> IF alarm[c] > 0 THEN alarm[c] - 1 ELSE alarm[c]]
    /\ loops' = [e \in 1..MaxEpoch |->
         IF loops[e].at = "gone" THEN loops[e] ELSE [loops[e] EXCEPT !.timer = @ + 1]]
    /\ wrong' = IF Turmoil # {} \/ data \in {"none", relay} THEN 0
                ELSE IF wrong < SwitchRefresh THEN wrong + 1 ELSE wrong
    /\ UNCHANGED <<world, known, wake, epoch, buffer, data, call>>

-----------------------------------------------------------------------------
CommandSteps(c) == Send(c) \/ Guess(c) \/ Report(c) \/ Return(c) \/ Ring(c)
LoopSteps(e) == Begin(e) \/ TakeSnapshot(e) \/ Store(e) \/ Announce(e) \/ WaitEnds(e)

Next ==
    \/ Flush \/ Frame
    \/ \E c \in Commands :
         \/ \E value \in States : Look(c, value)
         \/ CommandSteps(c)
         \/ SendFails(c)
    \/ \E e \in 1..MaxEpoch : LoopSteps(e) \/ RefreshFails(e)
    \/ Reattach
    \/ RelayMoves \/ SnapshotChanges \/ CalmDown
    \/ Tick

\* Every thread runs, frames keep coming.
Fairness ==
    /\ WF_vars(Tick) /\ WF_vars(Flush) /\ WF_vars(~framed /\ Frame)
    /\ \A c \in Commands : WF_vars(CommandSteps(c))
    /\ \A e \in 1..MaxEpoch : WF_vars(LoopSteps(e))

Spec == Init /\ [][Next]_vars /\ Fairness

-----------------------------------------------------------------------------
(* Properties *)

TypeOK ==
    /\ relay \in States
    /\ omits \in BOOLEAN /\ calm \in BOOLEAN /\ asked \in BOOLEAN
    /\ known \in Readings /\ buffer \in Readings /\ data \in Readings
    /\ wake \in BOOLEAN /\ framed \in BOOLEAN
    /\ call \in [Commands -> Calls]
    /\ alarm \in [Commands -> NoAlarm..PostCommand]
    /\ loops \in [1..MaxEpoch -> Loops]
    /\ epoch \in 1..MaxEpoch
    /\ wrong \in 0..SwitchRefresh

\* "Again a few seconds after we send a command so a rejection or a slow relay
\* converges instead of lying" (circuit-control.md), "instead of sitting on our
\* optimistic guess for a full refresh interval" (POST_COMMAND_REFRESH_SECONDS): while
\* nothing but commands happens, the entity differs from the breaker for less.
GuessIsShort == wrong < SwitchRefresh

\* However commands, snapshots, reattaches, failed calls and slow relays interleave,
\* once they end the entity comes to show the breaker as it is, for good.
Converges == <>calm => <>[](data = relay)

\* "A stale or unreadable snapshot cannot make a live breaker look off" (is_on):
\* it looks off only if it was open or SPAN accepted to open it.
LiveBreakerNotOff == LooksOff => asked

\* "A refresh loop left over from a previous connection retires" (_subscribe_epoch):
\* in the end one loop refreshes, that of the last attach.
OldLoopsRetire == <>calm => <>[](\A e \in 1..MaxEpoch : e # epoch => loops[e].at = "gone")
=============================================================================
