--------------------------- MODULE StreamLiveness ---------------------------
(***************************************************************************)
(* The stream thread of CloudBackend (_run, the silence watchdog, the      *)
(* backoff), the snapshot-refresh worker it spawns on every attach, and    *)
(* the coordinator's staleness clock that both of them feed.               *)
(*                                                                         *)
(* Time is counted in ticks of 30 seconds, the coordinator's check         *)
(* interval.  Tick is disabled while something is due, so every timer of   *)
(* the code fires in the tick it falls in; RPCs take no time of their own. *)
(*                                                                         *)
(* SPAN, Ably and the network are external.  The channel of an attach is   *)
(* "unheard" until SubscribeAndGetTraits names it, "served" while SPAN     *)
(* publishes to it, "lapsed" when the registration has run out (the next   *)
(* refresh renews it) and "wedged" when only a new attach helps.           *)
(***************************************************************************)
EXTENDS Integers

CONSTANTS
    FrameSilence,   \* FRAME_SILENCE_SECONDS, 3 ticks
    ReadTimeout,    \* the read budget of DEFAULT_STREAM_TIMEOUT, 2 ticks
    SwitchRefresh,  \* SWITCH_REFRESH_SECONDS, 2 ticks
    StaleAfter,     \* STALE_AFTER_SECONDS, 10 ticks
    PublishEvery,   \* a served channel carries readings at least this often
    Clouds,         \* states the cloud may be in: "up", "mute", "down"
    Mishaps,        \* what may befall a working stream: "drop", "die", "lapse", "wedge"
    HasSwitches     \* the panel has a circuit with a switch trait

ASSUME TimingAssumption ==
    /\ FrameSilence \in Nat \ {0}
    /\ ReadTimeout \in Nat \ {0}
    /\ SwitchRefresh \in Nat \ {0}
    /\ StaleAfter \in Nat \ {0}
    /\ PublishEvery \in Nat \ {0}
    /\ Clouds \subseteq {"up", "mute", "down"}
    /\ Mishaps \subseteq {"drop", "die", "lapse", "wedge"}
    /\ HasSwitches \in BOOLEAN

VARIABLES
    cloud,        \* external: RPCs fail when "down", nothing is published unless "up"
    socket,       \* external: "flowing" with lines, keepalives at least, or "dead"
    channel,      \* external: what SPAN does with the attached channel
    loop,         \* _run: "attaching", "streaming", or "waiting" to reconnect
    pause,        \* ticks left of the reconnect wait
    quiet,        \* ticks since _last_frame of the backend
    delivered,    \* _last_frame > attached_at
    dead,         \* _dead_attaches
    topology,     \* _hardware_ids is known
    worker,       \* refresh worker of this epoch: "none", "first", "refreshing"
    timer,        \* ticks the worker has waited
    silence,      \* ticks since readings were last published (history)
    heardFrame,   \* readings have arrived on this attach (history)
    upFor,        \* ticks since the cloud last changed (history)
    owed,         \* ticks a publishing channel has kept its readings back (external)
    age,          \* ticks since _last_frame of the coordinator
    reportedLive, \* _reported_live: what the entities were last told
    checked       \* _check_staleness has run in this tick

external == <<cloud, socket, channel, owed>>
thread   == <<loop, pause, quiet, delivered, dead, topology>>
refresh  == <<worker, timer>>
clock    == <<age, reportedLive>>
history  == <<silence, heardFrame, upFor>>
vars     == <<external, thread, refresh, clock, history, checked>>

\* Counters stop here; nothing compares them with anything larger.
AgeCap  == StaleAfter + 2
DeadCap == 5

CappedInc(n, cap) == IF n < cap THEN n + 1 ELSE cap

-----------------------------------------------------------------------------
Init ==
    /\ cloud \in Clouds
    /\ socket = "flowing" /\ channel = "unheard" /\ owed = 0
    /\ loop = "attaching" /\ pause = 0 /\ quiet = 0 /\ delivered = FALSE
    /\ dead = 0 /\ topology = FALSE
    /\ worker = "none" /\ timer = 0
    /\ silence = 0 /\ heardFrame = FALSE /\ upFor = 0
    /\ age = StaleAfter   \* no frame yet: stream_is_live is False
    /\ reportedLive = TRUE
    /\ checked = FALSE

(* The coordinator *)

\* _on_reading and _flush: any reading, of a frame or of a relay, restarts the clock.
Flush == age' = 0 /\ reportedLive' = TRUE

stream_is_live == age < StaleAfter

\* Mutant: the early return is taken when the clock has run out, too.
NeverStale ==
    /\ ~checked
    /\ checked' = TRUE
    /\ UNCHANGED <<external, thread, refresh, history, clock>>

\* _check_staleness, once a tick.
CheckStaleness ==
    /\ ~checked
    /\ checked' = TRUE
    /\ reportedLive' = (reportedLive /\ stream_is_live)
    /\ UNCHANGED <<external, thread, refresh, history, age>>

(* The stream thread *)

\* Ticks a reconnect may wait: 5, 10, 20, 40, then at most 60 seconds, with
\* jitter; below a tick it may or may not see one go by.
ReconnectDelay(d) ==
    IF d <= 3 THEN 0..1 ELSE 1..2

\* _note_attach_ended and the wait after it.
NoteAttachEnded(carried) ==
    /\ dead' = IF carried THEN 0 ELSE CappedInc(dead, DeadCap)
    /\ topology' = (carried /\ topology)
    /\ pause' \in ReconnectDelay(dead')
    /\ loop' = "waiting"

\* Mutant: the watchdog goes on from the last frame of the previous connection.
AttachSameBudget ==
    /\ loop = "attaching"
    /\ cloud # "down"
    /\ loop' = "streaming"
    /\ topology' = TRUE
    /\ delivered' = FALSE
    /\ worker' = "first" /\ timer' = 0
    /\ socket' = "flowing" /\ channel' = "unheard" /\ owed' = 0
    /\ heardFrame' = FALSE
    /\ UNCHANGED <<cloud, pause, quiet, dead, silence, upFor, clock, checked>>

\* Mutant: a topology once dropped is not resolved again.
AttachUnresolved ==
    /\ loop = "attaching"
    /\ cloud # "down"
    /\ loop' = "streaming"
    /\ quiet' = 0 /\ delivered' = FALSE
    /\ topology' = (dead = 0)
    /\ worker' = "first" /\ timer' = 0
    /\ socket' = "flowing" /\ channel' = "unheard" /\ owed' = 0
    /\ heardFrame' = FALSE
    /\ UNCHANGED <<cloud, pause, dead, silence, upFor, clock, checked>>

\* bootstrap succeeds: the watchdog gets a full budget, the refresh worker of the
\* previous attach retires and a new one starts.
Attach ==
    /\ loop = "attaching"
    /\ cloud # "down"
    /\ loop' = "streaming"
    /\ topology' = TRUE
    /\ quiet' = 0 /\ delivered' = FALSE
    /\ worker' = "first" /\ timer' = 0
    /\ socket' = "flowing" /\ channel' = "unheard" /\ owed' = 0
    /\ heardFrame' = FALSE
    /\ UNCHANGED <<cloud, pause, dead, silence, upFor, clock, checked>>

\* bootstrap raises; the worker of the previous attach, if any, lives on.
AttachFails ==
    /\ loop = "attaching"
    /\ cloud = "down"
    /\ NoteAttachEnded(FALSE)
    /\ UNCHANGED <<external, quiet, delivered, refresh, history, clock, checked>>

\* The watchdog is consulted before a line is handled, so the frame that ends a
\* long silence is not handled either.
Listening == loop = "streaming" /\ socket = "flowing" /\ quiet < FrameSilence

Publishing == Listening /\ cloud = "up" /\ channel = "served"

\* A frame carrying readings.
Frame ==
    /\ Publishing
    /\ quiet' = 0 /\ delivered' = TRUE
    /\ Flush
    /\ silence' = 0 /\ heardFrame' = TRUE /\ owed' = 0
    /\ UNCHANGED <<cloud, socket, channel, loop, pause, dead, topology, refresh, upFor, checked>>

\* A lean interval frame: decodable, but without a reading.
LeanFrame ==
    /\ Publishing
    /\ quiet' = 0 /\ delivered' = TRUE
    /\ UNCHANGED <<external, loop, pause, dead, topology, refresh, clock, history, checked>>

StreamEnds ==
    /\ NoteAttachEnded(delivered)
    /\ UNCHANGED <<external, quiet, delivered, refresh, history, clock, checked>>

\* _stream_should_stop: a keepalive finds the channel silent for too long.
Watchdog ==
    /\ loop = "streaming" /\ socket = "flowing" /\ quiet >= FrameSilence
    /\ StreamEnds

\* The read timeout of a socket no byte arrives on; `quiet` was restarted when it
\* died, so it counts from there.
ReadTimesOut ==
    /\ loop = "streaming" /\ socket = "dead" /\ quiet >= ReadTimeout
    /\ StreamEnds

Reconnect ==
    /\ loop = "waiting" /\ pause = 0
    /\ loop' = "attaching"
    /\ UNCHANGED <<external, pause, quiet, delivered, dead, topology, refresh,
                   history, clock, checked>>

(* The refresh worker *)

\* subscribe: it needs the cloud, and hardware ids that _forget_topology may have
\* dropped.
Subscribed == cloud # "down" /\ topology

Renewed == IF channel \in {"unheard", "lapsed"} THEN "served" ELSE channel

\* The first snapshot of an attach is not announced.
FirstRefresh ==
    /\ worker = "first"
    /\ worker' = "refreshing" /\ timer' = 0
    /\ channel' = IF Subscribed THEN Renewed ELSE channel
    /\ UNCHANGED <<cloud, socket, owed, thread, history, clock, checked>>

\* Every later one is: its relay readings go the way of all readings.
Refresh ==
    /\ worker = "refreshing" /\ timer >= SwitchRefresh
    /\ timer' = 0
    /\ channel' = IF Subscribed THEN Renewed ELSE channel
    /\ IF Subscribed /\ HasSwitches THEN Flush ELSE UNCHANGED clock
    /\ UNCHANGED <<cloud, socket, owed, thread, worker, history, checked>>

\* A relay command that the cloud accepts emits a reading and brings the next
\* refresh forward.  One whose reading finds the clock at zero already is left out.
Command ==
    /\ HasSwitches /\ cloud # "down"
    /\ age > 0
    /\ Flush
    /\ timer' = IF worker = "refreshing" THEN SwitchRefresh ELSE timer
    /\ UNCHANGED <<external, thread, worker, history, checked>>

(* The outside world *)

CloudChanges ==
    /\ cloud' \in Clouds \ {cloud}
    /\ upFor' = 0 /\ owed' = 0
    /\ UNCHANGED <<socket, channel, thread, refresh, silence, heardFrame, clock, checked>>

\* Something befalls an attach that has delivered readings.
Mishap(what) ==
    /\ what \in Mishaps
    /\ Listening /\ heardFrame
    /\ CASE what = "drop" ->
              /\ StreamEnds
         [] what = "die" ->
              /\ socket' = "dead" /\ quiet' = 0
              /\ UNCHANGED <<cloud, channel, owed, loop, pause, delivered, dead, topology,
                             refresh, history, clock, checked>>
         [] OTHER ->
              /\ channel' = (IF what = "lapse" THEN "lapsed" ELSE "wedged")
              /\ heardFrame' = FALSE /\ owed' = 0
              /\ UNCHANGED <<cloud, socket, thread, refresh, silence, upFor, clock, checked>>

\* Nothing may be put off past the tick it is due in.
Due ==
    \/ ~checked
    \/ loop = "attaching"
    \/ loop = "waiting" /\ pause = 0
    \/ loop = "streaming" /\ socket = "flowing" /\ quiet >= FrameSilence
    \/ loop = "streaming" /\ socket = "dead" /\ quiet >= ReadTimeout
    \/ Publishing /\ owed >= PublishEvery
    \/ worker = "first"
    \/ worker = "refreshing" /\ timer >= SwitchRefresh

Tick ==
    /\ ~Due
    /\ checked' = FALSE
    /\ pause' = IF loop = "waiting" THEN pause - 1 ELSE pause
    /\ quiet' = IF loop = "streaming" THEN quiet + 1 ELSE quiet
    /\ timer' = IF worker = "refreshing" THEN timer + 1 ELSE timer
    /\ owed' = IF Publishing THEN owed + 1 ELSE owed
    /\ age' = CappedInc(age, AgeCap)
    /\ silence' = CappedInc(silence, AgeCap)
    /\ upFor' = CappedInc(upFor, AgeCap)
    /\ UNCHANGED <<cloud, socket, channel, loop, delivered, dead, topology, worker,
                   heardFrame, reportedLive>>

-----------------------------------------------------------------------------
Thread == Attach \/ AttachFails \/ Watchdog \/ ReadTimesOut \/ Reconnect

Next ==
    \/ CheckStaleness
    \/ Thread
    \/ Frame \/ LeanFrame
    \/ FirstRefresh \/ Refresh
    \/ Command
    \/ CloudChanges
    \/ \E what \in Mishaps : Mishap(what)
    \/ Tick

\* The threads run, the timer fires, the clock advances, and a channel that SPAN
\* serves is published to.
Fairness ==
    /\ WF_vars(Tick)
    /\ WF_vars(CheckStaleness)
    /\ WF_vars(Thread)
    /\ WF_vars(FirstRefresh \/ Refresh)
    /\ WF_vars(Frame)

Spec == Init /\ [][Next]_vars /\ Fairness

-----------------------------------------------------------------------------
(* Properties *)

TypeOK ==
    /\ cloud \in {"up", "mute", "down"}
    /\ socket \in {"flowing", "dead"}
    /\ channel \in {"unheard", "served", "lapsed", "wedged"}
    /\ owed \in 0..PublishEvery
    /\ loop \in {"attaching", "streaming", "waiting"}
    /\ pause \in 0..2
    /\ quiet \in 0..(FrameSilence + ReadTimeout)
    /\ dead \in 0..DeadCap
    /\ worker \in {"none", "first", "refreshing"}
    /\ timer \in 0..SwitchRefresh
    /\ age \in 0..AgeCap /\ silence \in 0..AgeCap /\ upFor \in 0..AgeCap
    /\ delivered \in BOOLEAN /\ topology \in BOOLEAN /\ heardFrame \in BOOLEAN
    /\ reportedLive \in BOOLEAN /\ checked \in BOOLEAN

\* "Comfortably longer than the backend's own watchdog plus a reconnect, so an
\* ordinary reattach does not blink every entity" (coordinator.py): while the
\* cloud is up, whatever befalls one attach at a time, readings come back before
\* StaleAfter ticks of silence, counting telemetry alone.
ReattachDoesNotBlink ==
    cloud = "up" /\ upFor >= StaleAfter => silence < StaleAfter

\* Once the entities' clock has run out and been looked at, they have been told.
StaleIsReported == checked /\ ~stream_is_live => ~reportedLive

\* A cloud that comes back for good brings readings back for good, however deep
\* the backoff had become and however often an attach then fails.
ReadingsResume == <>[](cloud = "up") => []<>(silence = 0)

=============================================================================
