---------------------------- MODULE StreamProofs ----------------------------
(***************************************************************************)
(* For all durations: no timer of the stream, its watchdog or its refresh  *)
(* worker overruns, a clock that has run out has been reported, and where  *)
(* StaleAfter is comfortably longer than one mishap, an ordinary reattach  *)
(* does not blink the entities.                                            *)
(***************************************************************************)
EXTENDS StreamLiveness, TLAPS

\* Zero is within every limit.
LEMMA Limits ==
    /\ AgeCap \in Nat /\ DeadCap \in Nat /\ StaleAfter \in 0..AgeCap
    /\ 0 \in 0..AgeCap /\ 0 \in 0..DeadCap /\ 0 \in 0..2
    /\ 0 \in 0..PublishEvery /\ 0 \in 0..SwitchRefresh /\ SwitchRefresh \in 0..SwitchRefresh
    /\ 0 \in 0..(FrameSilence + ReadTimeout)
BY TimingAssumption DEF AgeCap, DeadCap

LEMMA InitType == Init => TypeOK
<1> SUFFICES ASSUME Init PROVE TypeOK
    OBVIOUS
<1>1. cloud \in {"up", "mute", "down"}
    BY TimingAssumption DEF Init
<1> QED BY <1>1, Limits DEF Init, TypeOK

\* The bounds that saturating counters keep.
LEMMA CapType ==
    ASSUME NEW cap \in Nat, NEW n \in 0..cap
    PROVE  CappedInc(n, cap) \in 0..cap
BY DEF CappedInc

\* An attach that ends leaves a backoff of at most two ticks.
LEMMA EndedType ==
    ASSUME TypeOK, NEW carried \in BOOLEAN, NoteAttachEnded(carried)
    PROVE  dead' \in 0..DeadCap /\ topology' \in BOOLEAN /\ pause' \in 0..2 /\ loop' = "waiting"
<1>1. dead' \in 0..DeadCap
    BY CapType, Limits DEF NoteAttachEnded, TypeOK
<1>2. pause' \in 0..2
    BY DEF NoteAttachEnded, ReconnectDelay
<1> QED BY <1>1, <1>2 DEF NoteAttachEnded, TypeOK

LEMMA StreamEndsType == TypeOK /\ StreamEnds => TypeOK'
<1> SUFFICES ASSUME TypeOK, StreamEnds PROVE TypeOK'
    OBVIOUS
<1>1. dead' \in 0..DeadCap /\ topology' \in BOOLEAN /\ pause' \in 0..2 /\ loop' = "waiting"
    BY EndedType DEF StreamEnds, TypeOK
<1> QED BY <1>1 DEF StreamEnds, external, refresh, clock, history, TypeOK

\* Time passes only while nothing is due, so no timer runs past its limit.
LEMMA TickType == TypeOK /\ Tick => TypeOK'
<1> SUFFICES ASSUME TypeOK, Tick PROVE TypeOK'
    OBVIOUS
<1>1. age' \in 0..AgeCap /\ silence' \in 0..AgeCap /\ upFor' \in 0..AgeCap
    BY CapType, TimingAssumption DEF Tick, TypeOK, AgeCap
<1>2. pause' \in 0..2
    BY DEF Tick, Due, TypeOK
<1>3. quiet' \in 0..(FrameSilence + ReadTimeout)
    <2>1. loop = "streaming" => quiet < FrameSilence \/ quiet < ReadTimeout
        BY TimingAssumption DEF Tick, Due, TypeOK
    <2> QED BY <2>1, TimingAssumption DEF Tick, TypeOK
<1>4. timer' \in 0..SwitchRefresh /\ owed' \in 0..PublishEvery
    BY TimingAssumption DEF Tick, Due, TypeOK
<1>5. /\ cloud' \in {"up", "mute", "down"}
      /\ socket' \in {"flowing", "dead"}
      /\ channel' \in {"unheard", "served", "lapsed", "wedged"}
      /\ loop' \in {"attaching", "streaming", "waiting"}
      /\ dead' \in 0..DeadCap
      /\ worker' \in {"none", "first", "refreshing"}
      /\ delivered' \in BOOLEAN /\ topology' \in BOOLEAN /\ heardFrame' \in BOOLEAN
      /\ reportedLive' \in BOOLEAN /\ checked' \in BOOLEAN
    BY DEF Tick, TypeOK
<1> QED BY ONLY <1>1, <1>2, <1>3, <1>4, <1>5, Zenon DEF TypeOK

LEMMA NextType == TypeOK /\ [Next]_vars => TypeOK'
<1> SUFFICES ASSUME TypeOK, [Next]_vars PROVE TypeOK'
    OBVIOUS
<1> USE TimingAssumption DEF TypeOK
<1>1. CASE UNCHANGED vars
    BY <1>1 DEF vars, external, thread, refresh, clock, history
<1>2. CASE CheckStaleness
    BY <1>2 DEF CheckStaleness, stream_is_live, external, thread, refresh, history
<1>3. CASE Attach
    BY <1>3, Limits DEF Attach, clock
<1>4. CASE AttachFails
    BY <1>4, EndedType DEF AttachFails, external, refresh, history, clock
<1>5. CASE Watchdog \/ ReadTimesOut
    BY <1>5, StreamEndsType DEF Watchdog, ReadTimesOut
<1>6. CASE Reconnect
    BY <1>6 DEF Reconnect, external, refresh, history, clock
<1>7. CASE Frame
    BY <1>7, Limits DEF Frame, Flush, refresh
<1>8. CASE LeanFrame
    BY <1>8, Limits DEF LeanFrame, external, refresh, history, clock
<1>9. CASE FirstRefresh
    BY <1>9, Limits DEF FirstRefresh, Renewed, thread, history, clock
<1>10. CASE Refresh
    <2>1. channel' \in {"unheard", "served", "lapsed", "wedged"} /\ timer' = 0
        BY <1>10 DEF Refresh, Renewed
    <2>2. age' \in 0..AgeCap /\ reportedLive' \in BOOLEAN
        BY <1>10, Limits DEF Refresh, Flush, clock
    <2>3. UNCHANGED <<cloud, socket, owed, thread, worker, history, checked>>
        BY <1>10 DEF Refresh
    <2> QED BY <2>1, <2>2, <2>3, Limits DEF thread, history
<1>11. CASE Command
    BY <1>11, Limits DEF Command, Flush, external, thread, history
<1>12. CASE CloudChanges
    BY <1>12, Limits DEF CloudChanges, thread, refresh, clock
<1>13. ASSUME NEW what \in Mishaps, Mishap(what)
       PROVE  TypeOK'
    <2>1. CASE what = "drop"
        BY <1>13, <2>1, StreamEndsType DEF Mishap
    <2>2. CASE what = "die"
        BY <1>13, <2>2, Limits DEF Mishap, refresh, history, clock
    <2>3. CASE what \in {"lapse", "wedge"}
        <3>1. /\ channel' \in {"lapsed", "wedged"} /\ heardFrame' = FALSE /\ owed' = 0
              /\ UNCHANGED <<cloud, socket, thread, refresh, silence, upFor, clock, checked>>
            BY ONLY <1>13, <2>3 DEF Mishap
        <3> QED BY <3>1, Limits DEF thread, refresh, clock
    <2> QED BY <2>1, <2>2, <2>3
<1> QED BY <1>1, <1>2, <1>3, <1>4, <1>5, <1>6, <1>7, <1>8, <1>9, <1>10, <1>11, <1>12, <1>13,
           TickType DEF Next, Thread

-----------------------------------------------------------------------------
\* Whatever the durations, no timer overruns its limit and no step is skipped over.
THEOREM StreamTyped == Spec => []TypeOK
BY InitType, NextType, PTL DEF Spec

\* An expired clock that has been looked at in this tick has been reported
\* (_check_staleness): readings restart it and report, and nothing else touches it.
THEOREM ExpiryIsReported == Spec => []StaleIsReported
<1>1. Init => StaleIsReported
    BY DEF Init, StaleIsReported
<1>2. TypeOK /\ StaleIsReported /\ [Next]_vars => StaleIsReported'
    <2> SUFFICES ASSUME TypeOK, StaleIsReported, [Next]_vars PROVE StaleIsReported'
        OBVIOUS
    <2> USE DEF StaleIsReported, stream_is_live
    <2>1. CASE UNCHANGED <<age, reportedLive, checked>>
        BY <2>1
    <2>2. CASE CheckStaleness
        BY <2>2 DEF CheckStaleness
    <2>3. CASE Flush
        BY <2>3, TimingAssumption DEF Flush
    <2>4. CASE checked' = FALSE
        BY <2>4
    <2> QED
        BY <2>1, <2>2, <2>3, <2>4
        DEF Next, vars, clock, Thread, Attach, AttachFails, Watchdog, ReadTimesOut, StreamEnds,
            Reconnect, Frame, LeanFrame, FirstRefresh, Refresh, Command, CloudChanges, Mishap, Tick
<1> QED BY <1>1, <1>2, StreamTyped, PTL DEF Spec

-----------------------------------------------------------------------------
(* Reattaching in time *)

\* Between the watchdog, a reconnect wait of at most MaxPause and the slowest
\* cadence of readings, one mishap costs less than StaleAfter, and a channel that is
\* published to at all does not look silent to the watchdog.
MaxPause == 2
Comfortably ==
    /\ PublishEvery < FrameSilence
    /\ 2 * PublishEvery + FrameSilence + MaxPause < StaleAfter
    /\ 2 * PublishEvery + ReadTimeout + MaxPause < StaleAfter
    /\ 2 * PublishEvery + SwitchRefresh < StaleAfter

\* What an attach is by its place in the code: its first refresh is due at once and
\* comes before anything else, its readings are on a channel that is served.
AttachKnows ==
    loop = "streaming" =>
        /\ topology
        /\ worker # "none"
        /\ channel # "served" => owed = 0
        /\ socket = "dead" => quiet <= ReadTimeout
        /\ socket = "flowing" => quiet <= FrameSilence
        /\ socket = "flowing" /\ heardFrame => channel = "served"
        /\ worker = "first" =>
             socket = "flowing" /\ channel = "unheard" /\ quiet = 0 /\ ~heardFrame

\* Readings will come within n more ticks, and that is soon enough: counted from the
\* last ones, or from the cloud's return, whichever is later.
Within(n) == silence + n < StaleAfter \/ upFor + n < StaleAfter

\* What may be ahead: a wait, an attach and a reading; before them the watchdog or the
\* read timeout; the next refresh and a reading; just a reading.
Afresh == MaxPause + PublishEvery
UntilWatchdog == FrameSilence - quiet + Afresh
UntilTimeout == ReadTimeout - quiet + Afresh
UntilRefresh == SwitchRefresh - timer + PublishEvery
UntilFrame == PublishEvery - owed

\* How long the next readings may still take, wherever the thread is.  On a channel
\* that is served a mishap may come first, as long as there is none already.
Flowing == loop = "streaming" /\ socket = "flowing"
OnItsWay ==
    cloud = "up" =>
        /\ loop = "waiting" => Within(pause + PublishEvery)
        /\ loop = "attaching" => Within(PublishEvery)
        /\ loop = "streaming" /\ socket = "dead" => Within(UntilTimeout)
        /\ Flowing /\ worker = "first" => Within(PublishEvery)
        /\ Flowing /\ worker # "first" /\ channel \in {"unheard", "lapsed"} =>
             Within(UntilWatchdog) /\ Within(UntilRefresh)
        /\ Flowing /\ channel = "wedged" => Within(UntilWatchdog)
        /\ Flowing /\ channel = "served" /\ ~heardFrame =>
             /\ Within(UntilFrame)
             /\ FrameSilence - quiet <= UntilFrame => Within(UntilWatchdog)
        /\ Flowing /\ channel = "served" /\ heardFrame =>
             /\ Within(UntilFrame + (FrameSilence + Afresh))
             /\ Within(UntilFrame + (ReadTimeout + Afresh))
             /\ Within(UntilFrame + (SwitchRefresh + PublishEvery))

IInv == AttachKnows /\ OnItsWay

LEMMA AttachKnowsStep ==
    ASSUME TypeOK, AttachKnows, [Next]_vars
    PROVE  AttachKnows'
<1> USE TimingAssumption DEF TypeOK, AttachKnows
<1>1. CASE UNCHANGED <<external, thread, refresh, heardFrame>>
    BY <1>1 DEF external, thread, refresh
<1>2. CASE Attach
    BY <1>2 DEF Attach
<1>3. CASE loop' # "streaming"
    BY <1>3
<1>4. CASE Frame
    BY <1>4 DEF Frame, Publishing, Listening, refresh
<1>5. CASE LeanFrame
    BY <1>5 DEF LeanFrame, Publishing, Listening, external, refresh, history
<1>6. CASE FirstRefresh
    BY <1>6 DEF FirstRefresh, Renewed, thread, history
<1>7. CASE Refresh
    <2>1. channel' \in {channel, "served"} /\ (channel = "served" => channel' = "served")
          /\ (channel' # channel => channel \in {"unheard", "lapsed"})
        BY <1>7 DEF Refresh, Renewed
    <2>2. UNCHANGED <<socket, owed, loop, quiet, topology, worker, heardFrame>>
          /\ worker = "refreshing"
        BY <1>7 DEF Refresh, thread, history
    <2> QED BY <2>1, <2>2
<1>8. CASE Command
    BY <1>8 DEF Command, external, thread, history
<1>9. CASE CloudChanges
    BY <1>9 DEF CloudChanges, thread, refresh
<1>10. ASSUME NEW what \in Mishaps, Mishap(what)
       PROVE  AttachKnows'
    <2>1. CASE what = "drop"
        BY <1>3, <1>10, <2>1 DEF Mishap, StreamEnds, NoteAttachEnded
    <2>2. CASE what = "die"
        BY <1>10, <2>2 DEF Mishap, Listening, refresh, history
    <2>3. CASE what \in {"lapse", "wedge"}
        <3>1. /\ channel' \in {"lapsed", "wedged"} /\ heardFrame' = FALSE /\ owed' = 0
              /\ Listening /\ heardFrame
              /\ UNCHANGED <<cloud, socket, thread, refresh, silence, upFor, clock, checked>>
            BY ONLY <1>10, <2>3 DEF Mishap
        <3> QED BY <3>1 DEF Listening, thread, refresh
    <2> QED BY <2>1, <2>2, <2>3
<1>11. CASE Tick
    BY <1>11 DEF Tick, Due, Publishing, Listening
<1> QED
    BY <1>1, <1>2, <1>3, <1>4, <1>5, <1>6, <1>7, <1>8, <1>9, <1>10, <1>11
    DEF Next, Thread, vars, history, AttachFails, Watchdog, ReadTimesOut, StreamEnds,
        NoteAttachEnded, Reconnect, CheckStaleness

\* The arithmetic of a bound: it may shrink, and a tick costs it one.
LEMMA Shrinks ==
    \A s, u, limit, m, n \in Int :
        n <= m /\ (s + m < limit \/ u + m < limit) => s + n < limit \/ u + n < limit
OBVIOUS

LEMMA Costs ==
    \A s, u, s2, u2, limit, m, n \in Int :
        s2 <= s + 1 /\ u2 <= u + 1 /\ n + 1 <= m /\ (s + m < limit \/ u + m < limit)
            => s2 + n < limit \/ u2 + n < limit
OBVIOUS

LEMMA OneLess == \A a, b, c \in Int : (a - (b + 1)) + c + 1 <= (a - b) + c
OBVIOUS

LEMMA BoundTypes ==
    ASSUME TypeOK
    PROVE  /\ silence \in Int /\ upFor \in Int /\ StaleAfter \in Int
           /\ pause \in Int /\ quiet \in Int /\ timer \in Int /\ owed \in Int
           /\ PublishEvery \in Int /\ Afresh \in Int
           /\ UntilWatchdog \in Int /\ UntilTimeout \in Int /\ UntilRefresh \in Int
           /\ UntilFrame \in Int
<1>1. /\ silence \in Int /\ upFor \in Int /\ StaleAfter \in Int
      /\ pause \in Int /\ quiet \in Int /\ timer \in Int /\ owed \in Int
      /\ PublishEvery \in Int /\ FrameSilence \in Int /\ ReadTimeout \in Int
      /\ SwitchRefresh \in Int
    BY TimingAssumption DEF TypeOK, AgeCap
<1>2. Afresh \in Int
    BY <1>1 DEF Afresh, MaxPause
<1> QED BY <1>1, <1>2 DEF UntilWatchdog, UntilTimeout, UntilRefresh, UntilFrame

\* Every bound on a tick's way to readings shrinks by one with the tick.
LEMMA TickOnItsWay ==
    ASSUME TypeOK, IInv, Tick
    PROVE  OnItsWay'
<1> USE DEF IInv
<1> SUFFICES ASSUME cloud = "up"
             PROVE  OnItsWay'
    BY DEF Tick, OnItsWay
<1>1. TypeOK'
    BY TickType
<1>2. UNCHANGED <<cloud, socket, channel, loop, worker, heardFrame>>
    BY DEF Tick
<1>3. \A m, n \in Int : n + 1 <= m /\ Within(m) => silence' + n < StaleAfter \/ upFor' + n < StaleAfter
    <2>1. silence' <= silence + 1 /\ upFor' <= upFor + 1
        BY TimingAssumption DEF Tick, CappedInc, AgeCap, TypeOK
    <2>2. silence' \in Int /\ upFor' \in Int /\ silence \in Int /\ upFor \in Int /\ StaleAfter \in Int
        BY <1>1, TimingAssumption DEF TypeOK, AgeCap
    <2> QED BY ONLY <2>1, <2>2, Costs DEF Within
<1>4. /\ loop # "attaching" /\ worker # "first"
      /\ loop = "waiting" => pause' = pause - 1
      /\ loop = "streaming" => quiet' = quiet + 1
      /\ worker = "refreshing" => timer' = timer + 1
      /\ Flowing /\ channel = "served" => owed' = owed + 1
    <2>1. Flowing => quiet < FrameSilence
        BY TimingAssumption DEF Tick, Due, Flowing, TypeOK
    <2> QED BY <2>1 DEF Tick, Due, Flowing, Publishing, Listening, TypeOK
<1>5. /\ silence \in Int /\ upFor \in Int /\ StaleAfter \in Int
      /\ pause \in Int /\ quiet \in Int /\ timer \in Int /\ owed \in Int
      /\ PublishEvery \in Int /\ Afresh \in Int /\ UntilWatchdog \in Int
      /\ UntilTimeout \in Int /\ UntilRefresh \in Int /\ UntilFrame \in Int
    BY BoundTypes
<1>6. loop = "waiting" => Within(pause + PublishEvery)'
    <2>1. \A p, w \in Int : (p - 1) + w + 1 <= p + w /\ (p - 1) + w \in Int /\ p + w \in Int
        OBVIOUS
    <2> QED BY <1>3, <1>4, <1>5, <2>1 DEF OnItsWay, Within
<1>7. loop = "streaming" /\ socket = "dead" => Within(UntilTimeout)'
    <2>1. loop = "streaming" => UntilTimeout' \in Int /\ UntilTimeout' + 1 <= UntilTimeout
        BY <1>4, <1>5, OneLess, TimingAssumption DEF UntilTimeout
    <2> QED BY <1>3, <1>5, <2>1 DEF OnItsWay, Within
<1>8. loop = "streaming" => /\ UntilWatchdog' \in Int /\ UntilWatchdog' + 1 <= UntilWatchdog
                            /\ UntilRefresh' \in Int /\ UntilRefresh' + 1 <= UntilRefresh
    <2>1. loop = "streaming" => worker = "refreshing"
        BY <1>4 DEF AttachKnows, TypeOK
    <2> QED BY <1>4, <1>5, <2>1, OneLess, TimingAssumption DEF UntilWatchdog, UntilRefresh
<1>9. Flowing /\ channel = "served" =>
        /\ UntilFrame' \in Int /\ UntilFrame' = UntilFrame - 1
        /\ (FrameSilence - quiet)' = (FrameSilence - quiet) - 1
    <2>1. \A a, b \in Int : a - (b + 1) = (a - b) - 1 /\ a - (b + 1) \in Int
        OBVIOUS
    <2>2. FrameSilence \in Int
        BY TimingAssumption
    <2> QED BY <1>4, <1>5, <2>1, <2>2 DEF UntilFrame, Flowing
<1>10. Flowing /\ channel \in {"unheard", "lapsed"} => Within(UntilWatchdog)' /\ Within(UntilRefresh)'
    <2>1. Flowing /\ channel \in {"unheard", "lapsed"} => Within(UntilWatchdog) /\ Within(UntilRefresh)
        BY <1>4 DEF OnItsWay
    <2> QED BY <1>3, <1>5, <1>8, <2>1 DEF Flowing, Within
<1>11. Flowing /\ channel = "wedged" => Within(UntilWatchdog)'
    <2>1. Flowing /\ channel = "wedged" => Within(UntilWatchdog)
        BY DEF OnItsWay
    <2> QED BY <1>3, <1>5, <1>8, <2>1 DEF Flowing, Within
<1>12. Flowing /\ channel = "served" /\ ~heardFrame =>
        /\ Within(UntilFrame)'
        /\ (FrameSilence - quiet)' <= UntilFrame' => Within(UntilWatchdog)'
    <2> SUFFICES ASSUME Flowing, channel = "served", ~heardFrame
                 PROVE  /\ Within(UntilFrame)'
                        /\ (FrameSilence - quiet)' <= UntilFrame' => Within(UntilWatchdog)'
        OBVIOUS
    <2>1. Within(UntilFrame) /\ (FrameSilence - quiet <= UntilFrame => Within(UntilWatchdog))
        BY DEF OnItsWay
    <2>2. \A a, b \in Int : a - 1 <= b - 1 => a <= b
        OBVIOUS
    <2>3. \A a \in Int : a - 1 + 1 <= a
        OBVIOUS
    <2>4. FrameSilence - quiet \in Int
        BY <1>5, TimingAssumption
    <2>5. (FrameSilence - quiet)' <= UntilFrame' => FrameSilence - quiet <= UntilFrame
        BY <1>5, <1>9, <2>2, <2>4
    <2>6. Within(UntilFrame)'
        BY <1>3, <1>5, <1>9, <2>1, <2>3 DEF Within
    <2>7. Within(UntilWatchdog) => Within(UntilWatchdog)'
        BY <1>3, <1>5, <1>8 DEF Flowing, Within
    <2> QED BY <2>1, <2>5, <2>6, <2>7
<1>13. Flowing /\ channel = "served" /\ heardFrame =>
        /\ Within(UntilFrame + (FrameSilence + Afresh))'
        /\ Within(UntilFrame + (ReadTimeout + Afresh))'
        /\ Within(UntilFrame + (SwitchRefresh + PublishEvery))'
    <2> SUFFICES ASSUME Flowing, channel = "served", heardFrame
                 PROVE  /\ Within(UntilFrame + (FrameSilence + Afresh))'
                        /\ Within(UntilFrame + (ReadTimeout + Afresh))'
                        /\ Within(UntilFrame + (SwitchRefresh + PublishEvery))'
        OBVIOUS
    <2>1. \A d \in Int : Within(UntilFrame + d) => silence' + (UntilFrame' + d) < StaleAfter
                                                   \/ upFor' + (UntilFrame' + d) < StaleAfter
        <3>1. \A a, d \in Int : (a - 1) + d + 1 <= a + d /\ (a - 1) + d \in Int /\ a + d \in Int
            OBVIOUS
        <3> QED BY <1>3, <1>5, <1>9, <3>1
    <2>2. FrameSilence + Afresh \in Int /\ ReadTimeout + Afresh \in Int
          /\ SwitchRefresh + PublishEvery \in Int
        BY <1>5, TimingAssumption
    <2>3. /\ Within(UntilFrame + (FrameSilence + Afresh))
          /\ Within(UntilFrame + (ReadTimeout + Afresh))
          /\ Within(UntilFrame + (SwitchRefresh + PublishEvery))
        BY DEF OnItsWay
    <2> QED BY <2>1, <2>2, <2>3 DEF Within, Afresh
<1> QED
    BY <1>2, <1>4, <1>6, <1>7, <1>10, <1>11, <1>12, <1>13 DEF OnItsWay, Flowing

\* How the bounds lie to each other, and what Comfortably makes of them.
LEMMA BoundsOrdered ==
    ASSUME TypeOK
    PROVE  /\ UntilFrame <= PublishEvery /\ PublishEvery <= UntilRefresh
           /\ UntilRefresh <= SwitchRefresh + PublishEvery
           /\ UntilWatchdog <= FrameSilence + Afresh
           /\ UntilTimeout <= ReadTimeout + Afresh
           /\ pause + PublishEvery \in Int /\ pause + PublishEvery <= Afresh
           /\ \A d \in Int : UntilFrame + d \in Int /\ d <= UntilFrame + d
<1>1. \A a, b, c \in Int : 0 <= b /\ b <= a => a - b <= a /\ 0 <= a - b /\ c <= (a - b) + c
    OBVIOUS
<1>2. \A a, b, c \in Int : 0 <= b => (a - b) + c <= a + c
    OBVIOUS
<1>3. /\ owed \in Int /\ 0 <= owed /\ owed <= PublishEvery
      /\ timer \in Int /\ 0 <= timer /\ timer <= SwitchRefresh
      /\ quiet \in Int /\ 0 <= quiet /\ pause \in 0..2
      /\ PublishEvery \in Int /\ FrameSilence \in Int /\ ReadTimeout \in Int
      /\ SwitchRefresh \in Int /\ Afresh \in Int
    BY BoundTypes, TimingAssumption DEF TypeOK
<1>4. \A a \in Int : 0 + a <= 2 + a /\ 1 + a <= 2 + a /\ 2 + a <= 2 + a
                     /\ 0 + a \in Int /\ 1 + a \in Int /\ 2 + a \in Int
    OBVIOUS
<1>5. pause + PublishEvery \in Int /\ pause + PublishEvery <= Afresh
    <2>1. pause = 0 \/ pause = 1 \/ pause = 2
        BY <1>3
    <2> QED BY <1>3, <1>4, <2>1 DEF Afresh, MaxPause
<1>6. \A a, d \in Int : 0 <= a => a + d \in Int /\ d <= a + d
    OBVIOUS
<1>7. 0 <= UntilFrame /\ UntilFrame \in Int
    BY <1>1, <1>3 DEF UntilFrame
<1> QED
    BY <1>1, <1>2, <1>3, <1>5, <1>6, <1>7
    DEF UntilFrame, UntilRefresh, UntilWatchdog, UntilTimeout

\* Every bound that may hold just after readings, or after the cloud's return.
LEMMA ComfortableStart ==
    ASSUME Comfortably
    PROVE  /\ \A n \in Int : n <= PublishEvery + (FrameSilence + Afresh) => 0 + n < StaleAfter
           /\ \A n \in Int : n <= PublishEvery + (ReadTimeout + Afresh) => 0 + n < StaleAfter
           /\ \A n \in Int : n <= PublishEvery + (SwitchRefresh + PublishEvery) => 0 + n < StaleAfter
<1>1. \A p, f, w, a, n \in Int : 2 * p + f + w < a /\ n <= p + (f + (w + p)) => 0 + n < a
    OBVIOUS
<1>2. \A p, f, a, n \in Int : 2 * p + f < a /\ n <= p + (f + p) => 0 + n < a
    OBVIOUS
<1>3. /\ PublishEvery \in Int /\ FrameSilence \in Int /\ ReadTimeout \in Int
      /\ SwitchRefresh \in Int /\ StaleAfter \in Int /\ MaxPause \in Int
    BY TimingAssumption DEF MaxPause
<1> QED BY <1>1, <1>2, <1>3 DEF Comfortably, Afresh

\* While no time passes, a bound no larger still holds.
LEMMA HeldBounds ==
    ASSUME TypeOK, UNCHANGED <<silence, upFor>>
    PROVE  \A m, n \in Int : n <= m /\ Within(m) =>
             silence' + n < StaleAfter \/ upFor' + n < StaleAfter
BY BoundTypes, Shrinks DEF Within

\* An attach that ends leaves a wait, an attach and a reading.
LEMMA EndedOnItsWay ==
    ASSUME TypeOK, TypeOK', NEW carried \in BOOLEAN, NoteAttachEnded(carried),
           UNCHANGED <<cloud, silence, upFor>>, cloud = "up" => Within(Afresh)
    PROVE  OnItsWay'
<1>1. pause' \in 0..2 /\ loop' = "waiting"
    BY EndedType
<1>2. pause' + PublishEvery \in Int /\ pause' + PublishEvery <= Afresh
    <2>1. \A a \in Int : 0 + a <= 2 + a /\ 1 + a <= 2 + a /\ 2 + a <= 2 + a
                         /\ 0 + a \in Int /\ 1 + a \in Int /\ 2 + a \in Int
        OBVIOUS
    <2>2. pause' = 0 \/ pause' = 1 \/ pause' = 2
        BY <1>1
    <2> QED BY <2>1, <2>2, BoundTypes DEF Afresh, MaxPause
<1>3. cloud = "up" => Within(pause + PublishEvery)'
    BY <1>2, HeldBounds, BoundTypes DEF Within
<1> QED BY <1>1, <1>3 DEF OnItsWay, Flowing

\* The cloud's return, like readings, makes every bound good again.
LEMMA ReturnOnItsWay ==
    ASSUME TypeOK, TypeOK', AttachKnows', Comfortably, silence' = 0 \/ upFor' = 0
    PROVE  OnItsWay'
<1>1. /\ silence' \in Int /\ upFor' \in Int /\ StaleAfter \in Int
      /\ PublishEvery \in Int /\ FrameSilence \in Int /\ ReadTimeout \in Int
      /\ SwitchRefresh \in Int /\ Afresh \in Int
      /\ 0 <= PublishEvery /\ 0 <= FrameSilence /\ 0 <= SwitchRefresh /\ 0 <= ReadTimeout
    BY BoundTypes, TimingAssumption DEF TypeOK, AgeCap
<1>2. /\ 0 <= owed' /\ owed' <= PublishEvery /\ 0 <= quiet' /\ 0 <= timer'
      /\ owed' \in Int /\ quiet' \in Int /\ timer' \in Int
    BY TimingAssumption DEF TypeOK
<1>3. pause' \in 0..2
    BY DEF TypeOK
<1>4. 0 <= Afresh /\ Afresh = 2 + PublishEvery
    <2>1. \A a \in Int : 0 <= a => 0 <= 2 + a
        OBVIOUS
    <2> QED BY <1>1, <2>1 DEF Afresh, MaxPause
<1>5. /\ \A n \in Int : n <= PublishEvery + (FrameSilence + Afresh) => Within(n)'
      /\ \A n \in Int : n <= PublishEvery + (ReadTimeout + Afresh) => Within(n)'
      /\ \A n \in Int : n <= PublishEvery + (SwitchRefresh + PublishEvery) => Within(n)'
    BY <1>1, ComfortableStart DEF Within
<1>6. Within(pause + PublishEvery)' /\ Within(PublishEvery)'
    <2>1. \A a, b, c \in Int : 0 <= a /\ 0 <= b /\ 0 <= c =>
            /\ a <= a + (b + (2 + a))
            /\ 0 + a <= a + (b + (2 + a)) /\ 1 + a <= a + (b + (2 + a)) /\ 2 + a <= a + (b + (2 + a))
            /\ 0 + a \in Int /\ 1 + a \in Int /\ 2 + a \in Int
        OBVIOUS
    <2>2. pause' = 0 \/ pause' = 1 \/ pause' = 2
        BY <1>3
    <2>3. Within(PublishEvery)'
        BY <1>1, <1>4, <1>5, <2>1
    <2>4. pause' + PublishEvery \in Int /\ pause' + PublishEvery <= PublishEvery + (FrameSilence + Afresh)
        BY <1>1, <1>4, <2>1, <2>2
    <2>5. Within(pause + PublishEvery)'
        BY <1>5, <2>4
    <2> QED BY <2>3, <2>5
<1>7. Within(UntilWatchdog)' /\ Within(UntilTimeout)' /\ Within(UntilRefresh)'
    <2>1. \A f, q, w, p \in Int : 0 <= q /\ 0 <= p => (f - q) + w <= p + (f + w) /\ (f - q) + w \in Int
        OBVIOUS
    <2>2. UntilWatchdog' \in Int /\ UntilWatchdog' <= PublishEvery + (FrameSilence + Afresh)
        BY <1>1, <1>2, <2>1 DEF UntilWatchdog, Afresh
    <2>3. UntilTimeout' \in Int /\ UntilTimeout' <= PublishEvery + (ReadTimeout + Afresh)
        BY <1>1, <1>2, <2>1 DEF UntilTimeout, Afresh
    <2>4. UntilRefresh' \in Int /\ UntilRefresh' <= PublishEvery + (SwitchRefresh + PublishEvery)
        BY <1>1, <1>2, <2>1 DEF UntilRefresh
    <2> QED BY <1>5, <2>2, <2>3, <2>4
<1>8. /\ Within(UntilFrame)'
      /\ Within(UntilFrame + (FrameSilence + Afresh))'
      /\ Within(UntilFrame + (ReadTimeout + Afresh))'
      /\ Within(UntilFrame + (SwitchRefresh + PublishEvery))'
    <2>1. \A p, o, d \in Int : 0 <= o => (p - o) + d <= p + d /\ (p - o) + d \in Int
        OBVIOUS
    <2>2. \A p, o, d \in Int : 0 <= o /\ 0 <= d => p - o <= p + d /\ p - o \in Int
        OBVIOUS
    <2>3. FrameSilence + Afresh \in Int /\ 0 <= FrameSilence + Afresh
          /\ ReadTimeout + Afresh \in Int /\ SwitchRefresh + PublishEvery \in Int
        BY <1>1, <1>4
    <2>4. Within(UntilFrame)'
        <3>1. UntilFrame' \in Int /\ UntilFrame' <= PublishEvery + (FrameSilence + Afresh)
            BY <1>1, <1>2, <2>2, <2>3 DEF UntilFrame
        <3> QED BY <1>5, <3>1
    <2>5. Within(UntilFrame + (FrameSilence + Afresh))'
        <3>1. UntilFrame' + (FrameSilence + Afresh) \in Int
              /\ UntilFrame' + (FrameSilence + Afresh) <= PublishEvery + (FrameSilence + Afresh)
            BY <1>1, <1>2, <2>1, <2>3 DEF UntilFrame
        <3> QED BY <1>5, <3>1 DEF Afresh
    <2>6. Within(UntilFrame + (ReadTimeout + Afresh))'
        <3>1. UntilFrame' + (ReadTimeout + Afresh) \in Int
              /\ UntilFrame' + (ReadTimeout + Afresh) <= PublishEvery + (ReadTimeout + Afresh)
            BY <1>1, <1>2, <2>1, <2>3 DEF UntilFrame
        <3> QED BY <1>5, <3>1 DEF Afresh
    <2>7. Within(UntilFrame + (SwitchRefresh + PublishEvery))'
        <3>1. UntilFrame' + (SwitchRefresh + PublishEvery) \in Int
              /\ UntilFrame' + (SwitchRefresh + PublishEvery) <= PublishEvery + (SwitchRefresh + PublishEvery)
            BY <1>1, <1>2, <2>1, <2>3 DEF UntilFrame
        <3> QED BY <1>5, <3>1
    <2> QED BY <2>4, <2>5, <2>6, <2>7
<1> QED
    BY <1>6, <1>7, <1>8 DEF OnItsWay

\* An attach that the watchdog, the read timeout or a drop ends.
LEMMA StreamEndsOnItsWay ==
    ASSUME TypeOK, TypeOK', IInv, Watchdog \/ ReadTimesOut \/ (Listening /\ heardFrame /\ StreamEnds)
    PROVE  OnItsWay'
<1> USE DEF IInv
<1>1. StreamEnds /\ loop = "streaming"
    BY DEF Watchdog, ReadTimesOut, Listening
<1>2. /\ UNCHANGED <<cloud, silence, upFor>> /\ delivered \in BOOLEAN
      /\ NoteAttachEnded(delivered)
    BY <1>1 DEF StreamEnds, external, history, TypeOK
<1>3. Afresh \in Int /\ quiet \in Int /\ FrameSilence \in Int /\ ReadTimeout \in Int
      /\ UntilFrame \in Int /\ silence \in Int /\ upFor \in Int /\ StaleAfter \in Int
      /\ 0 <= UntilFrame /\ 0 <= FrameSilence
    <2>1. \A a, b \in Int : b <= a => 0 <= a - b
        OBVIOUS
    <2>2. owed \in Int /\ owed <= PublishEvery
        BY TimingAssumption DEF TypeOK
    <2> QED BY BoundTypes, TimingAssumption, <2>1, <2>2 DEF UntilFrame
<1>4. \A m \in Int : Afresh <= m /\ Within(m) => Within(Afresh)
    BY <1>3, Shrinks DEF Within
<1>5. \A w \in Int : (FrameSilence - FrameSilence) + w = w /\ (ReadTimeout - ReadTimeout) + w = w
    BY <1>3
<1>6. \A a, b, c \in Int : 0 <= a /\ 0 <= b => a + (b + c) \in Int /\ c <= a + (b + c)
    OBVIOUS
<1>7. Flowing /\ channel = "served" /\ heardFrame => (cloud = "up" => Within(Afresh))
    BY <1>3, <1>4, <1>6 DEF OnItsWay
<1>8. CASE Watchdog
    <2>1. Flowing /\ quiet = FrameSilence /\ worker # "first"
        BY <1>8, TimingAssumption DEF Watchdog, Flowing, AttachKnows, TypeOK
    <2>2. UntilWatchdog = Afresh
        BY <2>1, <1>3, <1>5 DEF UntilWatchdog
    <2>3. FrameSilence - quiet <= UntilFrame
        <3>1. FrameSilence - FrameSilence = 0
            BY <1>3
        <3> QED BY <2>1, <1>3, <3>1
    <2>4. cloud = "up" => Within(Afresh)
        BY <2>1, <2>2, <2>3, <1>7 DEF OnItsWay, TypeOK
    <2> QED BY <1>2, <2>4, EndedOnItsWay
<1>9. CASE ReadTimesOut
    <2>1. socket = "dead" /\ quiet = ReadTimeout
        BY <1>9, TimingAssumption DEF ReadTimesOut, AttachKnows, TypeOK
    <2>2. UntilTimeout = Afresh
        BY <2>1, <1>3, <1>5 DEF UntilTimeout
    <2>3. cloud = "up" => Within(Afresh)
        BY <1>1, <2>1, <2>2 DEF OnItsWay
    <2> QED BY <1>2, <2>3, EndedOnItsWay
<1>10. CASE Listening /\ heardFrame
    <2>1. Flowing /\ channel = "served"
        BY <1>10 DEF Listening, Flowing, AttachKnows
    <2> QED BY <1>2, <1>7, <1>10, <2>1, EndedOnItsWay
<1> QED BY <1>8, <1>9, <1>10

\* A mishap that leaves the attach standing costs what it was allowed to.
LEMMA MishapOnItsWay ==
    ASSUME TypeOK, TypeOK', IInv, NEW what \in Mishaps, Mishap(what), what # "drop"
    PROVE  OnItsWay'
<1> USE DEF IInv
<1>1. /\ Flowing /\ channel = "served" /\ heardFrame
      /\ UNCHANGED <<cloud, silence, upFor, loop, worker, timer>>
    BY DEF Mishap, Listening, Flowing, AttachKnows, thread, refresh, history
<1>2. cloud = "up" =>
        /\ Within(UntilFrame + (FrameSilence + Afresh))
        /\ Within(UntilFrame + (ReadTimeout + Afresh))
        /\ Within(UntilFrame + (SwitchRefresh + PublishEvery))
    BY <1>1 DEF OnItsWay
<1>3. /\ FrameSilence + Afresh \in Int /\ ReadTimeout + Afresh \in Int
      /\ SwitchRefresh + PublishEvery \in Int /\ UntilFrame \in Int
      /\ \A d \in Int : UntilFrame + d \in Int /\ d <= UntilFrame + d
    BY BoundTypes, BoundsOrdered, TimingAssumption
<1>4. \A m, n \in Int : n <= m /\ Within(m) => silence' + n < StaleAfter \/ upFor' + n < StaleAfter
    BY <1>1, HeldBounds
<1>5. CASE what = "die"
    <2>1. socket' = "dead" /\ quiet' = 0
        BY <1>5 DEF Mishap
    <2>2. UntilTimeout' \in Int /\ UntilTimeout' <= ReadTimeout + Afresh
        <3>1. \A r, w \in Int : (r - 0) + w = r + w
            OBVIOUS
        <3> QED BY <2>1, <3>1, <1>3, BoundTypes, TimingAssumption DEF UntilTimeout, Afresh
    <2>3. UntilTimeout' <= UntilFrame + (ReadTimeout + Afresh)
        <3>1. \A a, b, c \in Int : a <= b /\ b <= c => a <= c
            OBVIOUS
        <3> QED BY <2>2, <3>1, <1>3
    <2>4. cloud = "up" => Within(UntilTimeout)'
        BY <2>2, <2>3, <1>2, <1>3, <1>4 DEF Within
    <2> QED BY <1>1, <2>1, <2>4 DEF OnItsWay, Flowing
<1>6. CASE what # "die"
    <2>1. /\ channel' \in {"lapsed", "wedged"} /\ UNCHANGED <<socket, quiet>> /\ worker # "first"
        BY <1>1, <1>6 DEF Mishap, Flowing, AttachKnows, thread
    <2>2. /\ UntilWatchdog' = UntilWatchdog /\ UntilRefresh' = UntilRefresh
          /\ UntilWatchdog \in Int /\ UntilRefresh \in Int
          /\ UntilWatchdog <= FrameSilence + Afresh /\ UntilRefresh <= SwitchRefresh + PublishEvery
        BY <1>1, <2>1, BoundTypes, BoundsOrdered DEF UntilWatchdog, UntilRefresh
    <2>3. UntilWatchdog <= UntilFrame + (FrameSilence + Afresh)
          /\ UntilRefresh <= UntilFrame + (SwitchRefresh + PublishEvery)
        <3>1. \A a, b, c \in Int : a <= b /\ b <= c => a <= c
            OBVIOUS
        <3> QED BY <2>2, <3>1, <1>3
    <2>4. cloud = "up" => Within(UntilWatchdog)' /\ Within(UntilRefresh)'
        BY <2>2, <2>3, <1>2, <1>3, <1>4 DEF Within
    <2> QED BY <1>1, <2>1, <2>4 DEF OnItsWay, Flowing
<1> QED BY <1>5, <1>6

\* A refresh that is done has the channel served a reading's wait later, and a command
\* only brings the next one forward.
LEMMA RefreshOnItsWay ==
    ASSUME TypeOK, TypeOK', IInv, Comfortably, FirstRefresh \/ Refresh \/ Command
    PROVE  OnItsWay'
<1> USE DEF IInv
<1>1. UNCHANGED <<cloud, socket, owed, loop, pause, quiet, topology, heardFrame, silence, upFor>>
    BY DEF FirstRefresh, Refresh, Command, external, thread, history
<1>2. UNCHANGED <<UntilWatchdog, UntilTimeout, UntilFrame>>
    BY <1>1 DEF UntilWatchdog, UntilTimeout, UntilFrame
<1>3. /\ PublishEvery \in Int /\ UntilRefresh \in Int /\ UntilRefresh' \in Int
      /\ UntilFrame \in Int /\ PublishEvery <= UntilRefresh /\ UntilFrame <= PublishEvery
      /\ Afresh \in Int /\ UntilWatchdog \in Int
    <2>1. timer' \in Int
        BY TimingAssumption DEF TypeOK
    <2> QED BY <2>1, BoundTypes, BoundsOrdered, TimingAssumption DEF UntilRefresh
<1>4. \A m, n \in Int : n <= m /\ Within(m) => silence' + n < StaleAfter \/ upFor' + n < StaleAfter
    BY <1>1, HeldBounds
<1>5. owed = 0 => UntilFrame = PublishEvery
    <2>1. \A a \in Int : a - 0 = a
        OBVIOUS
    <2> QED BY <1>3, <2>1 DEF UntilFrame
<1>6. cloud = "up" /\ loop = "streaming" => Subscribed
    BY DEF AttachKnows, Subscribed
\* What neither the worker nor its timer has a part in.
<1>7. ASSUME cloud = "up"
      PROVE  /\ loop = "waiting" => Within(pause + PublishEvery)'
             /\ loop = "attaching" => Within(PublishEvery)'
             /\ loop = "streaming" /\ socket = "dead" => Within(UntilTimeout)'
    BY <1>1, <1>2, <1>7 DEF OnItsWay, Within
<1>8. CASE ~Flowing
    BY <1>1, <1>7, <1>8 DEF OnItsWay, Flowing
<1>9. CASE Flowing /\ FirstRefresh
    <2>1. /\ worker = "first" /\ channel = "unheard" /\ ~heardFrame /\ quiet = 0 /\ owed = 0
        BY <1>9 DEF FirstRefresh, Flowing, AttachKnows
    <2>2. cloud = "up" => channel' = "served" /\ worker' # "first"
        BY <1>6, <1>9, <2>1 DEF FirstRefresh, Flowing, Renewed
    <2>3. cloud = "up" => Within(UntilFrame)'
        BY <1>1, <1>2, <1>3, <1>5, <1>9, <2>1 DEF OnItsWay, Within
    <2>4. ~(FrameSilence - quiet <= UntilFrame)
        <3>1. \A f, p \in Int : p < f => ~(f - 0 <= p)
            OBVIOUS
        <3> QED BY <1>5, <2>1, <3>1, TimingAssumption DEF Comfortably
    <2> QED BY <1>1, <1>2, <1>9, <2>1, <2>2, <2>3, <2>4 DEF OnItsWay, Flowing
<1>10. CASE Flowing /\ Refresh
    <2>1. worker = "refreshing" /\ worker' = "refreshing"
        BY <1>10 DEF Refresh
    <2>2. CASE channel \in {"unheard", "lapsed"}
        <3>1. ~heardFrame /\ owed = 0
            BY <1>10, <2>2 DEF AttachKnows, Flowing
        <3>2. cloud = "up" => channel' = "served"
            BY <1>6, <1>10, <2>2 DEF Refresh, Flowing, Renewed
        <3>3. cloud = "up" => Within(UntilWatchdog) /\ Within(UntilRefresh)
            BY <1>10, <2>1, <2>2 DEF OnItsWay
        <3>4. cloud = "up" => Within(UntilFrame)'
            BY <1>2, <1>3, <1>4, <1>5, <3>1, <3>3 DEF Within
        <3>5. cloud = "up" => Within(UntilWatchdog)'
            BY <1>1, <1>2, <3>3 DEF Within
        <3> QED BY <1>1, <1>10, <2>1, <3>1, <3>2, <3>4, <3>5 DEF OnItsWay, Flowing
    <2>3. CASE channel \notin {"unheard", "lapsed"}
        <3>1. channel' = channel
            BY <1>10, <2>3 DEF Refresh, Renewed
        <3> QED BY <1>1, <1>2, <1>10, <2>1, <2>3, <3>1 DEF OnItsWay, Flowing, Within
    <2> QED BY <2>2, <2>3
<1>11. CASE Flowing /\ Command
    <2>1. UNCHANGED <<channel, worker>>
        BY <1>11 DEF Command, external
    <2>2. UntilRefresh' <= UntilRefresh
        <3>1. CASE worker = "refreshing"
            <4>1. \A a, b \in Int : (a - a) + b = b
                OBVIOUS
            <4>2. timer' = SwitchRefresh
                BY <1>11, <3>1 DEF Command
            <4>3. UntilRefresh' = PublishEvery
                BY <4>1, <4>2, TimingAssumption DEF UntilRefresh
            <4> QED BY <4>3, <1>3
        <3>2. CASE worker # "refreshing"
            <4>1. UntilRefresh' = UntilRefresh
                BY <1>11, <3>2 DEF Command, UntilRefresh
            <4> QED BY <4>1, <1>3
        <3> QED BY <3>1, <3>2
    <2>3. Within(UntilRefresh) => Within(UntilRefresh)'
        BY <1>3, <1>4, <2>2 DEF Within
    <2> QED BY <1>1, <1>2, <1>11, <2>1, <2>3 DEF OnItsWay, Flowing, Within
<1> QED BY <1>8, <1>9, <1>10, <1>11

LEMMA OnItsWayStep ==
    ASSUME TypeOK, IInv, Comfortably, [Next]_vars
    PROVE  OnItsWay'
<1>1. TypeOK' /\ AttachKnows'
    BY NextType, AttachKnowsStep DEF IInv
<1>2. CASE CheckStaleness \/ UNCHANGED vars
    BY <1>2 DEF CheckStaleness, vars, external, thread, refresh, history, IInv, OnItsWay,
        Flowing, Within, UntilWatchdog, UntilTimeout, UntilRefresh, UntilFrame
<1>3. CASE Attach
    <2>1. cloud = "up" => Within(PublishEvery)'
        BY <1>3 DEF Attach, IInv, OnItsWay, Within
    <2> QED BY <1>3, <2>1 DEF Attach, OnItsWay, Flowing
<1>4. CASE AttachFails
    BY <1>4 DEF AttachFails, external, OnItsWay
<1>5. CASE Watchdog \/ ReadTimesOut
    BY <1>1, <1>5, StreamEndsOnItsWay
<1>6. CASE Reconnect
    <2>1. cloud = "up" => Within(0 + PublishEvery)
        BY <1>6 DEF Reconnect, IInv, OnItsWay
    <2>2. 0 + PublishEvery = PublishEvery
        BY TimingAssumption
    <2>3. UNCHANGED <<cloud, silence, upFor>> /\ loop' = "attaching"
        BY <1>6 DEF Reconnect, external, history
    <2> QED BY <2>1, <2>2, <2>3 DEF OnItsWay, Flowing, Within
<1>7. CASE Frame \/ CloudChanges
    BY <1>1, <1>7, ReturnOnItsWay DEF Frame, CloudChanges
<1>8. CASE LeanFrame
    <2>1. /\ Flowing /\ channel = "served"
          /\ UNCHANGED <<cloud, socket, channel, owed, loop, worker, timer, heardFrame, silence, upFor>>
        BY <1>8 DEF LeanFrame, Publishing, Listening, Flowing, external, refresh, history
    <2>2. worker # "first"
        BY <2>1 DEF IInv, AttachKnows, Flowing
    <2>3. quiet' = 0 /\ UntilFrame' = UntilFrame
        BY <1>8, <2>1 DEF LeanFrame, UntilFrame
    <2>4. ~(FrameSilence - 0 <= UntilFrame)
        <3>1. \A f, p, u \in Int : p < f /\ u <= p => ~(f - 0 <= u)
            OBVIOUS
        <3> QED BY <3>1, BoundTypes, BoundsOrdered, TimingAssumption DEF Comfortably
    <2> QED BY <2>1, <2>2, <2>3, <2>4 DEF IInv, OnItsWay, Flowing, Within
<1>9. CASE FirstRefresh \/ Refresh \/ Command
    BY <1>1, <1>9, RefreshOnItsWay
<1>10. ASSUME NEW what \in Mishaps, Mishap(what)
       PROVE  OnItsWay'
    <2>1. CASE what = "drop"
        BY <1>1, <1>10, <2>1, StreamEndsOnItsWay DEF Mishap
    <2>2. CASE what # "drop"
        BY <1>1, <1>10, <2>2, MishapOnItsWay
    <2> QED BY <2>1, <2>2
<1>11. CASE Tick
    BY <1>11, TickOnItsWay
<1> QED
    BY <1>2, <1>3, <1>4, <1>5, <1>6, <1>7, <1>8, <1>9, <1>10, <1>11 DEF Next, Thread

\* An ordinary reattach does not blink every entity: with the watchdog, the read
\* timeout and the refresh comfortably within StaleAfter, a cloud that has been up for
\* StaleAfter ticks has had readings within them, whatever mishap, backoff, command or
\* outage came before, and however they fell.
THEOREM NoBlink == Comfortably /\ Spec => []ReattachDoesNotBlink
<1> SUFFICES ASSUME Comfortably
             PROVE  Spec => []ReattachDoesNotBlink
    OBVIOUS
<1>1. Init => IInv
    <2> SUFFICES ASSUME Init
                 PROVE  IInv
        OBVIOUS
    <2>1. AttachKnows
        BY DEF Init, AttachKnows
    <2>2. Within(PublishEvery)
        <3>1. PublishEvery <= PublishEvery + (SwitchRefresh + PublishEvery)
              /\ PublishEvery \in Int
            BY TimingAssumption
        <3> QED BY <3>1, ComfortableStart DEF Within, Init
    <2> QED BY <2>1, <2>2 DEF Init, IInv, OnItsWay, Flowing
<1>2. TypeOK /\ IInv /\ [Next]_vars => IInv'
    BY AttachKnowsStep, OnItsWayStep DEF IInv
<1>3. TypeOK /\ IInv => ReattachDoesNotBlink
    <2> SUFFICES ASSUME TypeOK, IInv, cloud = "up"
                 PROVE  \E n \in Int : 0 <= n /\ Within(n)
        <3>1. \A s, u, a, n \in Int : 0 <= n /\ (s + n < a \/ u + n < a) => s < a \/ ~(u >= a)
            OBVIOUS
        <3> QED BY <3>1, BoundTypes DEF Within, ReattachDoesNotBlink
    <2>1. /\ pause + PublishEvery \in Int /\ PublishEvery \in Int /\ UntilWatchdog \in Int
          /\ UntilTimeout \in Int /\ UntilFrame \in Int /\ Afresh \in Int
          /\ 0 <= PublishEvery /\ 0 <= pause + PublishEvery /\ 0 <= UntilFrame
          /\ 0 <= Afresh
        <3>1. \A a, b \in Int : (0 <= a /\ 0 <= b => 0 <= a + b) /\ (b <= a => 0 <= a - b)
            OBVIOUS
        <3>2. 0 <= pause /\ 0 <= PublishEvery /\ owed <= PublishEvery /\ 0 <= MaxPause
              /\ MaxPause \in Int
            BY TimingAssumption DEF TypeOK, MaxPause
        <3> QED BY <3>1, <3>2, BoundTypes, BoundsOrdered DEF UntilFrame, Afresh
    <2>2. \A a, b, w \in Int : b <= a /\ 0 <= w => 0 <= (a - b) + w
        OBVIOUS
    <2>3. loop = "streaming" /\ socket = "dead" => 0 <= UntilTimeout
        BY <2>1, <2>2, BoundTypes, TimingAssumption DEF IInv, AttachKnows, UntilTimeout
    <2>4. Flowing => 0 <= UntilWatchdog
        BY <2>1, <2>2, BoundTypes, TimingAssumption DEF IInv, AttachKnows, UntilWatchdog, Flowing
    <2>5. 0 <= UntilFrame + (FrameSilence + Afresh) /\ UntilFrame + (FrameSilence + Afresh) \in Int
        <3>1. \A a, b, c \in Int : 0 <= a /\ 0 <= b /\ 0 <= c => 0 <= a + (b + c) /\ a + (b + c) \in Int
            OBVIOUS
        <3> QED BY <2>1, <3>1, TimingAssumption
    <2>6. Flowing \/ (loop = "streaming" /\ socket = "dead") \/ loop \in {"waiting", "attaching"}
        BY DEF Flowing, TypeOK
    <2>7. CASE Flowing
        BY <2>1, <2>4, <2>5, <2>7 DEF IInv, OnItsWay, TypeOK
    <2>8. CASE ~Flowing
        BY <2>1, <2>3, <2>6, <2>8 DEF IInv, OnItsWay
    <2> QED BY <2>7, <2>8
<1> QED
    BY <1>1, <1>2, <1>3, StreamTyped, PTL DEF Spec

=============================================================================
