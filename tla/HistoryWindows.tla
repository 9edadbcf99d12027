--------------------------- MODULE HistoryWindows ---------------------------
(***************************************************************************)
(* span_client/cloud_history.py: which windows one energy poll asks SPAN   *)
(* for, and how SPAN cuts a window into buckets.                           *)
(*                                                                         *)
(* Times are whole ticks of a clock chosen by the configuration.  Every    *)
(* duration of the source is a constant, so that a run may keep the ratios *)
(* of the code (a tick of five minutes) or scale them down.                *)
(***************************************************************************)
EXTENDS Integers

CONSTANTS
    Quarter,      \* LIVE_RESOLUTION's bucket, 15 minutes
    Hour,         \* BACKFILL_RESOLUTION's bucket
    LiveWindow,   \* LIVE_WINDOW_SECONDS, 2 h 5 min
    MinWindow,    \* MIN_WINDOW_SECONDS of the hourly resolution, 2 h
    MaxBackfill   \* MAX_BACKFILL_SECONDS, 7 days

ASSUME ResolutionAssumption ==
    /\ Quarter \in Nat \ {0}
    /\ Hour \in Nat \ {0}

ASSUME WindowAssumption ==
    /\ LiveWindow \in Nat
    /\ MinWindow \in Nat
    /\ MaxBackfill \in Nat

\* A request to SPAN: buckets of length step over [start, end).
Windows == [step : {Quarter, Hour}, start : Int, end : Int]

\* Round a window start down to a bucket boundary.
align_start(t, step) == t - (t % step)

\* The start of the live window of a poll made at time t.
LiveStart(t) == align_start(t - LiveWindow, Quarter)

LiveWindowAt(t) == [step |-> Quarter, start |-> LiveStart(t), end |-> t]

\* The hourly pass over the gap between the cursor and the live window.
BackfillAt(t, covered) ==
    LET oldest  == IF covered > t - MaxBackfill THEN covered ELSE t - MaxBackfill
        aligned == align_start(oldest, Hour)
        least   == LiveStart(t) - MinWindow
    IN  [step  |-> Hour,
         start |-> IF aligned < least THEN aligned ELSE least,
         end   |-> LiveStart(t)]

\* Which requests to make.  The code lists them coarsest first; here they are a
\* set, and CoarsestFirst below says in which order a poll takes them.
plan_windows(t, covered) ==
    {LiveWindowAt(t)} \cup
    (IF 0 < covered /\ covered < LiveStart(t) THEN {BackfillAt(t, covered)} ELSE {})

CoarsestFirst(w, plan) == \A other \in plan : other.step <= w.step

\* SPAN cuts a window into buckets from its start, and the bucket that is open at
\* the window's end is reported with its full bounds.
BucketStarts(w) == {s \in w.start .. (w.end - 1) : (s - w.start) % w.step = 0}
=============================================================================
