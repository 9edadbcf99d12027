--------------------------- MODULE OverheadEnergy ---------------------------
(***************************************************************************)
(* The panel's overhead and the energy integrated from it: panel_overhead, *)
(* EnergyAccumulator and SpanPanelOverheadEnergySensor, fed one reading at *)
(* a time by the stream thread through the coordinator's buffer.           *)
(*                                                                         *)
(* The schema is fixed: one main feed and the branch circuits.  A frame    *)
(* reports power for all of them under one stamp.  Power is counted in     *)
(* whole units and a total is twice the area under it, which keeps the     *)
(* trapezoids whole.                                                       *)
(***************************************************************************)
EXTENDS Integers, FiniteSets, Functions

CONSTANTS
    Branches,    \* branch circuits
    Feed,        \* the main feed
    Powers,      \* what a meter may read
    MostOverhead,\* what the meters can make of the overhead at most
    MaxGap,      \* max_gap_seconds
    MaxStamp,    \* bound: stamps of frames are in 1..MaxStamp
    MaxRestarts  \* bound: reloads and crashes

ASSUME OverheadAssumption ==
    /\ Feed \notin Branches
    /\ Powers \subseteq Int
    /\ MostOverhead \in Nat
    /\ MaxGap \in Nat
    /\ MaxStamp \in Nat
    /\ MaxRestarts \in Nat

VARIABLES
    frame,     \* the frame last received: its stamp and powers
    emitting,  \* keys of it the stream thread has still to pass on
    buffer,    \* readings waiting for a flush
    data,      \* coordinator.data
    total,     \* total_kwh
    base,      \* the total this load was restored with (history)
    last,      \* _last_power_w and _last_timestamp
    saved,     \* the total Home Assistant would restore
    stamps,    \* stamps of the frames of this load (history)
    restarts

feedpath == <<frame, emitting, buffer>>
meter    == <<total, last>>
history  == <<base, stamps>>
vars     == <<feedpath, data, meter, saved, history, restarts>>

Keys == Branches \cup {Feed}

\* A reading, or the baseline: none yet has stamp 0.
Readings == [power : Int, stamp : 0..MaxStamp]
None == [power |-> 0, stamp |-> 0]
Nothing == [k \in Keys |-> None]

-----------------------------------------------------------------------------
Init ==
    /\ frame = [stamp |-> 0, power |-> [k \in Keys |-> 0]]
    /\ emitting = {}
    /\ buffer = Nothing /\ data = Nothing
    /\ total = 0 /\ base = 0 /\ saved = 0
    /\ last = None
    /\ stamps = {}
    /\ restarts = 0

(* The stream thread *)

\* A frame; stamps may repeat or go back.
FrameArrives ==
    /\ emitting = {}
    /\ \E stamp \in 1..MaxStamp, power \in [Keys -> Powers] :
         /\ frame' = [stamp |-> stamp, power |-> power]
         /\ stamps' = stamps \cup {stamp}
    /\ emitting' = Keys
    /\ UNCHANGED <<buffer, data, meter, saved, base, restarts>>

\* _on_reading, for one reading of the frame.
EmitReading(k) ==
    /\ k \in emitting
    /\ emitting' = emitting \ {k}
    /\ buffer' = [buffer EXCEPT ![k] = [power |-> frame.power[k], stamp |-> frame.stamp]]
    /\ UNCHANGED <<frame, data, meter, saved, history, restarts>>

(* The event loop *)

\* panel_overhead, of readings that are all there.
Reported(readings) == \A k \in Keys : readings[k].stamp > 0

\* The power each reading tells.
Watts(readings) == [k \in Keys |-> readings[k].power]

BranchSum(power) == SumFunctionOnSet(power, Branches)

\* Mutant: no floor at zero.
UnflooredOverhead(power) == power[Feed] - BranchSum(power)

panel_overhead(power) ==
    LET rest == power[Feed] - BranchSum(power)
    IN  IF rest > 0 THEN rest ELSE 0

ASSUME MostAssumption ==
    \A power \in [Keys -> Powers] :
        BranchSum(power) \in Int /\ panel_overhead(power) <= MostOverhead

\* Mutant: a gap is bridged.
AddAcrossGaps(sample) ==
    IF last.stamp > 0 /\ sample.stamp <= last.stamp
    THEN UNCHANGED meter
    ELSE /\ last' = sample
         /\ total' = IF last.stamp > 0
                     THEN total + (last.power + sample.power) * (sample.stamp - last.stamp)
                     ELSE total

\* Mutant: an old stamp is folded in like any other.
AddAnyStamp(sample) ==
    /\ last' = sample
    /\ total' = IF last.stamp > 0 /\ sample.stamp - last.stamp <= MaxGap
                THEN total + (last.power + sample.power) * (sample.stamp - last.stamp)
                ELSE total

\* EnergyAccumulator.add
add(sample) ==
    IF last.stamp > 0 /\ sample.stamp <= last.stamp
    THEN UNCHANGED meter
    ELSE /\ last' = sample
         /\ total' = IF last.stamp > 0 /\ sample.stamp - last.stamp <= MaxGap
                     THEN total + (last.power + sample.power) * (sample.stamp - last.stamp)
                     ELSE total

\* _handle_coordinator_update: the main feed's stamp stands for the figure's.
Update(readings) ==
    IF Reported(readings)
    THEN add([power |-> panel_overhead(Watts(readings)), stamp |-> readings[Feed].stamp])
    ELSE UNCHANGED meter

\* _flush
Flush ==
    /\ buffer # Nothing
    /\ data' = [k \in Keys |-> IF buffer[k] = None THEN data[k] ELSE buffer[k]]
    /\ buffer' = Nothing
    /\ Update(data')
    /\ UNCHANGED <<frame, emitting, saved, history, restarts>>

\* The coordinator wakes its entities for another reason.
Wake ==
    /\ data # Nothing
    /\ Update(data)
    /\ UNCHANGED <<feedpath, data, saved, history, restarts>>

\* Home Assistant saves the states it would restore now and then.
SaveStates ==
    /\ saved' = total
    /\ UNCHANGED <<feedpath, data, meter, history, restarts>>

\* A new load, after an unload that saved the total or a crash that did not: the
\* entity takes its total up before it listens to the coordinator.
Restart(graceful) ==
    /\ restarts < MaxRestarts
    /\ restarts' = restarts + 1
    /\ frame' = [stamp |-> 0, power |-> [k \in Keys |-> 0]]
    /\ emitting' = {}
    /\ buffer' = Nothing /\ data' = Nothing
    /\ last' = None
    /\ total' = IF graceful THEN total ELSE saved
    /\ base' = total' /\ saved' = total'
    /\ stamps' = {}

-----------------------------------------------------------------------------
Next ==
    \/ FrameArrives
    \/ \E k \in Keys : EmitReading(k)
    \/ Flush
    \/ Wake
    \/ SaveStates
    \/ \E graceful \in BOOLEAN : Restart(graceful)

Spec == Init /\ [][Next]_vars

-----------------------------------------------------------------------------
(* Properties *)

TypeOK ==
    /\ frame \in [stamp : 0..MaxStamp, power : [Keys -> Int]]
    /\ emitting \subseteq Keys
    /\ {buffer, data} \subseteq [Keys -> Readings]
    /\ {total, base, saved} \subseteq Nat
    /\ last \in Readings /\ last.power \in Nat
    /\ stamps \subseteq 1..MaxStamp
    /\ restarts \in 0..MaxRestarts

\* The time between two frames of this load that are no gap apart.
Bridgeable ==
    {t \in 1..MaxStamp : \E a, b \in stamps : a <= t /\ t < b /\ b - a <= MaxGap}

\* "Gaps longer than max_gap_seconds are not bridged" (EnergyAccumulator), and time
\* is integrated once: no matter how frames, flushes and wake-ups fall, this load
\* has booked no more than full overhead over the time the stream was alive.
NoFabrication == total - base <= 2 * MostOverhead * Cardinality(Bridgeable)

\* A total_increasing sensor must not go down while the process lives.
NeverDecreases == [][restarts' = restarts => total' >= total]_vars
=============================================================================
