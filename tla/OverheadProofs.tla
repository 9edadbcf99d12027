--------------------------- MODULE OverheadProofs ---------------------------
(***************************************************************************)
(* The overhead total never falls and books no time that was not live, for *)
(* every set of branches, every range of powers, every gap and any number  *)
(* of stamps and restarts.                                                 *)
(***************************************************************************)
EXTENDS OverheadEnergy, FiniteSetTheorems, TLAPS

\* What a frame of this load reported for a key, or nothing yet.
Received(reading) ==
    \/ reading = None
    \/ reading.stamp \in stamps /\ reading.power \in Powers

\* Every reading on its way, and the baseline, are of a frame of this load.
Sourced ==
    /\ emitting # {} => frame.stamp \in stamps /\ frame.power \in [Keys -> Powers]
    /\ \A k \in Keys : Received(buffer[k]) /\ Received(data[k])
    /\ last = None \/ last.stamp \in stamps
    /\ last.power <= MostOverhead

\* The time before t that may be bridged.
Before(t) == {u \in Bridgeable : u < t}

\* What is booked was lived through before the baseline.
Booked == total - base <= 2 * MostOverhead * Cardinality(Before(last.stamp))

IInv == TypeOK /\ Sourced /\ Booked

-----------------------------------------------------------------------------
(* Cardinalities of the bridgeable time *)

LEMMA BeforeIsFinite ==
    ASSUME NEW t
    PROVE  /\ IsFiniteSet(Bridgeable) /\ IsFiniteSet(Before(t))
           /\ Cardinality(Before(t)) \in Nat
           /\ Cardinality(Before(t)) <= Cardinality(Bridgeable)
           /\ Cardinality(Bridgeable) \in Nat
<1>1. IsFiniteSet(1..MaxStamp)
    BY FS_Interval, OverheadAssumption
<1>2. Bridgeable \in SUBSET (1..MaxStamp)
    BY DEF Bridgeable
<1>3. IsFiniteSet(Bridgeable)
    BY <1>1, <1>2, FS_Subset
<1>4. Before(t) \in SUBSET Bridgeable
    BY DEF Before
<1> QED BY <1>3, <1>4, FS_Subset, FS_CardinalityType

\* The time up to a later stamp contains what was bridgeable up to an earlier one,
\* and all that lies between the two when they are no gap apart.
LEMMA BeforeGrows ==
    ASSUME stamps \subseteq 1..MaxStamp,
           NEW s \in stamps \cup {0}, NEW t \in stamps, s < t
    PROVE  /\ Cardinality(Before(s)) <= Cardinality(Before(t))
           /\ s > 0 /\ t - s <= MaxGap
              => Cardinality(Before(s)) + (t - s) <= Cardinality(Before(t))
<1>1. s \in Nat /\ t \in 1..MaxStamp /\ MaxGap \in Nat /\ MaxStamp \in Nat
    BY OverheadAssumption
<1>2. Before(s) \in SUBSET Before(t)
    BY <1>1, OverheadAssumption DEF Before, Bridgeable
<1>3. IsFiniteSet(Before(t)) /\ IsFiniteSet(Before(s))
      /\ Cardinality(Before(s)) \in Nat /\ Cardinality(Before(t)) \in Nat
    BY BeforeIsFinite
<1>4. Cardinality(Before(s)) <= Cardinality(Before(t))
    BY <1>2, <1>3, FS_Subset
<1>5. ASSUME s > 0, t - s <= MaxGap
      PROVE  Cardinality(Before(s)) + (t - s) <= Cardinality(Before(t))
    <2>1. s \in stamps /\ s \in 1..MaxStamp
        BY <1>5
    <2>2. ASSUME NEW u \in s..(t - 1)
          PROVE  u \in Before(t)
        <3>1. u \in 1..MaxStamp /\ s <= u /\ u < t
            BY <1>1, <2>1, <2>2
        <3> QED BY <1>5, <2>1, <3>1 DEF Before, Bridgeable
    <2>3. (Before(s) \cup (s..(t - 1))) \in SUBSET Before(t)
        BY <1>2, <2>2
    <2>4. IsFiniteSet(s..(t - 1)) /\ Cardinality(s..(t - 1)) = t - s
        BY <1>1, <2>1, FS_Interval
    <2>5. Before(s) \cap (s..(t - 1)) = {}
        BY <1>1, <2>1 DEF Before, Bridgeable
    <2>6. Cardinality(Before(s) \cup (s..(t - 1)))
          = Cardinality(Before(s)) + Cardinality(s..(t - 1)) - Cardinality(Before(s) \cap (s..(t - 1)))
        BY <1>3, <2>4, FS_Union
    <2>7. Cardinality(Before(s) \cap (s..(t - 1))) = 0
        BY <2>5, FS_EmptySet
    <2>8. Cardinality(Before(s) \cup (s..(t - 1))) <= Cardinality(Before(t))
        BY <1>3, <2>3, FS_Subset
    <2> QED BY <1>1, <1>3, <2>4, <2>6, <2>7, <2>8
<1> QED BY <1>4, <1>5

\* A trapezoid between two figures of the panel is no higher than full overhead.
LEMMA TrapezoidIsBounded ==
    ASSUME NEW m \in Nat, NEW p \in 0..m, NEW q \in 0..m, NEW d \in Nat
    PROVE  (p + q) * d \in Nat /\ (p + q) * d <= 2 * m * d
<1>1. p + q \in 0..(2 * m)
    OBVIOUS
<1>2. ASSUME NEW a \in Nat, NEW b \in Nat, a <= b
      PROVE  a * d <= b * d /\ a * d \in Nat
    BY <1>2
<1> QED BY <1>1, <1>2

\* More time is more room.
LEMMA RoomGrows ==
    ASSUME NEW m \in Nat, NEW a \in Nat, NEW b \in Nat, a <= b
    PROVE  2 * m * a <= 2 * m * b
OBVIOUS

-----------------------------------------------------------------------------
(* The figure and what is added for it *)

LEMMA FigureIsBounded ==
    ASSUME NEW readings \in [Keys -> Readings],
           \A k \in Keys : Received(readings[k]), Reported(readings)
    PROVE  panel_overhead(Watts(readings)) \in 0..MostOverhead
<1>1. ASSUME NEW k \in Keys
      PROVE  readings[k].power \in Powers
    BY <1>1 DEF Received, Reported, None
<1>2. Watts(readings) \in [Keys -> Powers]
    BY <1>1 DEF Watts
<1>3. BranchSum(Watts(readings)) \in Int /\ panel_overhead(Watts(readings)) <= MostOverhead
    BY <1>2, MostAssumption
<1>4. Watts(readings)[Feed] \in Int
    BY <1>2, OverheadAssumption DEF Keys
<1> QED BY <1>3, <1>4, OverheadAssumption DEF panel_overhead

\* What a figure of this load does to the total.
LEMMA AddIsBooked ==
    ASSUME IInv, NEW sample \in [power : 0..MostOverhead, stamp : stamps],
           add(sample), UNCHANGED <<base, stamps>>
    PROVE  /\ total' \in Nat /\ total' >= total
           /\ last' \in Readings /\ last'.power \in 0..MostOverhead
           /\ last' = None \/ last'.stamp \in stamps
           /\ Booked'
<1> DEFINE s == last.stamp
           t == sample.stamp
           area == (last.power + sample.power) * (t - s)
<1>1. /\ total \in Nat /\ base \in Nat /\ MostOverhead \in Nat /\ MaxGap \in Nat /\ MaxStamp \in Nat
      /\ last \in Readings /\ last.power \in 0..MostOverhead /\ stamps \subseteq 1..MaxStamp
    BY OverheadAssumption DEF IInv, TypeOK, Sourced
<1>2. /\ s \in Nat /\ t \in 1..MaxStamp /\ t \in stamps /\ sample.power \in 0..MostOverhead
      /\ s > 0 => s \in stamps
      /\ sample \in Readings
    <2>1. s \in 0..MaxStamp /\ (last = None \/ s \in stamps)
        BY <1>1 DEF IInv, Sourced, Readings
    <2>2. s > 0 => s \in stamps
        BY <2>1 DEF None
    <2>3. sample.power \in 0..MostOverhead /\ t \in stamps
        OBVIOUS
    <2>4. sample = [power |-> sample.power, stamp |-> sample.stamp]
        OBVIOUS
    <2>5. sample.power \in Int /\ sample.stamp \in 0..MaxStamp
        <3>1. sample.power \in Int
            BY <2>3, OverheadAssumption
        <3>2. t \in 1..MaxStamp
            BY <1>1, <2>3
        <3> QED BY <3>1, <3>2, OverheadAssumption
    <2>6. sample \in Readings
        BY <2>4, <2>5 DEF Readings
    <2>7. s \in Nat
        BY <2>1, OverheadAssumption
    <2>8. t \in 1..MaxStamp
        BY <1>1, <2>3
    <2> QED BY <2>2, <2>3, <2>6, <2>7, <2>8
<1>3. \A u : Before(u)' = Before(u)
    BY DEF Before, Bridgeable
<1>4. Cardinality(Before(s)) \in Nat /\ Cardinality(Before(t)) \in Nat
    BY BeforeIsFinite
<1>5. total - base <= 2 * MostOverhead * Cardinality(Before(s))
    BY DEF IInv, Booked
<1>6. CASE s > 0 /\ t <= s
    <2>1. UNCHANGED meter
        BY <1>6 DEF add
    <2> QED BY <1>1, <1>3, <2>1 DEF meter, IInv, Booked, Sourced
<1>7. CASE ~(s > 0 /\ t <= s)
    <2>1. /\ last' = sample
          /\ total' = IF s > 0 /\ t - s <= MaxGap THEN total + area ELSE total
        BY <1>7 DEF add
    <2>2. s < t /\ s \in stamps \cup {0}
        BY <1>2, <1>7
    <2>3. Cardinality(Before(s)) <= Cardinality(Before(t))
          /\ (s > 0 /\ t - s <= MaxGap => Cardinality(Before(s)) + (t - s) <= Cardinality(Before(t)))
        BY <1>1, <1>2, <2>2, BeforeGrows
    <2>4. Booked' <=> total' - base <= 2 * MostOverhead * Cardinality(Before(t))
        BY <1>3, <2>1 DEF Booked
    <2>5. CASE s > 0 /\ t - s <= MaxGap
        <3>1. t - s \in Nat
            BY <1>2, <2>2
        <3>2. area \in Nat /\ area <= 2 * MostOverhead * (t - s)
            BY <1>1, <1>2, <3>1, TrapezoidIsBounded
        <3>3. 2 * MostOverhead * (Cardinality(Before(s)) + (t - s)) <= 2 * MostOverhead * Cardinality(Before(t))
            BY <1>1, <1>4, <2>3, <2>5, <3>1, RoomGrows
        <3>4. 2 * MostOverhead * (Cardinality(Before(s)) + (t - s))
              = 2 * MostOverhead * Cardinality(Before(s)) + 2 * MostOverhead * (t - s)
            BY <1>1, <1>4, <3>1
        <3>5. 2 * MostOverhead * Cardinality(Before(s)) \in Nat /\ 2 * MostOverhead * (t - s) \in Nat
              /\ 2 * MostOverhead * Cardinality(Before(t)) \in Nat
            BY <1>1, <1>4, <3>1
        <3>6. total' = total + area
            BY <2>1, <2>5
        <3>7. total' - base <= 2 * MostOverhead * Cardinality(Before(t))
            <4> HIDE DEF area, s, t
            <4> QED BY <1>1, <1>5, <3>2, <3>3, <3>4, <3>5, <3>6
        <3>8. total' \in Nat /\ total' >= total
            <4> HIDE DEF area
            <4> QED BY <1>1, <3>2, <3>6
        <3>9. Booked'
            BY <2>4, <3>7
        <3>10. last' = sample
            BY <2>1
        <3> QED BY <1>2, <3>8, <3>9, <3>10
    <2>6. CASE ~(s > 0 /\ t - s <= MaxGap)
        <3>1. 2 * MostOverhead * Cardinality(Before(s)) <= 2 * MostOverhead * Cardinality(Before(t))
            BY <1>1, <1>4, <2>3, RoomGrows
        <3>2. total' = total
            BY <2>1, <2>6
        <3>3. total - base <= 2 * MostOverhead * Cardinality(Before(t))
            <4>1. 2 * MostOverhead * Cardinality(Before(s)) \in Nat /\ 2 * MostOverhead * Cardinality(Before(t)) \in Nat
                BY <1>1, <1>4
            <4> QED BY <1>1, <1>5, <3>1, <4>1
        <3> QED BY <1>1, <1>2, <2>1, <2>4, <3>2, <3>3
    <2> QED BY <2>5, <2>6
<1> QED BY <1>6, <1>7

LEMMA UpdateIsBooked ==
    ASSUME IInv, NEW readings \in [Keys -> Readings],
           \A k \in Keys : Received(readings[k]),
           Update(readings), UNCHANGED <<base, stamps>>
    PROVE  /\ total' \in Nat /\ total' >= total
           /\ last' \in Readings /\ last'.power \in 0..MostOverhead
           /\ last' = None \/ last'.stamp \in stamps
           /\ Booked'
<1>1. CASE Reported(readings)
    <2> DEFINE sample == [power |-> panel_overhead(Watts(readings)), stamp |-> readings[Feed].stamp]
    <2>1. readings[Feed].stamp \in stamps
        BY <1>1 DEF Received, Reported, None, Keys
    <2>2. sample \in [power : 0..MostOverhead, stamp : stamps]
        BY <1>1, <2>1, FigureIsBounded
    <2>3. add(sample)
        BY <1>1 DEF Update
    <2> QED
        <3> HIDE DEF sample
        <3> QED BY <2>2, <2>3, AddIsBooked
<1>2. CASE ~Reported(readings)
    <2>1. UNCHANGED <<total, last>>
        BY <1>2 DEF Update, meter
    <2>2. \A u : Before(u)' = Before(u)
        BY DEF Before, Bridgeable
    <2> QED BY <2>1, <2>2, OverheadAssumption DEF IInv, TypeOK, Sourced, Booked
<1> QED BY <1>1, <1>2

-----------------------------------------------------------------------------
(* The invariant *)

LEMMA InitIInv == Init => IInv
<1> SUFFICES ASSUME Init PROVE IInv
    OBVIOUS
<1>1. TypeOK
    BY OverheadAssumption DEF Init, TypeOK, Nothing, None, Readings
<1>2. Sourced
    BY OverheadAssumption DEF Init, Sourced, Received, Nothing, None
<1>3. Booked
    <2>1. Cardinality(Before(last.stamp)) \in Nat
        BY BeforeIsFinite
    <2>2. 2 * MostOverhead * Cardinality(Before(last.stamp)) >= 0
        BY <2>1, OverheadAssumption
    <2> QED BY <2>2 DEF Init, Booked
<1> QED BY <1>1, <1>2, <1>3 DEF IInv

LEMMA NextIInv == IInv /\ [Next]_vars => IInv'
<1> SUFFICES ASSUME IInv, [Next]_vars PROVE IInv'
    OBVIOUS
<1> USE OverheadAssumption
<1>1. CASE FrameArrives
    <2>1. PICK stamp \in 1..MaxStamp, power \in [Keys -> Powers] :
              /\ frame' = [stamp |-> stamp, power |-> power]
              /\ stamps' = stamps \cup {stamp}
        BY <1>1 DEF FrameArrives
    <2>2. UNCHANGED <<buffer, data, total, last, saved, base, restarts>> /\ emitting' = Keys
        BY <1>1 DEF FrameArrives, meter
    <2>3. power \in [Keys -> Int]
        BY DEF Keys
    <2>4. TypeOK'
        BY <2>1, <2>2, <2>3 DEF IInv, TypeOK, Readings
    <2>5. Sourced'
        BY <2>1, <2>2 DEF IInv, Sourced, Received
    <2>6. Booked'
        <3>1. Before(last.stamp) \subseteq Before(last.stamp)'
            BY <2>1, <2>2 DEF Before, Bridgeable
        <3>2. Cardinality(Before(last.stamp)) \in Nat
            BY BeforeIsFinite
        <3>3. IsFiniteSet(Before(last.stamp)') /\ Cardinality(Before(last.stamp)') \in Nat
            <4>1. Before(last.stamp)' \in SUBSET (1..MaxStamp)
                BY DEF Before, Bridgeable
            <4>2. IsFiniteSet(1..MaxStamp)
                BY FS_Interval
            <4>3. IsFiniteSet(Before(last.stamp)')
                BY <4>1, <4>2, FS_Subset
            <4> QED BY <4>3, FS_CardinalityType
        <3>4. Cardinality(Before(last.stamp)) <= Cardinality(Before(last.stamp)')
            BY <3>1, <3>3, FS_Subset
        <3>5. 2 * MostOverhead * Cardinality(Before(last.stamp))
              <= 2 * MostOverhead * Cardinality(Before(last.stamp)')
            BY <3>2, <3>3, <3>4, RoomGrows
        <3>6. total \in Nat /\ base \in Nat
            BY DEF IInv, TypeOK
        <3>7. 2 * MostOverhead * Cardinality(Before(last.stamp)) \in Nat
              /\ 2 * MostOverhead * Cardinality(Before(last.stamp)') \in Nat
            BY <3>2, <3>3
        <3>8. total - base <= 2 * MostOverhead * Cardinality(Before(last.stamp))
            BY DEF IInv, Booked
        <3>9. total - base <= 2 * MostOverhead * Cardinality(Before(last.stamp)')
            BY <3>5, <3>6, <3>7, <3>8
        <3> QED BY <2>2, <3>9 DEF Booked
    <2> QED BY <2>4, <2>5, <2>6 DEF IInv
<1>2. ASSUME NEW k \in Keys, EmitReading(k)
      PROVE  IInv'
    <2>1. [power |-> frame.power[k], stamp |-> frame.stamp] \in Readings
        BY DEF IInv, TypeOK, Readings
    <2>2. TypeOK'
        BY <1>2, <2>1 DEF EmitReading, IInv, TypeOK, meter, history
    <2>3. Sourced'
        BY <1>2 DEF EmitReading, IInv, TypeOK, Sourced, Received, meter, history
    <2>4. \A u : Before(u)' = Before(u)
        BY <1>2 DEF Before, Bridgeable, EmitReading, history
    <2> QED BY <1>2, <2>2, <2>3, <2>4 DEF EmitReading, IInv, Booked, meter, history
<1>3. CASE Flush
    <2>1. UNCHANGED <<frame, emitting, saved, base, stamps, restarts>>
        BY <1>3 DEF Flush, history
    <2>2. buffer' = Nothing /\ data' = [k \in Keys |-> IF buffer[k] = None THEN data[k] ELSE buffer[k]]
          /\ Update(data')
        BY <1>3 DEF Flush
    <2>3. data' \in [Keys -> Readings] /\ buffer' \in [Keys -> Readings]
        BY <2>2 DEF IInv, TypeOK, Nothing, None, Readings
    <2>4. \A k \in Keys : Received(data'[k]) /\ Received(buffer'[k])
        BY <2>2 DEF IInv, Sourced, Received, Nothing
    <2>5. /\ total' \in Nat
          /\ last' \in Readings /\ last'.power \in 0..MostOverhead
          /\ last' = None \/ last'.stamp \in stamps
          /\ Booked'
        BY <2>1, <2>2, <2>3, <2>4, UpdateIsBooked
    <2>6. TypeOK'
        BY <2>1, <2>3, <2>5 DEF IInv, TypeOK
    <2>7. Sourced'
        BY <2>1, <2>4, <2>5 DEF IInv, Sourced, Received
    <2> QED BY <2>5, <2>6, <2>7 DEF IInv
<1>4. CASE Wake
    <2>1. UNCHANGED <<frame, emitting, buffer, data, saved, base, stamps, restarts>> /\ Update(data)
        BY <1>4 DEF Wake, feedpath, history
    <2>2. data \in [Keys -> Readings] /\ \A k \in Keys : Received(data[k])
        BY DEF IInv, TypeOK, Sourced
    <2>3. /\ total' \in Nat
          /\ last' \in Readings /\ last'.power \in 0..MostOverhead
          /\ last' = None \/ last'.stamp \in stamps
          /\ Booked'
        BY <2>1, <2>2, UpdateIsBooked
    <2>4. TypeOK'
        BY <2>1, <2>3 DEF IInv, TypeOK
    <2>5. Sourced'
        BY <2>1, <2>3 DEF IInv, Sourced, Received
    <2> QED BY <2>3, <2>4, <2>5 DEF IInv
<1>5. CASE SaveStates \/ UNCHANGED vars
    <2>1. UNCHANGED <<frame, emitting, buffer, data, total, last, base, stamps, restarts>>
          /\ saved' \in {saved, total}
        BY <1>5 DEF SaveStates, vars, feedpath, meter, history
    <2>2. TypeOK' /\ Sourced'
        BY <2>1 DEF IInv, TypeOK, Sourced, Received
    <2>3. \A u : Before(u)' = Before(u)
        BY <2>1 DEF Before, Bridgeable
    <2> QED BY <2>1, <2>2, <2>3 DEF IInv, Booked
<1>6. ASSUME NEW graceful \in BOOLEAN, Restart(graceful)
      PROVE  IInv'
    <2>1. TypeOK'
        BY <1>6 DEF Restart, IInv, TypeOK, Nothing, None, Readings
    <2>2. Sourced'
        BY <1>6 DEF Restart, Sourced, Received, Nothing, None
    <2>3. Booked'
        <3>1. IsFiniteSet(Before(last.stamp)') /\ Cardinality(Before(last.stamp)') \in Nat
            <4>1. Before(last.stamp)' \in SUBSET (1..MaxStamp)
                BY DEF Before, Bridgeable
            <4>2. IsFiniteSet(1..MaxStamp)
                BY FS_Interval
            <4>3. IsFiniteSet(Before(last.stamp)')
                BY <4>1, <4>2, FS_Subset
            <4> QED BY <4>3, FS_CardinalityType
        <3>2. 2 * MostOverhead * Cardinality(Before(last.stamp)') >= 0
            BY <3>1
        <3>3. total' - base' = 0
            BY <1>6, <2>1 DEF Restart, TypeOK
        <3> QED BY <3>2, <3>3 DEF Booked
    <2> QED BY <2>1, <2>2, <2>3 DEF IInv
<1> QED BY <1>1, <1>2, <1>3, <1>4, <1>5, <1>6 DEF Next

THEOREM OverheadInvariant == Spec => []IInv
<1> QED BY InitIInv, NextIInv, PTL DEF Spec

-----------------------------------------------------------------------------
(* What follows *)

\* The accumulator's state is well typed.
THEOREM OverheadTyped == Spec => []TypeOK
<1>1. IInv => TypeOK
    BY DEF IInv
<1> QED BY <1>1, OverheadInvariant, PTL

\* EnergyAccumulator.add books no more than full overhead over the time that frames
\* of this load bridge, however they are flushed.
THEOREM NothingFabricated == Spec => []NoFabrication
<1>1. IInv => NoFabrication
    <2> SUFFICES ASSUME IInv PROVE NoFabrication
        OBVIOUS
    <2> DEFINE room == Cardinality(Before(last.stamp))
    <2>1. room \in Nat /\ Cardinality(Bridgeable) \in Nat /\ room <= Cardinality(Bridgeable)
        BY BeforeIsFinite
    <2>2. 2 * MostOverhead * room <= 2 * MostOverhead * Cardinality(Bridgeable)
        BY <2>1, RoomGrows, OverheadAssumption
    <2>3. total - base <= 2 * MostOverhead * room /\ total \in Nat /\ base \in Nat
        BY DEF IInv, Booked, TypeOK
    <2>4. 2 * MostOverhead * room \in Nat /\ 2 * MostOverhead * Cardinality(Bridgeable) \in Nat
        BY <2>1, OverheadAssumption
    <2> QED BY <2>2, <2>3, <2>4 DEF NoFabrication
<1> QED BY <1>1, OverheadInvariant, PTL

\* The total_increasing sensor never goes down while the process lives.
THEOREM TotalNeverDecreases == Spec => NeverDecreases
<1>1. IInv /\ [Next]_vars => [restarts' = restarts => total' >= total]_vars
    <2> SUFFICES ASSUME IInv, Next, restarts' = restarts
                 PROVE  total' >= total
        BY DEF vars
    <2>1. total \in Nat
        BY DEF IInv, TypeOK
    <2>2. CASE FrameArrives \/ SaveStates \/ \E k \in Keys : EmitReading(k)
        BY <2>1, <2>2 DEF FrameArrives, SaveStates, EmitReading, meter
    <2>3. CASE Flush
        <3>1. data' = [k \in Keys |-> IF buffer[k] = None THEN data[k] ELSE buffer[k]]
              /\ Update(data') /\ UNCHANGED <<base, stamps>>
            BY <2>3 DEF Flush, history
        <3>2. data' \in [Keys -> Readings] /\ \A k \in Keys : Received(data'[k])
            BY <3>1 DEF IInv, TypeOK, Sourced
        <3> QED BY <3>1, <3>2, UpdateIsBooked
    <2>4. CASE Wake
        <3>1. Update(data) /\ UNCHANGED <<base, stamps>>
            BY <2>4 DEF Wake, history
        <3>2. data \in [Keys -> Readings] /\ \A k \in Keys : Received(data[k])
            BY DEF IInv, TypeOK, Sourced
        <3> QED BY <3>1, <3>2, UpdateIsBooked
    <2>5. ASSUME NEW graceful \in BOOLEAN, Restart(graceful)
          PROVE  FALSE
        BY <2>5 DEF Restart, IInv, TypeOK
    <2> QED BY <2>2, <2>3, <2>4, <2>5 DEF Next
<1> QED BY <1>1, OverheadInvariant, PTL DEF Spec, NeverDecreases

=============================================================================
