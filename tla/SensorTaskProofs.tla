-------------------------- MODULE SensorTaskProofs --------------------------
(***************************************************************************)
(* Theorems of SensorTask, for every FIFO depth and all durations.         *)
(***************************************************************************)
EXTENDS SensorTask, SequenceTheorems, TLAPS

(***************************************************************************)
(* A FIFO of measurements that does not overflow and in which an entry has *)
(* not waited longer than its place allows.                                *)
(***************************************************************************)
Fifo(q) == q \in Seq(Measurement) /\ Len(q) <= Depth /\ Aging(q)

LEMMA EmptyFifo == Fifo(<<>>)
  BY EmptySeq, DurationsAssumption DEF DurationsAssumption, Fifo, Aging

(***************************************************************************)
(* A pulse keeps it: the new entry is the youngest and comes last, or is   *)
(* dropped.                                                                *)
(***************************************************************************)
LEMMA PushKeepsFifo ==
  ASSUME NEW q, Fifo(q), NEW output \in Outputs, NEW clear \in BOOLEAN
  PROVE  Fifo(Push(q, Pulse(output, clear)))
<1> DEFINE m == Pulse(output, clear)
           a == Append(q, m)
<1>1. CASE ~(Len(q) < Depth)
  BY <1>1 DEF Push
<1>2. CASE Len(q) < Depth
  <2>1. m \in Measurement /\ m.age = 0
    BY DurationsAssumption DEF DurationsAssumption, Pulse, Measurement
  <2>2. q \in Seq(Measurement) /\ Len(q) \in Nat
    BY LenProperties DEF Fifo
  <2>3. /\ a \in Seq(Measurement) /\ Len(a) = Len(q) + 1
        /\ \A i \in 1 .. Len(q) : a[i] = q[i]
        /\ a[Len(q) + 1] = m
    BY <2>1, <2>2
  <2>4. \A i \in 1 .. Len(a) : a[i].age + i <= Depth
    <3> SUFFICES ASSUME NEW i \in 1 .. Len(a) PROVE a[i].age + i <= Depth
      OBVIOUS
    <3>1. CASE i = Len(q) + 1
      BY <1>2, <2>1, <2>2, <2>3, <3>1, DurationsAssumption DEF DurationsAssumption
    <3>2. CASE i \in 1 .. Len(q)
      BY <2>3, <3>2 DEF Fifo, Aging
    <3> QED BY <2>2, <2>3, <3>1, <3>2
  <2>5. Push(q, m) = a
    BY <1>2 DEF Push
  <2> HIDE DEF m, a
  <2>6. Fifo(a)
    BY <1>2, <2>2, <2>3, <2>4, DurationsAssumption DEF DurationsAssumption, Fifo, Aging
  <2> QED BY <2>5, <2>6 DEF m
<1> QED BY <1>1, <1>2

(***************************************************************************)
(* A read keeps it: every entry that stays is one read older and one place *)
(* nearer the front.                                                       *)
(***************************************************************************)
LEMMA RestKeepsFifo ==
  ASSUME NEW q, Fifo(q), q # <<>>
  PROVE  Fifo(Rest(q)) /\ q[1] \in Measurement
<1>1. /\ q \in Seq(Measurement) /\ Len(q) \in Nat \ {0} /\ q \in [1 .. Len(q) -> Measurement]
  BY LenProperties, EmptySeq DEF Fifo
<1> DEFINE n == Len(q) - 1
<1>2. n \in Nat
  BY <1>1
<1>3. ASSUME NEW i \in 1 .. n
      PROVE  /\ Older(q[i + 1]) \in Measurement
             /\ Older(q[i + 1]).age = q[i + 1].age + 1
             /\ q[i + 1].age \in Nat /\ q[i + 1].age + (i + 1) <= Depth
  <2>1. i + 1 \in 1 .. Len(q)
    BY <1>1, <1>2
  <2>2. q[i + 1] \in Measurement /\ q[i + 1].age + (i + 1) <= Depth
    BY <1>1, <2>1 DEF Fifo, Aging
  <2>3. q[i + 1].age + 1 \in 0 .. Depth - 1
    BY <2>2, <1>2, DurationsAssumption DEF DurationsAssumption, Measurement
  <2> QED BY <2>2, <2>3 DEF Older, Measurement
<1>4. Rest(q) \in [1 .. n -> Measurement]
  BY <1>3 DEF Rest
<1>5. Rest(q) \in Seq(Measurement)
  BY <1>2, <1>4, SeqDef
<1>6. Len(Rest(q)) = n
  BY <1>2, <1>4, <1>5, LenProperties
<1>7. \A i \in 1 .. n : Rest(q)[i].age + i <= Depth
  <2> SUFFICES ASSUME NEW i \in 1 .. n PROVE Rest(q)[i].age + i <= Depth
    OBVIOUS
  <2>1. Rest(q)[i] = Older(q[i + 1])
    BY DEF Rest
  <2> QED BY <1>2, <1>3, <2>1
<1>8. q[1] \in Measurement
  BY <1>1
<1>9. Len(Rest(q)) <= Depth
  BY <1>1, <1>6, DurationsAssumption DEF DurationsAssumption, Fifo
<1> QED
  BY <1>5, <1>6, <1>7, <1>8, <1>9 DEF Fifo, Aging

-----------------------------------------------------------------------------
(***************************************************************************)
(* The inductive invariant: the FIFOs as above, SEL as the reads need it,  *)
(* and what is left of the cycle's time at each place.                     *)
(***************************************************************************)
Spent ==
  /\ pc = "power" => elapsed + timer <= Timeout
  /\ pc = "current" => elapsed + timer <= 2 * Timeout
  /\ pc = "settle" => elapsed + timer <= 2 * Timeout + Settle
  /\ pc = "voltage" => elapsed + timer <= 3 * Timeout + Settle
  /\ pc = "sleep" => elapsed + timer <= WorstCycle

FifosOK == Fifo(cf) /\ Fifo(cf1)

ScalarsOK ==
  /\ sel \in BOOLEAN /\ load \in BOOLEAN
  /\ pc \in {"power", "current", "settle", "voltage", "sleep"}
  /\ timer \in Nat /\ elapsed \in Nat

ReadingsOK == taken \in [Outputs -> Reading] /\ data \in [Outputs -> Reading]

SensorInv == FifosOK /\ ScalarsOK /\ ReadingsOK /\ SelMatchesRead /\ Spent

LEMMA InitSensor == Init => SensorInv
<1> SUFFICES ASSUME Init PROVE SensorInv
  OBVIOUS
<1> USE DurationsAssumption DEF DurationsAssumption, Init
<1>1. FifosOK
  BY EmptyFifo DEF FifosOK
<1>2. ScalarsOK /\ SelMatchesRead /\ Spent
  <2>1. sel \in BOOLEAN /\ SelMatchesRead
    BY Zenon DEF SelMatchesRead
  <2>2. timer \in Nat /\ elapsed \in Nat /\ Spent
    BY DEF Spent
  <2> QED BY <2>1, <2>2 DEF ScalarsOK
<1>3. ReadingsOK
  BY DEF ReadingsOK, NoReadings, Reading
<1> QED BY <1>1, <1>2, <1>3 DEF SensorInv

(***************************************************************************)
(* One read: the FIFO it took from, or nothing, and the reading.           *)
(***************************************************************************)
LEMMA ReadKeeps ==
  ASSUME NEW q, NEW r, Fifo(q), ReadingsOK, NEW output \in Outputs,
         \/ q # <<>> /\ Take(output, q) /\ r = Rest(q)
         \/ q = <<>> /\ TimesOut(output) /\ r = q
  PROVE  Fifo(r) /\ taken' \in [Outputs -> Reading]
<1>1. CASE q # <<>> /\ Take(output, q) /\ r = Rest(q)
  <2>1. Fifo(r) /\ q[1] \in Measurement
    BY <1>1, RestKeepsFifo
  <2>2. Value(q[1]) \in Reading
    BY <2>1 DEF Value, Reading
  <2> QED BY <1>1, <2>1, <2>2 DEF Take, ReadingsOK
<1>2. CASE q = <<>> /\ TimesOut(output) /\ r = q
  BY <1>2 DEF TimesOut, ReadingsOK, Reading
<1> QED BY <1>1, <1>2

LEMMA NextSensor == SensorInv /\ [Next]_vars => SensorInv'
<1> SUFFICES ASSUME SensorInv, [Next]_vars PROVE SensorInv'
  OBVIOUS
<1> USE DurationsAssumption DEF DurationsAssumption, SensorInv
<1>1. CASE LoadChanges
  BY <1>1 DEF LoadChanges, FifosOK, ScalarsOK, ReadingsOK, SelMatchesRead, Spent
<1>2. CASE PulseOnCF
  <2>1. FifosOK'
    BY <1>2, PushKeepsFifo DEF PulseOnCF, FifosOK, Outputs
  <2> QED
    BY <1>2, <2>1 DEF PulseOnCF, ScalarsOK, ReadingsOK, SelMatchesRead, Spent
<1>3. CASE PulseOnCF1
  <2>1. PICK clear \in BOOLEAN :
          cf1' = Push(cf1, Pulse(IF sel THEN "voltage" ELSE "current", clear))
    BY <1>3 DEF PulseOnCF1
  <2>2. FifosOK'
    BY <1>3, <2>1, PushKeepsFifo DEF PulseOnCF1, FifosOK, Outputs
  <2> QED
    BY <1>3, <2>2 DEF PulseOnCF1, ScalarsOK, ReadingsOK, SelMatchesRead, Spent
<1>4. CASE ReadPower
  <2>1. Fifo(cf') /\ taken' \in [Outputs -> Reading]
    BY <1>4, ReadKeeps DEF ReadPower, FifosOK, Outputs
  <2>2. FifosOK' /\ ReadingsOK'
    BY <1>4, <2>1 DEF ReadPower, FifosOK, ReadingsOK
  <2>3. ScalarsOK' /\ SelMatchesRead' /\ Spent'
    BY <1>4 DEF ReadPower, Wait, ScalarsOK, SelMatchesRead, Spent
  <2> QED BY <2>2, <2>3
<1>5. CASE ReadCurrent
  <2>1. Fifo(cf1') /\ taken' \in [Outputs -> Reading]
    BY <1>5, ReadKeeps DEF ReadCurrent, FifosOK, Outputs
  <2>2. FifosOK' /\ ReadingsOK'
    BY <1>5, <2>1 DEF ReadCurrent, FifosOK, ReadingsOK
  <2>3. ScalarsOK' /\ SelMatchesRead' /\ Spent'
    BY <1>5 DEF ReadCurrent, Wait, ScalarsOK, SelMatchesRead, Spent
  <2> QED BY <2>2, <2>3
<1>6. CASE Settles
  BY <1>6 DEF Settles, Wait, FifosOK, ScalarsOK, ReadingsOK, SelMatchesRead, Spent
<1>7. CASE ReadVoltage
  <2>1. Fifo(cf1') /\ taken' \in [Outputs -> Reading]
    BY <1>7, ReadKeeps DEF ReadVoltage, FifosOK, Outputs
  <2>2. FifosOK' /\ ReadingsOK'
    BY <1>7, <2>1 DEF ReadVoltage, FifosOK, ReadingsOK
  <2>3. sel' \in BOOLEAN /\ SelMatchesRead'
    <3>1. sel' = FALSE /\ pc' = "sleep"
      BY <1>7 DEF ReadVoltage, SelRestored, Wait
    <3> QED BY <3>1, Zenon DEF SelMatchesRead
  <2>4. Spent'
    BY <1>7 DEF ReadVoltage, Wait, WorstCycle, ScalarsOK, Spent
  <2>5. ScalarsOK'
    BY <1>7, <2>3 DEF ReadVoltage, Wait, ScalarsOK
  <2> QED BY <2>2, <2>3, <2>4, <2>5
<1>8. CASE Wakes
  <2>1. ReadingsOK'
    BY <1>8 DEF Wakes, ReadingsOK, NoReadings, Reading
  <2> QED
    BY <1>8, <2>1 DEF Wakes, Wait, FifosOK, ScalarsOK, SelMatchesRead, Spent
<1>9. CASE Tick
  BY <1>9 DEF Tick, FifosOK, ScalarsOK, ReadingsOK, SelMatchesRead, Spent
<1>10. CASE UNCHANGED vars
  BY <1>10 DEF vars, FifosOK, ScalarsOK, ReadingsOK, SelMatchesRead, Spent
<1> QED
  BY <1>1, <1>2, <1>3, <1>4, <1>5, <1>6, <1>7, <1>8, <1>9, <1>10 DEF Next, Task

LEMMA SensorHolds == Safety => []SensorInv
  BY InitSensor, NextSensor, PTL DEF Safety

(***************************************************************************)
(* The types of SensorTask, in every behaviour.                            *)
(***************************************************************************)
THEOREM TypesHold == Safety => []TypeOK
<1>1. SensorInv => TypeOK
  BY DEF SensorInv, FifosOK, Fifo, ScalarsOK, ReadingsOK, TypeOK
<1> QED BY <1>1, SensorHolds, PTL

(***************************************************************************)
(* A published reading was at most Depth - 1 reads behind, whatever the    *)
(* pulses do.                                                              *)
(***************************************************************************)
THEOREM ReadingsAreRecent == Safety => []StalenessIsBounded
<1>1. SensorInv => StalenessIsBounded
  <2> SUFFICES ASSUME SensorInv PROVE StalenessIsBounded
    OBVIOUS
  <2>1. \A o \in Outputs : data[o] # Zero => data[o].age < Depth
    BY DurationsAssumption
    DEF DurationsAssumption, SensorInv, ReadingsOK, Reading, Measurement
  <2> QED
    BY <2>1 DEF SensorInv, FifosOK, Fifo, StalenessIsBounded
<1> QED BY <1>1, SensorHolds, PTL

(***************************************************************************)
(* SEL is where the read that is under way needs it.                       *)
(***************************************************************************)
THEOREM SelIsRight == Safety => []SelMatchesRead
  BY SensorHolds, PTL DEF SensorInv

(***************************************************************************)
(* No cycle is longer than three timeouts, the settling and the pause.     *)
(***************************************************************************)
THEOREM CycleEnds == Safety => []CycleIsBounded
<1>1. SensorInv => CycleIsBounded
  BY DurationsAssumption
  DEF DurationsAssumption, SensorInv, ScalarsOK, Spent, CycleIsBounded, WorstCycle
<1> QED BY <1>1, SensorHolds, PTL
=============================================================================
