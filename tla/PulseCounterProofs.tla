------------------------- MODULE PulseCounterProofs -------------------------
(***************************************************************************)
(* Theorems of PulseCounter, for every width of the counter, threshold and *)
(* pause between pulses of at least six clocks. Neither property is        *)
(* inductive: they speak of what was pushed, so the invariant must say at  *)
(* every instruction how far the pulse and the pause after it have got.    *)
(***************************************************************************)
EXTENDS PulseCounter, TLAPS

(***************************************************************************)
(* Where the program can be while the pin is low: it reaches its last      *)
(* instruction within five clocks of the end of a pulse. What it has told  *)
(* follows from where it is.                                               *)
(***************************************************************************)
KeepsUp ==
  /\ pin = 0 =>
             /\ pc \in {"mov_x", "count_dec"} => low = 0
             /\ pc = "count_loop" => low <= 1
             /\ pc = "jmp_done" => low <= 2
             /\ pc = "count_done" => low <= 3
             /\ pc = "push" => low <= 4
  /\ pc = "jmp_done" => pin = 0
  /\ told = IF pc = "wait_0" \/ (pc = "wait_1" /\ pin = 0) THEN 1 ELSE 0

(***************************************************************************)
(* How long the pulse is when `n` is what X was counted down to: two       *)
(* clocks for each round, or the counter has overflowed.                   *)
(***************************************************************************)
Counted(n) == pin = 0 /\ 2 * (MaxX - n) + 1 <= high /\ high <= 2 * (MaxX - n) + 2

Overflowed(n) == n = MaxX /\ high >= 2 * MaxX + 3

Measures ==
  start = "seen" =>
    /\ pc = "wait_1" /\ pin = 1 => high = 0
    /\ pc = "mov_x" => high = 1
    /\ pc = "count_loop" => high + (IF pin = 1 THEN 0 ELSE low) = 2 * (MaxX - x) + 2
    /\ pc = "count_dec" => high = 2 * (MaxX - x) + 3
    /\ pc = "jmp_done" => Counted(x)
    /\ pc = "count_done" => Counted(x) \/ Overflowed(x)
    /\ pc = "push" => Counted(isr) \/ Overflowed(isr)
    /\ pc = "wait_0" /\ pin = 1 => Overflowed(isr)

PulseInv == TypeOK /\ KeepsUp /\ Measures /\ ReadsThePulse

(***************************************************************************)
(* What read_value makes of a count.                                       *)
(***************************************************************************)
LEMMA ValueIsReading ==
  ASSUME NEW n \in 0 .. MaxX
  PROVE  /\ Value(n) \in Nat \cup {Zero}
         /\ Value(n) = Zero => MaxX - n = 0 \/ MaxX - n > Slowest
         /\ Value(n) # Zero => Value(n) = MaxX - n /\ MaxX - n \in 1 .. Slowest
  BY CounterAssumption, ZeroAssumption
  DEF CounterAssumption, ZeroAssumption, Value, Elapsed

LEMMA InitPulse == Init => PulseInv
  BY CounterAssumption, LevelsAssumption
  DEF CounterAssumption, LevelsAssumption, Init, PulseInv, TypeOK, KeepsUp, Measures,
      ReadsThePulse

-----------------------------------------------------------------------------
(***************************************************************************)
(* Types and positions are kept by every clock.                            *)
(***************************************************************************)
LEMMA NextKeepsUp ==
  ASSUME TypeOK, KeepsUp, Next
  PROVE  TypeOK' /\ KeepsUp'
<1> USE CounterAssumption, LevelsAssumption
    DEF CounterAssumption, LevelsAssumption, TypeOK, KeepsUp, Told,
        StaysHigh, Falls, StaysLow, Rises
<1>0. StaysHigh \/ Falls \/ StaysLow \/ Rises
  BY DEF Next
<1>1. CASE Wait1 BY <1>0, <1>1 DEF Wait1
<1>2. CASE MovX BY <1>0, <1>2 DEF MovX
<1>3. CASE JmpPin BY <1>0, <1>3 DEF JmpPin
<1>4. CASE JmpDone BY <1>0, <1>4 DEF JmpDone
<1>5. CASE JmpX BY <1>0, <1>5 DEF JmpX
<1>6. CASE MovIsr BY <1>0, <1>6 DEF MovIsr
<1>7. CASE Push
  <2>1. Value(isr) \in Nat \cup {Zero}
    BY ValueIsReading
  <2> QED BY <1>0, <1>7, <2>1 DEF Push
<1>8. CASE Wait0 BY <1>0, <1>8 DEF Wait0
<1> QED
  BY <1>1, <1>2, <1>3, <1>4, <1>5, <1>6, <1>7, <1>8 DEF Next, Instruction

(***************************************************************************)
(* So is the count, and the reading made of it.                            *)
(***************************************************************************)
LEMMA NextMeasures ==
  ASSUME PulseInv, Next, TypeOK', KeepsUp'
  PROVE  Measures' /\ ReadsThePulse'
<1> USE CounterAssumption, LevelsAssumption
    DEF CounterAssumption, LevelsAssumption, PulseInv, TypeOK, KeepsUp, Measures,
        Counted, Overflowed, ReadsThePulse, Told, StaysHigh, Falls, StaysLow, Rises
<1>0. StaysHigh \/ Falls \/ StaysLow \/ Rises
  BY DEF Next
<1>1. CASE Wait1 BY <1>0, <1>1 DEF Wait1
<1>2. CASE MovX
  <2>1. CASE StaysHigh BY <1>2, <2>1 DEF MovX
  <2>2. CASE Falls BY <1>2, <2>2 DEF MovX
  <2>3. CASE StaysLow BY <1>2, <2>3 DEF MovX
  <2>4. CASE Rises BY <1>2, <2>4 DEF MovX
  <2> QED BY <1>0, <2>1, <2>2, <2>3, <2>4
<1>3. CASE JmpPin BY <1>0, <1>3 DEF JmpPin
<1>4. CASE JmpDone BY <1>0, <1>4 DEF JmpDone
<1>5. CASE JmpX
  <2>1. CASE StaysHigh BY <1>5, <2>1 DEF JmpX
  <2>2. CASE Falls BY <1>5, <2>2 DEF JmpX
  <2>3. CASE StaysLow BY <1>5, <2>3 DEF JmpX
  <2>4. CASE Rises BY <1>5, <2>4 DEF JmpX
  <2> QED BY <1>0, <2>1, <2>2, <2>3, <2>4
<1>6. CASE MovIsr BY <1>0, <1>6 DEF MovIsr
<1>7. CASE Push
  <2>1. /\ reading' = Zero => MaxX - isr = 0 \/ MaxX - isr > Slowest
        /\ reading' # Zero => reading' = MaxX - isr /\ MaxX - isr \in 1 .. Slowest
    BY <1>7, ValueIsReading DEF Push
  <2>2. isr \in 0 .. MaxX /\ isr' = isr /\ pc = "push" /\ pc' = "wait_0"
    BY <1>7 DEF Push
  <2>3. ~Rises
    BY <2>2
  <2>4. UNCHANGED start /\ high' \in {high, high + 1} /\ (pin = 0 => pin' = 0 /\ high' = high)
    BY <1>0, <2>3
  <2>5. ASSUME start = "seen" PROVE Counted(isr) \/ Overflowed(isr)
    BY <2>2, <2>5
  <2>6. CASE start = "seen" /\ Counted(isr)
    <3>1. pin' = 0 /\ high' = high
      BY <2>4, <2>6
    <3>2. Measures'
      BY <2>2, <3>1
    <3>3. reading' = Zero => high' <= 2 \/ high' > 2 * Slowest
      BY <2>1, <2>2, <2>6, <3>1
    <3>4. reading' # Zero =>
            /\ reading' <= Slowest
            /\ 2 * reading' + 1 <= high' /\ high' <= 2 * reading' + 2
      BY <2>1, <2>2, <2>6, <3>1
    <3> QED BY <3>1, <3>2, <3>3, <3>4
  <2>7. CASE start = "seen" /\ Overflowed(isr)
    <3>1. Measures'
      BY <2>2, <2>4, <2>7
    <3>2. reading' = Zero /\ high' > 2 * Slowest
      BY <2>1, <2>2, <2>4, <2>7
    <3> QED BY <3>1, <3>2
  <2> QED BY <2>4, <2>5, <2>6, <2>7
<1>8. CASE Wait0
  <2>1. CASE StaysHigh BY <1>8, <2>1 DEF Wait0
  <2>2. CASE Falls BY <1>8, <2>2 DEF Wait0
  <2>3. CASE StaysLow BY <1>8, <2>3 DEF Wait0
  <2>4. CASE Rises BY <1>8, <2>4 DEF Wait0
  <2> QED BY <1>0, <2>1, <2>2, <2>3, <2>4
<1> QED
  BY <1>1, <1>2, <1>3, <1>4, <1>5, <1>6, <1>7, <1>8 DEF Next, Instruction

LEMMA NextPulse == PulseInv /\ [Next]_vars => PulseInv'
<1> SUFFICES ASSUME PulseInv, [Next]_vars PROVE PulseInv'
  OBVIOUS
<1>1. CASE Next
  BY <1>1, NextKeepsUp, NextMeasures DEF PulseInv
<1>2. CASE UNCHANGED vars
  BY <1>2 DEF vars, PulseInv, TypeOK, KeepsUp, Measures, Counted, Overflowed, ReadsThePulse
<1> QED
  BY <1>1, <1>2

LEMMA PulseHolds == Spec => []PulseInv
  BY InitPulse, NextPulse, PTL DEF Spec

(***************************************************************************)
(* The words stay words.                                                   *)
(***************************************************************************)
THEOREM TypesHold == Spec => []TypeOK
  BY PulseHolds, PTL DEF PulseInv

(***************************************************************************)
(* Every reading tells the length of its own pulse, or is a zero with a    *)
(* reason.                                                                 *)
(***************************************************************************)
THEOREM ReadingsAreTrue == Spec => []ReadsThePulse
  BY PulseHolds, PTL DEF PulseInv

(***************************************************************************)
(* Every pulse is told once.                                               *)
(***************************************************************************)
LEMMA StepTells ==
  ASSUME PulseInv, PulseInv', [Next]_vars
  PROVE  [ told' <= 1 /\ (pin = 0 /\ pin' = 1 => Told = 1) ]_vars
<1>1. told' <= 1
  BY DEF PulseInv, KeepsUp
<1>2. ASSUME pin = 0, pin' = 1 PROVE Told = 1
  <2>1. Rises
    BY <1>2 DEF Next, StaysHigh, Falls, StaysLow, vars
  <2>2. low + 1 >= MinLow /\ low \in Nat
    BY <2>1, LevelsAssumption DEF Rises, PulseInv, TypeOK, LevelsAssumption
  <2>3. pc \in {"wait_1", "wait_0"}
    BY <1>2, <2>2, LevelsAssumption DEF LevelsAssumption, PulseInv, TypeOK, KeepsUp
  <2> QED
    BY <1>2, <2>3 DEF PulseInv, KeepsUp, Told
<1> QED
  BY <1>1, <1>2

THEOREM PulsesAreToldOnce == Spec => OncePerPulse
<1>1. PulseInv /\ PulseInv' /\ [Next]_vars =>
        [ told' <= 1 /\ (pin = 0 /\ pin' = 1 => Told = 1) ]_vars
  BY StepTells
<1> QED
  BY <1>1, PulseHolds, PTL DEF Spec, OncePerPulse
=============================================================================
