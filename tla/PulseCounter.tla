---------------------------- MODULE PulseCounter ----------------------------
(***************************************************************************)
(* One pulse from the HLW8012 to a reading: the PIO program that measures  *)
(* how long a pin is high, and read_value, which turns what it pushes into *)
(* a reading (application/src/hlw8012.rs).                                 *)
(*                                                                         *)
(* A step is one clock of the state machine, in which it executes one      *)
(* instruction on the level of the pin in that clock; the level of the     *)
(* next clock is the outside world's choice. A pulse may be as short as    *)
(* one clock, but between two pulses the pin is low for MinLow clocks. The *)
(* FIFO between the program and read_value is in SensorTask.tla.           *)
(*                                                                         *)
(* A reading is named by the half-period it was computed from, in rounds   *)
(* of the counting loop; the multipliers and the rounding of f32 are left  *)
(* out.                                                                    *)
(***************************************************************************)
EXTENDS Naturals

CONSTANTS
  MaxX,      \* what X counts down from, 2^32 - 1
  Slowest,   \* rounds of a pulse at MIN_FREQ_HZ
  MinLow,    \* clocks the pin is low between two pulses, at least
  MaxHigh,   \* bound: clocks of a pulse
  Zero       \* a reading of 0.0

ASSUME CounterAssumption ==
  MaxX \in Nat /\ Slowest \in Nat /\ Slowest < MaxX
ASSUME LevelsAssumption ==
  MinLow \in Nat /\ MinLow >= 6 /\ MaxHigh \in Nat \ {0}
ASSUME ZeroAssumption == Zero \notin Nat

VARIABLES
  pc,        \* the instruction of this clock
  x,         \* the scratch register X
  isr,       \* the input shift register
  pin,       \* the level of the pin in this clock
  reading,   \* what read_value makes of the last push
  high,      \* clocks the pulse has lasted, or did last when the pin is low
  low,       \* clocks the pin has been low, counted up to MinLow
  told,      \* history: pushes since the last pulse began
  start      \* history: whether the program was running when that pulse began

vars == <<pc, x, isr, pin, reading, high, low, told, start>>

-----------------------------------------------------------------------------
(***************************************************************************)
(* read_value. A count of zero is what an overflow leaves behind.          *)
(***************************************************************************)
ElapsedByNegation(raw) == MaxX + 1 - raw

Elapsed(raw) == MaxX - raw

Value(raw) ==
  IF Elapsed(raw) = 0 \/ Elapsed(raw) > Slowest THEN Zero ELSE Elapsed(raw)

-----------------------------------------------------------------------------
(***************************************************************************)
(* The state machine is enabled at some moment, perhaps amid a pulse.      *)
(***************************************************************************)
Init ==
  /\ pc = "wait_1"
  /\ x = 0 /\ isr = 0
  /\ pin \in {0, 1}
  /\ reading = Zero
  /\ IF pin = 1 THEN high \in 0 .. MaxHigh - 1 ELSE high = 0
  /\ low = IF pin = 1 THEN 0 ELSE MinLow
  /\ told = IF pin = 1 THEN 0 ELSE 1
  /\ start = "missed"

(***************************************************************************)
(* The instructions. `wait` stays where it is until the level is there.    *)
(***************************************************************************)
Wait1 ==
  /\ pc = "wait_1"
  /\ pc' = IF pin = 1 THEN "mov_x" ELSE "wait_1"
  /\ UNCHANGED <<x, isr, reading>>

MovX ==
  /\ pc = "mov_x"
  /\ x' = MaxX
  /\ pc' = "count_loop"
  /\ UNCHANGED <<isr, reading>>

JmpPin ==
  /\ pc = "count_loop"
  /\ pc' = IF pin = 1 THEN "count_dec" ELSE "jmp_done"
  /\ UNCHANGED <<x, isr, reading>>

JmpDone ==
  /\ pc = "jmp_done"
  /\ pc' = "count_done"
  /\ UNCHANGED <<x, isr, reading>>

(***************************************************************************)
(* `jmp x--` decrements in any case, modulo 2^32, and jumps if X was not   *)
(* zero before.                                                            *)
(***************************************************************************)
JmpXAlways ==
  /\ pc = "count_dec"
  /\ x' = (x + MaxX) % (MaxX + 1)
  /\ pc' = "count_loop"
  /\ UNCHANGED <<isr, reading>>

JmpXUnwrapped ==
  /\ pc = "count_dec"
  /\ x' = IF x = 0 THEN MaxX + 1 ELSE x - 1
  /\ pc' = IF x = 0 THEN "count_done" ELSE "count_loop"
  /\ UNCHANGED <<isr, reading>>

JmpX ==
  /\ pc = "count_dec"
  /\ x' = IF x = 0 THEN MaxX ELSE x - 1
  /\ pc' = IF x = 0 THEN "count_done" ELSE "count_loop"
  /\ UNCHANGED <<isr, reading>>

MovIsr ==
  /\ pc = "count_done"
  /\ isr' = x
  /\ pc' = "push"
  /\ UNCHANGED <<x, reading>>

Push ==
  /\ pc = "push"
  /\ reading' = Value(isr)
  /\ pc' = "wait_0"
  /\ UNCHANGED <<x, isr>>

Wait0Skipped ==
  /\ pc = "wait_0"
  /\ pc' = "wait_1"
  /\ UNCHANGED <<x, isr, reading>>

Wait0 ==
  /\ pc = "wait_0"
  /\ pc' = IF pin = 1 THEN "wait_0" ELSE "wait_1"
  /\ UNCHANGED <<x, isr, reading>>

Instruction ==
  Wait1 \/ MovX \/ JmpPin \/ JmpDone \/ JmpX \/ MovIsr \/ Push \/ Wait0

(***************************************************************************)
(* What the pin does from this clock to the next.                          *)
(***************************************************************************)
Told == IF pc = "push" THEN told + 1 ELSE told

StaysHigh ==
  /\ pin = 1 /\ high + 1 < MaxHigh
  /\ high' = high + 1
  /\ told' = Told
  /\ UNCHANGED <<pin, low, start>>

Falls ==
  /\ pin = 1
  /\ pin' = 0
  /\ high' = high + 1
  /\ low' = 0
  /\ told' = Told
  /\ UNCHANGED start

StaysLow ==
  /\ pin = 0
  /\ low' = IF low < MinLow THEN low + 1 ELSE low
  /\ told' = Told
  /\ UNCHANGED <<pin, high, start>>

Rises ==
  /\ pin = 0 /\ low + 1 >= MinLow
  /\ pin' = 1
  /\ high' = 0 /\ low' = 0
  /\ told' = 0
  /\ start' = "seen"

Next == Instruction /\ (StaysHigh \/ Falls \/ StaysLow \/ Rises)

Spec == Init /\ [][Next]_vars

-----------------------------------------------------------------------------
(***************************************************************************)
(* Types: X and ISR are words.                                             *)
(***************************************************************************)
TypeOK ==
  /\ pc \in {"wait_1", "mov_x", "count_loop", "jmp_done", "count_dec",
             "count_done", "push", "wait_0"}
  /\ x \in 0 .. MaxX /\ isr \in 0 .. MaxX
  /\ pin \in {0, 1} /\ start \in {"missed", "seen"}
  /\ reading \in Nat \cup {Zero}
  /\ high \in Nat /\ low \in 0 .. MinLow /\ told \in Nat

(***************************************************************************)
(* A reading tells the length of the very pulse it came from, within the   *)
(* two clocks of a round of the counting loop, or it is zero because the   *)
(* pulse was a glitch of two clocks or slower than MIN_FREQ_HZ. A counter  *)
(* that overflows never makes a long pulse look like a short one. Only the *)
(* pulse amid which the program was started is measured from the middle.   *)
(***************************************************************************)
ReadsThePulse ==
  told = 1 /\ start = "seen" =>
    IF reading = Zero
    THEN high <= 2 \/ high > 2 * Slowest
    ELSE /\ reading <= Slowest /\ pin = 0
         /\ 2 * reading + 1 <= high /\ high <= 2 * reading + 2

(***************************************************************************)
(* Each pulse is told exactly once before the next one begins, however     *)
(* short it is and however long it lasts: an overflow in the middle of a   *)
(* pulse does not begin another measurement of it, and the program is back *)
(* at its start in time.                                                   *)
(***************************************************************************)
OncePerPulse ==
  [][ told' <= 1 /\ (pin = 0 /\ pin' = 1 => Told = 1) ]_vars
=============================================================================
