----------------------------- MODULE SensorTask -----------------------------
(***************************************************************************)
(* The measurements: sensor_task (application/src/sensors.rs) and the      *)
(* HLW8012 driver (application/src/hlw8012.rs) with its two PIO state      *)
(* machines, which measure pulses on CF (active power) and CF1 (current    *)
(* while SEL is low, voltage while it is high) and push each measurement   *)
(* into a receive FIFO whether or not anybody reads it.                    *)
(*                                                                         *)
(* Time is counted in ticks of a common unit of the four durations. The    *)
(* task is polled much faster than that, so a tick passes only while the   *)
(* task waits for something that has not happened. A measurement keeps     *)
(* what tells it apart: the output it was taken from, whether its          *)
(* frequency is above MIN_FREQ_HZ, and its age, counted in measurements    *)
(* taken out of the FIFO since it was put in. The temperature is read at   *)
(* once and has no part in any of this; the three fields are published     *)
(* together under the lock, so a reader of SENSOR_DATA sees one cycle's.   *)
(***************************************************************************)
EXTENDS Naturals, Sequences

CONSTANTS
  Depth,     \* entries of a receive FIFO, 4 on the RP2040
  Timeout,   \* PULSE_TIMEOUT_MS, 10 s
  Settle,    \* SEL_SETTLE_MS, 2 s
  Sleep,     \* the pause after a cycle, 5 s
  Zero       \* a reading of 0.0

ASSUME DurationsAssumption ==
  Depth \in Nat \ {0} /\ Timeout \in Nat /\ Settle \in Nat /\ Sleep \in Nat \ {0}

Outputs == {"power", "current", "voltage"}

Measurement == [of : Outputs, clear : BOOLEAN, age : 0 .. Depth - 1]

ASSUME ZeroAssumption == Zero \notin Measurement

VARIABLES
  cf,        \* receive FIFO of SM0
  cf1,       \* receive FIFO of SM1
  sel,       \* the SEL output is high
  load,      \* something draws power
  pc,        \* what sensor_task waits for
  timer,     \* ticks until the wait it is in ends
  taken,     \* the readings of this cycle
  data,      \* SENSOR_DATA
  elapsed    \* history: ticks since this cycle began

fifos == <<cf, cf1>>
vars == <<cf, cf1, sel, load, pc, timer, taken, data, elapsed>>

NoReadings == [o \in Outputs |-> Zero]

Init ==
  /\ cf = <<>> /\ cf1 = <<>>
  /\ sel = FALSE
  /\ load \in BOOLEAN
  /\ pc = "power"
  /\ timer = Timeout
  /\ taken = NoReadings
  /\ data = NoReadings
  /\ elapsed = 0

(***************************************************************************)
(* The load comes and goes.                                                *)
(***************************************************************************)
LoadChanges ==
  /\ load' = ~load
  /\ UNCHANGED <<cf, cf1, sel, pc, timer, taken, data, elapsed>>

(***************************************************************************)
(* A pulse ends and its length is pushed. `push noblock` drops it when the *)
(* FIFO is full. Without a load CF, and CF1 in current mode, give no pulse *)
(* or a spurious slow one; the voltage is always there.                    *)
(***************************************************************************)
PushJoined(q, m) == IF Len(q) < 2 * Depth THEN Append(q, m) ELSE q

Push(q, m) == IF Len(q) < Depth THEN Append(q, m) ELSE q

Pulse(output, clear) == [of |-> output, clear |-> clear, age |-> 0]

PulseOnCF ==
  /\ \E clear \in BOOLEAN :
       /\ clear => load
       /\ cf' = Push(cf, Pulse("power", clear))
  /\ UNCHANGED <<cf1, sel, load, pc, timer, taken, data, elapsed>>

PulseOnCF1 ==
  /\ \E clear \in BOOLEAN :
       /\ clear => load \/ sel
       /\ cf1' = Push(cf1, Pulse(IF sel THEN "voltage" ELSE "current", clear))
  /\ UNCHANGED <<cf, sel, load, pc, timer, taken, data, elapsed>>

(***************************************************************************)
(* read_value: the oldest measurement of the FIFO, or 0.0 when none comes  *)
(* in time or when it is slower than MIN_FREQ_HZ.                          *)
(***************************************************************************)
ValueUnclamped(m) == m

Value(m) == IF m.clear THEN m ELSE Zero

Older(m) == [m EXCEPT !.age = @ + 1]

Rest(q) == [i \in 1 .. Len(q) - 1 |-> Older(q[i + 1])]

Take(output, q) == taken' = [taken EXCEPT ![output] = Value(q[1])]

Wait(place, ticks) == pc' = place /\ timer' = ticks

WaitsForEver(output) == FALSE

TimesOut(output) ==
  /\ timer = 0
  /\ taken' = [taken EXCEPT ![output] = Zero]

ReadPower ==
  /\ pc = "power"
  /\ \/ cf # <<>> /\ Take("power", cf) /\ cf' = Rest(cf)
     \/ cf = <<>> /\ TimesOut("power") /\ UNCHANGED cf
  /\ Wait("current", Timeout)
  /\ UNCHANGED <<cf1, sel, load, data, elapsed>>

(***************************************************************************)
(* read_voltage_v follows at once and starts by setting SEL high.          *)
(***************************************************************************)
ReadCurrent ==
  /\ pc = "current"
  /\ \/ cf1 # <<>> /\ Take("current", cf1) /\ cf1' = Rest(cf1)
     \/ cf1 = <<>> /\ TimesOut("current") /\ UNCHANGED cf1
  /\ sel' = TRUE
  /\ Wait("settle", Settle)
  /\ UNCHANGED <<cf, load, data, elapsed>>

SettlesTwice ==
  /\ pc = "settle"
  /\ timer = 0
  /\ Wait("voltage", Settle + Timeout)
  /\ UNCHANGED <<cf, cf1, sel, load, taken, data, elapsed>>

Settles ==
  /\ pc = "settle"
  /\ timer = 0
  /\ Wait("voltage", Timeout)
  /\ UNCHANGED <<cf, cf1, sel, load, taken, data, elapsed>>

(***************************************************************************)
(* The end of read_voltage_v, and the publication of the cycle.            *)
(***************************************************************************)
SelLeftHigh == sel

SelRestored == FALSE

ReadVoltage ==
  /\ pc = "voltage"
  /\ \/ cf1 # <<>> /\ Take("voltage", cf1) /\ cf1' = Rest(cf1)
     \/ cf1 = <<>> /\ TimesOut("voltage") /\ UNCHANGED cf1
  /\ sel' = SelRestored
  /\ data' = taken'
  /\ Wait("sleep", Sleep)
  /\ UNCHANGED <<cf, load, elapsed>>

Wakes ==
  /\ pc = "sleep"
  /\ timer = 0
  /\ taken' = NoReadings
  /\ elapsed' = 0
  /\ Wait("power", Timeout)
  /\ UNCHANGED <<cf, cf1, sel, load, data>>

(***************************************************************************)
(* A tick passes while sensor_task has nothing to do.                      *)
(***************************************************************************)
Nothing == CASE pc = "power" -> cf = <<>>
             [] pc \in {"current", "voltage"} -> cf1 = <<>>
             [] OTHER -> TRUE

Tick ==
  /\ timer > 0
  /\ Nothing
  /\ timer' = timer - 1
  /\ elapsed' = elapsed + 1
  /\ UNCHANGED <<cf, cf1, sel, load, pc, taken, data>>

Task == ReadPower \/ ReadCurrent \/ Settles \/ ReadVoltage \/ Wakes

Next == LoadChanges \/ PulseOnCF \/ PulseOnCF1 \/ Task \/ Tick

Safety == Init /\ [][Next]_vars

(***************************************************************************)
(* Time passes and the executor polls the task; pulses and loads owe       *)
(* nothing.                                                                *)
(***************************************************************************)
Spec == Safety /\ WF_vars(Task) /\ WF_vars(Tick)

-----------------------------------------------------------------------------
Reading == {Zero} \cup Measurement

(***************************************************************************)
(* Types of the variables.                                                 *)
(***************************************************************************)
TypeOK ==
  /\ cf \in Seq(Measurement) /\ Len(cf) <= Depth
  /\ cf1 \in Seq(Measurement) /\ Len(cf1) <= Depth
  /\ sel \in BOOLEAN /\ load \in BOOLEAN
  /\ pc \in {"power", "current", "settle", "voltage", "sleep"}
  /\ timer \in Nat /\ elapsed \in Nat
  /\ taken \in [Outputs -> Reading] /\ data \in [Outputs -> Reading]

(***************************************************************************)
(* Bounded staleness: the FIFOs drop the newest measurement, not the       *)
(* oldest, and a cycle takes out one or two of the many that arrive; yet   *)
(* an entry is never behind more than Depth - 1 reads, so a published      *)
(* power reading is at most Depth - 1 cycles old.                          *)
(***************************************************************************)
Aging(q) == \A i \in 1 .. Len(q) : q[i].age + i <= Depth

StalenessIsBounded ==
  /\ Aging(cf) /\ Aging(cf1)
  /\ \A o \in Outputs : data[o] # Zero => data[o].age < Depth

(***************************************************************************)
(* SEL is low when the current is read and high when the voltage is, on    *)
(* the ways through timeouts too.                                          *)
(***************************************************************************)
SelMatchesRead ==
  /\ pc \in {"power", "current", "sleep"} => ~sel
  /\ pc \in {"settle", "voltage"} => sel

(***************************************************************************)
(* A cycle takes at most three timeouts, the settling time and the pause:  *)
(* 37 s as shipped. (sensors.rs:50 counts two timeouts and says 17 s.)     *)
(***************************************************************************)
WorstCycle == 3 * Timeout + Settle + Sleep

CycleIsBounded == elapsed <= WorstCycle

(***************************************************************************)
(* When the load is gone for good, the power reading ends up at 0.0: the   *)
(* old measurements drain and the spurious pulses are clamped.             *)
(***************************************************************************)
NoLoadShowsZero == <>[]~load => <>[](data["power"] = Zero)

(***************************************************************************)
(* The task never gets stuck on an output that gives no pulses.            *)
(***************************************************************************)
KeepsPublishing == []<>(pc = "sleep") /\ []<>(pc = "power")

(***************************************************************************)
(* sensors.rs:15-19: voltage_v comes from CF1 in voltage mode,             *)
(* current_total_a from CF1 in current mode, power_w from CF; so no        *)
(* reading is published that was measured on another output.               *)
(***************************************************************************)
ReadingsInTheirMode == \A o \in Outputs : data[o] # Zero => data[o].of = o
=============================================================================
