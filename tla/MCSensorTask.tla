---------------------------- MODULE MCSensorTask ----------------------------
(***************************************************************************)
(* SensorTask for TLC: FIFOs of two entries and durations of one or two    *)
(* ticks, so that they fill, overflow, drain and time out.                 *)
(***************************************************************************)
EXTENDS SensorTask
=============================================================================
