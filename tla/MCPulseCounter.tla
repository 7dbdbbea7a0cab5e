--------------------------- MODULE MCPulseCounter ---------------------------
(***************************************************************************)
(* PulseCounter for TLC: a counter of four bits, so that a pulse of 33     *)
(* clocks overflows it, and the shortest pause between pulses that lets no *)
(* pulse be missed.                                                        *)
(***************************************************************************)
EXTENDS PulseCounter
=============================================================================
