--------------------------- MODULE MCRelayControl ---------------------------
(***************************************************************************)
(* RelayControl for TLC: two ports, so that pin 2 is out of range and      *)
(* aliases bit 0, two web tasks, and one request of each kind that         *)
(* matters.                                                                *)
(***************************************************************************)
EXTENDS RelayControl

Req(id, kind, pin, level, allowed) ==
  [id |-> id, kind |-> kind, pin |-> pin, level |-> level, allowed |-> allowed]

\* Two commands for a relay, one its sender may not give, one for a pin out of
\* range whose bit wraps to one the sender has, and a reader.
MixedRequests ==
  { Req(1, "set", 0, TRUE, {0, 1}),
    Req(2, "toggle", 0, FALSE, {0}),
    Req(3, "toggle", 1, FALSE, {0}),
    Req(4, "set", 2, TRUE, {0, 1}),
    Req(5, "get", 0, FALSE, {0}) }
=============================================================================
