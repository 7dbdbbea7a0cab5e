---------------------------- MODULE RelayCommands ----------------------------
(***************************************************************************)
(* What the relay service promises its clients, whatever the tasks and the *)
(* mailbox inside it look like (application/src/gpio.rs and                *)
(* application/src/web/gpio.rs):                                           *)
(*                                                                         *)
(*   - a relay moves only because of a command its sender may give, or     *)
(*     because the controller restarts, which opens every relay;           *)
(*   - a command moves its relay at most once, after it was accepted;      *)
(*   - a command may be lost, but never after it was applied;              *)
(*   - an accepted command does not stay undecided for ever.               *)
(*                                                                         *)
(* RelayControl.tla is shown to implement this module.                     *)
(***************************************************************************)
EXTENDS Naturals

CONSTANTS
  NPorts,    \* number of relay outputs, 8 in the code
  Requests   \* the requests of a behaviour, each sent at most once

Ports == 0 .. NPorts - 1

VARIABLES
  outlets,   \* outlets[p]: relay p is closed, its outlet has power
  fate       \* fate[r]: what has become of request r

vars == <<outlets, fate>>

(***************************************************************************)
(* A request names a pin (any u8 of the URL), the level a "set" asks for,  *)
(* and carries the ports its sender may use.                               *)
(***************************************************************************)
Permitted(r) == r.pin \in r.allowed

Level(r) == IF r.kind = "toggle" THEN ~outlets[r.pin] ELSE r.level

AllOff == [p \in Ports |-> FALSE]

Accepted == {r \in Requests : fate[r] = "accepted"}

Init ==
  /\ outlets = AllOff
  /\ fate = [r \in Requests |-> "new"]

(***************************************************************************)
(* Accepting a command may push out commands accepted before it.           *)
(***************************************************************************)
Accept(r) ==
  /\ fate[r] = "new"
  /\ r.kind # "get"
  /\ Permitted(r)
  /\ \E lost \in SUBSET Accepted :
       fate' = [q \in Requests |-> IF q = r THEN "accepted"
                                   ELSE IF q \in lost THEN "lost" ELSE fate[q]]
  /\ UNCHANGED outlets

Apply(r) ==
  /\ fate[r] = "accepted"
  /\ fate' = [fate EXCEPT ![r] = "applied"]
  /\ outlets' = [outlets EXCEPT ![r.pin] = Level(r)]

(***************************************************************************)
(* A restart opens every relay, forgets what was accepted and may end      *)
(* requests that had not been accepted yet.                                *)
(***************************************************************************)
Restart ==
  /\ outlets' = AllOff
  /\ \E ended \in SUBSET {r \in Requests : fate[r] = "new"} :
       fate' = [r \in Requests |-> IF r \in Accepted \cup ended THEN "lost" ELSE fate[r]]

Next ==
  \/ \E r \in Requests : Accept(r)
  \/ \E r \in Requests : Apply(r)
  \/ Restart

(***************************************************************************)
(* Fairness of the single mailbox reader: while something is accepted, it  *)
(* keeps applying.                                                         *)
(***************************************************************************)
Spec == Init /\ [][Next]_vars /\ WF_vars(\E r \in Requests : Apply(r))
=============================================================================
