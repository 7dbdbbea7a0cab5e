---------------------------- MODULE RelayControl ----------------------------
(***************************************************************************)
(* The relay outputs: gpio_task with its one-slot mailbox GPIO_SIGNAL and  *)
(* the shared GPIO_STATES (application/src/gpio.rs), and the three HTTP    *)
(* handlers that use them (application/src/web/gpio.rs), run by the web    *)
(* tasks.                                                                  *)
(*                                                                         *)
(* The executor is cooperative and has one thread, so a step is a poll of  *)
(* one task: from where it was woken to the next await that can suspend.   *)
(* GPIO_STATES.lock().await never suspends, because no holder awaits while *)
(* it holds the lock. Nothing orders tasks that are ready at the same      *)
(* time, so the next poll is any ready task's.                             *)
(*                                                                         *)
(* A request arrives here with its AuthUser: authentication reads the      *)
(* user's port mask before the handler runs. A request is a record         *)
(*   [id, kind, pin, level, allowed]                                       *)
(* where kind is "get", "toggle" or "set", pin is the u8 of the URL, level *)
(* is the body's state, and allowed is the mask as a set of ports.         *)
(***************************************************************************)
EXTENDS Naturals

CONSTANTS
  NPorts,     \* relay outputs, and bits of a port mask: 8 in the code
  WebTasks,   \* WEB_TASK_POOL_SIZE web tasks, 4 in the code
  Requests,   \* the requests of a behaviour, each sent at most once
  None        \* no command, no request, no reply

Ports == 0 .. NPorts - 1

Request == [id : Nat, kind : {"get", "toggle", "set"}, pin : Nat,
            level : BOOLEAN, allowed : SUBSET Ports]

ASSUME NPortsAssumption == NPorts \in Nat \ {0}
ASSUME RequestsAssumption == Requests \subseteq Request
ASSUME NoneAssumption == None \notin Requests /\ None \notin BOOLEAN

VARIABLES
  signal,    \* GPIO_SIGNAL: the request whose command is in the slot, or None
  states,    \* GPIO_STATES
  pins,      \* the levels gpio_task drives on the relay pins
  pc,        \* where each web task is
  cur,       \* the request each web task serves, or None
  seen,      \* the state a GET handler read before it awaits the port name
  levels,    \* history: the levels a task's relay has had during its request
  fate,      \* history: what has become of each request
  reply      \* the state each request was answered with, or None

taskVars == <<pc, cur, seen>>
hardware == <<signal, states, pins>>
vars == <<signal, states, pins, pc, cur, seen, levels, fate, reply>>

(***************************************************************************)
(* `1 << pin` on a u8 in a release build: the shift amount is taken modulo *)
(* the width of the type, which is the number of ports.                    *)
(***************************************************************************)
Bit(pin) == pin % NPorts

(***************************************************************************)
(* The check of the toggle and set handlers. `||` stops at the first       *)
(* disjunct, so the shift is not reached by a pin that is out of range.    *)
(***************************************************************************)
RefusedOnRangeOnly(r) == r.pin >= NPorts

RefusedOnMaskOnly(r) == Bit(r.pin) \notin r.allowed

Refused(r) == r.pin >= NPorts \/ Bit(r.pin) \notin r.allowed

StateOf(pin) == IF pin < NPorts THEN states[pin] ELSE FALSE

AllOff == [p \in Ports |-> FALSE]

Init ==
  /\ signal = None
  /\ states = AllOff
  /\ pins = AllOff
  /\ pc = [t \in WebTasks |-> "idle"]
  /\ cur = [t \in WebTasks |-> None]
  /\ seen = [t \in WebTasks |-> FALSE]
  /\ levels = [t \in WebTasks |-> {}]
  /\ fate = [r \in Requests |-> "new"]
  /\ reply = [r \in Requests |-> None]

Done(t) ==
  /\ pc' = [pc EXCEPT ![t] = "idle"]
  /\ cur' = [cur EXCEPT ![t] = None]
  /\ levels' = [levels EXCEPT ![t] = {}]
  /\ UNCHANGED seen

(***************************************************************************)
(* A web task gets an authenticated request, its body already parsed.      *)
(***************************************************************************)
Receive(t, r) ==
  /\ pc[t] = "idle"
  /\ fate[r] = "new"
  /\ pc' = [pc EXCEPT ![t] = "handler"]
  /\ cur' = [cur EXCEPT ![t] = r]
  /\ levels' = [levels EXCEPT ![t] = {StateOf(r.pin)}]
  /\ fate' = [fate EXCEPT ![r] = "received"]
  /\ UNCHANGED <<hardware, seen, reply>>

(***************************************************************************)
(* GET reads the state, then awaits the read of the port name in flash.    *)
(* (The `allowed` of the answer is not looked at: its unchecked shift      *)
(* wraps as Bit does, so pin NPorts shows the right to port 0.)            *)
(***************************************************************************)
GetReadsState(t) ==
  LET r == cur[t] IN
  /\ pc[t] = "handler"
  /\ r.kind = "get"
  /\ seen' = [seen EXCEPT ![t] = StateOf(r.pin)]
  /\ pc' = [pc EXCEPT ![t] = "naming"]
  /\ UNCHANGED <<hardware, cur, levels, fate, reply>>

GetReplies(t) ==
  LET r == cur[t] IN
  /\ pc[t] = "naming"
  /\ reply' = [reply EXCEPT ![r] = seen[t]]
  /\ fate' = [fate EXCEPT ![r] = "read"]
  /\ Done(t)
  /\ UNCHANGED hardware

(***************************************************************************)
(* A refused toggle or set answers with the state as it is.                *)
(***************************************************************************)
Refuse(t) ==
  LET r == cur[t] IN
  /\ pc[t] = "handler"
  /\ r.kind # "get"
  /\ Refused(r)
  /\ reply' = [reply EXCEPT ![r] = StateOf(r.pin)]
  /\ fate' = [fate EXCEPT ![r] = "refused"]
  /\ Done(t)
  /\ UNCHANGED hardware

(***************************************************************************)
(* GPIO_SIGNAL.signal puts the command into the slot and replaces the      *)
(* command that may still be in it; the handler then sleeps for 1 ms.      *)
(***************************************************************************)
PutKeepingOld(r) ==
  /\ signal' = IF signal = None THEN r ELSE signal
  /\ fate' = [fate EXCEPT ![r] = "signalled"]

Put(r) ==
  /\ signal' = r
  /\ fate' = [q \in Requests |->
                IF q = r THEN "signalled"
                ELSE IF q = signal THEN "overwritten" ELSE fate[q]]

Command(t) ==
  LET r == cur[t] IN
  /\ pc[t] = "handler"
  /\ r.kind # "get"
  /\ ~Refused(r)
  /\ Put(r)
  /\ pc' = [pc EXCEPT ![t] = "sleeping"]
  /\ UNCHANGED <<states, pins, cur, seen, levels, reply>>

(***************************************************************************)
(* After the sleep the handler answers with whatever state it finds.       *)
(***************************************************************************)
AnswerWhenApplied(t) ==
  LET r == cur[t] IN
  /\ pc[t] = "sleeping"
  /\ fate[r] = "applied"
  /\ reply' = [reply EXCEPT ![r] = states[r.pin]]
  /\ Done(t)
  /\ UNCHANGED <<hardware, fate>>

AnswerWithWish(t) ==
  LET r == cur[t] IN
  /\ pc[t] = "sleeping"
  /\ reply' = [reply EXCEPT ![r] = r.level]
  /\ Done(t)
  /\ UNCHANGED <<hardware, fate>>

Answer(t) ==
  LET r == cur[t] IN
  /\ pc[t] = "sleeping"
  /\ reply' = [reply EXCEPT ![r] = states[r.pin]]
  /\ Done(t)
  /\ UNCHANGED <<hardware, fate>>

(***************************************************************************)
(* One round of gpio_task: take the command out of the slot, work out the  *)
(* new state, publish it and drive the pin. A command with a pin out of    *)
(* range is dropped.                                                       *)
(***************************************************************************)
NewState(r) == IF r.kind = "toggle" THEN ~states[r.pin] ELSE r.level

TakeWithoutClearing == UNCHANGED signal

Take == signal' = None

GpioTask ==
  /\ signal # None
  /\ Take
  /\ IF signal.pin < NPorts
     THEN /\ states' = [states EXCEPT ![signal.pin] = NewState(signal)]
          /\ pins' = [pins EXCEPT ![signal.pin] = NewState(signal)]
          /\ levels' = [t \in WebTasks |->
                          IF cur[t] # None /\ cur[t].pin = signal.pin
                          THEN levels[t] \cup {NewState(signal)} ELSE levels[t]]
          /\ fate' = [fate EXCEPT ![signal] = "applied"]
     ELSE UNCHANGED <<states, pins, levels, fate>>
  /\ UNCHANGED <<taskVars, reply>>

(***************************************************************************)
(* The controller restarts: power loss, watchdog, panic, or the reset that *)
(* ends a firmware update or a factory reset. main sets every relay pin    *)
(* low and the statics have their initial values again.                    *)
(***************************************************************************)
StatesKeptOverReset == states

StatesAfterReset == AllOff

Reset ==
  /\ signal' = None
  /\ states' = StatesAfterReset
  /\ pins' = AllOff
  /\ pc' = [t \in WebTasks |-> "idle"]
  /\ cur' = [t \in WebTasks |-> None]
  /\ seen' = [t \in WebTasks |-> FALSE]
  /\ levels' = [t \in WebTasks |-> {}]
  /\ fate' = [r \in Requests |->
                IF fate[r] \in {"received", "signalled"} THEN "dropped" ELSE fate[r]]
  /\ UNCHANGED reply

WebStep(t) ==
  GetReadsState(t) \/ GetReplies(t) \/ Refuse(t) \/ Command(t) \/ Answer(t)

Next ==
  \/ \E t \in WebTasks, r \in Requests : Receive(t, r)
  \/ \E t \in WebTasks : WebStep(t)
  \/ GpioTask
  \/ Reset

Safety == Init /\ [][Next]_vars

(***************************************************************************)
(* The executor polls every task that was woken before it polls one twice, *)
(* so a ready task is polled: weak fairness. Clients and resets owe        *)
(* nothing.                                                                *)
(***************************************************************************)
Spec ==
  /\ Safety
  /\ WF_vars(GpioTask)
  /\ \A t \in WebTasks : WF_vars(WebStep(t))

-----------------------------------------------------------------------------

(***************************************************************************)
(* Types of the variables. A command that was let through names a port     *)
(* that exists, so neither gpio_task nor the handler that sleeps indexes   *)
(* GPIO_STATES out of its bounds: a panic would restart the controller.    *)
(***************************************************************************)
TypeOK ==
  /\ signal \in {r \in Requests : r.pin \in Ports} \cup {None}
  /\ states \in [Ports -> BOOLEAN]
  /\ pins \in [Ports -> BOOLEAN]
  /\ pc \in [WebTasks -> {"idle", "handler", "naming", "sleeping"}]
  /\ cur \in [WebTasks -> Requests \cup {None}]
  /\ \A t \in WebTasks :
       /\ pc[t] # "idle" => cur[t] \in Requests
       /\ pc[t] = "sleeping" => cur[t].pin \in Ports
  /\ seen \in [WebTasks -> BOOLEAN]
  /\ levels \in [WebTasks -> SUBSET BOOLEAN]
  /\ fate \in [Requests -> {"new", "received", "read", "refused", "signalled",
                            "overwritten", "applied", "dropped"}]
  /\ reply \in [Requests -> BOOLEAN \cup {None}]

(***************************************************************************)
(* A relay that is closed was closed by a command that gpio_task applied   *)
(* and that its sender was allowed to give, and what GPIO_STATES tells     *)
(* clients is the level of the pin.                                        *)
(***************************************************************************)
MayUse(r, p) == r.pin = p /\ p \in r.allowed

OutletsHaveCause ==
  \A p \in Ports :
    /\ pins[p] = states[p]
    /\ pins[p] => \E r \in Requests : fate[r] = "applied" /\ MayUse(r, p)

(***************************************************************************)
(* A step that moves a relay consumes the command of a sender who may use  *)
(* that relay, or is a restart, which opens every relay and forgets the    *)
(* command in the slot and the requests being served: nothing else         *)
(* switches an outlet, and no command switches two or switches twice.      *)
(***************************************************************************)
Restarted == pins' = AllOff /\ signal' = None /\ \A t \in WebTasks : cur'[t] = None

SwitchedByCommand ==
  [][ Restarted \/
      \A p \in Ports : pins'[p] # pins[p] =>
        /\ signal \in Requests /\ MayUse(signal, p)
        /\ fate[signal] = "signalled" /\ fate'[signal] = "applied" ]_vars

(***************************************************************************)
(* The service implements RelayCommands: at most one effect per command,   *)
(* only for permitted commands, never after it was lost, and an accepted   *)
(* command is decided in the end.                                          *)
(***************************************************************************)
AbstractFate(f) ==
  IF f = "signalled" THEN "accepted"
  ELSE IF f = "applied" THEN "applied"
  ELSE IF f \in {"overwritten", "dropped"} THEN "lost" ELSE "new"

Commands == INSTANCE RelayCommands WITH
              outlets <- pins, fate <- [r \in Requests |-> AbstractFate(fate[r])]

ImplementsCommands == Commands!Spec

(***************************************************************************)
(* No handler waits for ever, whatever becomes of its command: a web task  *)
(* that has taken a request ends with it.                                  *)
(***************************************************************************)
InFlight(r) == \E t \in WebTasks : cur[t] = r

RequestsEnd == \A r \in Requests : InFlight(r) ~> ~InFlight(r)

(***************************************************************************)
(* Whatever other clients command meanwhile, and although a handler reads  *)
(* the state before it awaits the port name, or a fixed 1 ms after its     *)
(* command, applied or not: each answer is a level that the relay asked    *)
(* for has had during that very request.                                   *)
(***************************************************************************)
AnswersAreCurrent ==
  [][ \A r \in Requests : reply'[r] # reply[r] =>
        \E t \in WebTasks : cur[t] = r /\ reply'[r] \in levels[t] ]_vars
=============================================================================
