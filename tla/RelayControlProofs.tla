------------------------- MODULE RelayControlProofs -------------------------
(***************************************************************************)
(* Theorems of RelayControl, for every number of ports, web tasks and      *)
(* requests. The argument is one inductive invariant: next to the types it *)
(* says whose the command in the slot is and that a request is handled by  *)
(* one web task only, so that the history of a command that was applied is *)
(* never rewritten.                                                        *)
(***************************************************************************)
EXTENDS RelayControl, TLAPS

(***************************************************************************)
(* In range, the shift of the mask check does not wrap: a command that is  *)
(* not refused names a port that exists and is in its sender's mask.       *)
(***************************************************************************)
LEMMA NotRefused ==
  ASSUME NEW r \in Requests, ~Refused(r)
  PROVE  r.pin \in Ports /\ MayUse(r, r.pin)
<1>1. r.pin \in Nat /\ r.pin < NPorts
  BY RequestsAssumption, NPortsAssumption
  DEF RequestsAssumption, NPortsAssumption, Refused, Request
<1>2. r.pin % NPorts = r.pin
  BY <1>1, NPortsAssumption DEF NPortsAssumption
<1>3. r.pin \in r.allowed
  BY <1>2 DEF Refused, Bit
<1> QED
  BY <1>1, <1>3, NPortsAssumption DEF NPortsAssumption, Ports, MayUse

(***************************************************************************)
(* What a refused command or a GET is answered with is a state.            *)
(***************************************************************************)
LEMMA StateOfIsBoolean ==
  ASSUME states \in [Ports -> BOOLEAN], NEW pin \in Nat
  PROVE  StateOf(pin) \in BOOLEAN
<1>1. pin < NPorts => pin \in Ports
  BY NPortsAssumption DEF NPortsAssumption, Ports
<1> QED
  BY <1>1 DEF StateOf

-----------------------------------------------------------------------------
(***************************************************************************)
(* The types hold and no index leaves GPIO_STATES.                         *)
(***************************************************************************)
LEMMA InitTypes == Init => TypeOK
  BY NoneAssumption DEF NoneAssumption, Init, TypeOK, AllOff

LEMMA NextTypes == TypeOK /\ [Next]_vars => TypeOK'
<1> SUFFICES ASSUME TypeOK, [Next]_vars PROVE TypeOK'
  OBVIOUS
<1> USE NPortsAssumption, NoneAssumption 
        DEF NPortsAssumption, NoneAssumption, TypeOK, taskVars, hardware
<1>1. ASSUME NEW t \in WebTasks, NEW r \in Requests, Receive(t, r) PROVE TypeOK'
  <2>1. StateOf(r.pin) \in BOOLEAN
    <3>1. r.pin \in Nat
      BY <1>1, RequestsAssumption DEF RequestsAssumption, Request
    <3> QED BY <3>1, StateOfIsBoolean
  <2>2. {StateOf(r.pin)} \in SUBSET BOOLEAN
    BY <2>1
  <2> QED BY <1>1, <2>2 DEF Receive
<1>2. ASSUME NEW t \in WebTasks, GetReadsState(t) PROVE TypeOK'
  <2>1. StateOf(cur[t].pin) \in BOOLEAN
    <3>1. cur[t] \in Requests /\ cur[t].pin \in Nat
      BY <1>2, RequestsAssumption DEF RequestsAssumption, GetReadsState, Request
    <3> QED BY <3>1, StateOfIsBoolean
  <2> QED BY <1>2, <2>1 DEF GetReadsState
<1>3. ASSUME NEW t \in WebTasks, GetReplies(t) PROVE TypeOK'
  BY <1>3 DEF GetReplies, Done
<1>4. ASSUME NEW t \in WebTasks, Refuse(t) PROVE TypeOK'
  <2>1. StateOf(cur[t].pin) \in BOOLEAN
    <3>1. cur[t] \in Requests /\ cur[t].pin \in Nat
      BY <1>4, RequestsAssumption DEF RequestsAssumption, Refuse, Request
    <3> QED BY <3>1, StateOfIsBoolean
  <2> QED BY <1>4, <2>1 DEF Refuse, Done
<1>5. ASSUME NEW t \in WebTasks, Command(t) PROVE TypeOK'
  <2>1. cur[t] \in Requests /\ cur[t].pin \in Ports
    BY <1>5, NotRefused DEF Command
  <2> QED BY <1>5, <2>1 DEF Command, Put
<1>6. ASSUME NEW t \in WebTasks, Answer(t) PROVE TypeOK'
  BY <1>6 DEF Answer, Done
<1>7. ASSUME GpioTask PROVE TypeOK'
  <2>1. NewState(signal) \in BOOLEAN
    <3>1. signal \in Requests /\ signal.level \in BOOLEAN /\ signal.pin \in Ports
      BY <1>7, RequestsAssumption DEF RequestsAssumption, GpioTask, Request
    <3> QED BY <3>1 DEF NewState
  <2>2. levels' \in [WebTasks -> SUBSET BOOLEAN]
    BY <1>7, <2>1 DEF GpioTask
  <2> QED BY <1>7, <2>1, <2>2 DEF GpioTask, Take
<1>8. ASSUME Reset PROVE TypeOK'
  BY <1>8 DEF Reset, StatesAfterReset, AllOff
<1>9. CASE UNCHANGED vars
  BY <1>9 DEF vars
<1> QED
  BY <1>1, <1>2, <1>3, <1>4, <1>5, <1>6, <1>7, <1>8, <1>9 DEF Next, WebStep

(***************************************************************************)
(* The types of RelayControl, in every behaviour.                          *)
(***************************************************************************)
THEOREM TypesHold == Safety => []TypeOK
  BY InitTypes, NextTypes, PTL DEF Safety

-----------------------------------------------------------------------------
(***************************************************************************)
(* The inductive invariant. OutletsHaveCause alone is not inductive: a     *)
(* step could rewrite the fate of the command that closed a relay, or the  *)
(* slot could hold a command nobody may give.                              *)
(***************************************************************************)
Handles(t) == pc[t] \in {"handler", "naming"}

SlotIsSignalled ==
  signal # None => fate[signal] = "signalled" /\ MayUse(signal, signal.pin)

HandledOnce ==
  \A t \in WebTasks : Handles(t) =>
    /\ fate[cur[t]] = "received"
    /\ \A u \in WebTasks : Handles(u) /\ cur[u] = cur[t] => u = t

CauseInv == TypeOK /\ SlotIsSignalled /\ HandledOnce /\ OutletsHaveCause

LEMMA InitCause == Init => CauseInv
<1> SUFFICES ASSUME Init PROVE CauseInv
  OBVIOUS
<1>1. TypeOK
  BY InitTypes
<1>2. SlotIsSignalled /\ HandledOnce
  BY DEF Init, SlotIsSignalled, HandledOnce, Handles
<1>3. OutletsHaveCause
  BY DEF Init, OutletsHaveCause, AllOff
<1> QED
  BY <1>1, <1>2, <1>3 DEF CauseInv

(***************************************************************************)
(* A request that was applied stays applied, because no handler serves it  *)
(* any more; a restart forgets only what had not been applied.             *)
(***************************************************************************)
LEMMA CauseKept ==
  ASSUME OutletsHaveCause, UNCHANGED <<states, pins>>,
         \A r \in Requests : fate[r] = "applied" => fate'[r] = "applied"
  PROVE  OutletsHaveCause'
  BY DEF OutletsHaveCause, MayUse

LEMMA NextCause == CauseInv /\ [Next]_vars => CauseInv'
<1> SUFFICES ASSUME CauseInv, [Next]_vars PROVE CauseInv'
  OBVIOUS
<1> USE NoneAssumption DEF NoneAssumption, CauseInv, hardware, taskVars
<1>0. TypeOK /\ TypeOK'
  BY NextTypes
<1>1. ASSUME NEW t \in WebTasks, NEW r \in Requests, Receive(t, r) PROVE CauseInv'
  <2>1. SlotIsSignalled'
    BY <1>0, <1>1 DEF Receive, SlotIsSignalled, MayUse, TypeOK
  <2>2. HandledOnce'
    BY <1>0, <1>1 DEF Receive, HandledOnce, Handles, TypeOK
  <2>3. OutletsHaveCause'
    BY <1>0, <1>1, CauseKept DEF Receive, TypeOK
  <2> QED BY <1>0, <2>1, <2>2, <2>3
<1>2. ASSUME NEW t \in WebTasks, GetReadsState(t) PROVE CauseInv'
  <2>1. SlotIsSignalled' /\ OutletsHaveCause'
    BY <1>2, CauseKept DEF GetReadsState, SlotIsSignalled, MayUse
  <2>2. HandledOnce'
    BY <1>0, <1>2 DEF GetReadsState, HandledOnce, Handles, TypeOK
  <2> QED BY <1>0, <2>1, <2>2
<1>3. ASSUME NEW t \in WebTasks, GetReplies(t) \/ Refuse(t) PROVE CauseInv'
  <2>1. cur[t] \in Requests /\ fate[cur[t]] = "received" /\ Handles(t)
    BY <1>0, <1>3 DEF GetReplies, Refuse, HandledOnce, Handles, TypeOK
  <2>2. /\ \/ fate' = [fate EXCEPT ![cur[t]] = "read"]
           \/ fate' = [fate EXCEPT ![cur[t]] = "refused"]
        /\ UNCHANGED hardware /\ Done(t)
    BY <1>3 DEF GetReplies, Refuse
  <2>3. SlotIsSignalled'
    BY <1>0, <2>1, <2>2 DEF SlotIsSignalled, MayUse, TypeOK
  <2>4. HandledOnce'
    BY <1>0, <2>1, <2>2 DEF Done, HandledOnce, Handles, TypeOK
  <2>5. OutletsHaveCause'
    BY <1>0, <2>1, <2>2, CauseKept DEF TypeOK
  <2> QED BY <1>0, <2>3, <2>4, <2>5
<1>4. ASSUME NEW t \in WebTasks, Command(t) PROVE CauseInv'
  <2>1. cur[t] \in Requests /\ fate[cur[t]] = "received" /\ Handles(t)
    BY <1>0, <1>4 DEF Command, HandledOnce, Handles, TypeOK
  <2>2. signal # None => fate[signal] = "signalled" /\ signal # cur[t]
    BY <2>1 DEF SlotIsSignalled
  <2>3. SlotIsSignalled'
    <3>1. MayUse(cur[t], cur[t].pin)
      BY <1>4, <2>1, NotRefused DEF Command
    <3> QED BY <1>0, <1>4, <2>1, <3>1 DEF Command, Put, SlotIsSignalled, MayUse, TypeOK
  <2>4. HandledOnce'
    BY <1>0, <1>4, <2>1, <2>2 DEF Command, Put, HandledOnce, Handles, TypeOK
  <2>5. OutletsHaveCause'
    <3>1. \A q \in Requests : fate[q] = "applied" => fate'[q] = "applied"
      BY <1>0, <1>4, <2>1, <2>2 DEF Command, Put, TypeOK
    <3> QED BY <1>4, <3>1, CauseKept DEF Command
  <2> QED BY <1>0, <2>3, <2>4, <2>5
<1>5. ASSUME NEW t \in WebTasks, Answer(t) PROVE CauseInv'
  <2>1. SlotIsSignalled' /\ OutletsHaveCause'
    BY <1>5, CauseKept DEF Answer, SlotIsSignalled, MayUse
  <2>2. HandledOnce'
    BY <1>0, <1>5 DEF Answer, Done, HandledOnce, Handles, TypeOK
  <2> QED BY <1>0, <2>1, <2>2
<1>6. ASSUME GpioTask PROVE CauseInv'
  <2>1. /\ signal \in Requests /\ signal.pin \in Ports /\ signal.pin < NPorts
        /\ fate[signal] = "signalled" /\ MayUse(signal, signal.pin)
    BY <1>0, <1>6, NPortsAssumption
    DEF GpioTask, TypeOK, SlotIsSignalled, Ports, NPortsAssumption
  <2>2. SlotIsSignalled'
    BY <1>6 DEF GpioTask, Take, SlotIsSignalled
  <2>3. HandledOnce'
    BY <1>0, <1>6, <2>1 DEF GpioTask, HandledOnce, Handles, TypeOK
  <2>4. OutletsHaveCause'
    <3> SUFFICES ASSUME NEW p \in Ports
                 PROVE  /\ pins'[p] = states'[p]
                        /\ pins'[p] => \E r \in Requests : fate'[r] = "applied" /\ MayUse(r, p)
      BY DEF OutletsHaveCause, MayUse
    <3>1. CASE p = signal.pin
      BY <1>0, <1>6, <2>1, <3>1 DEF GpioTask, TypeOK
    <3>2. CASE p # signal.pin
      BY <1>0, <1>6, <2>1, <3>2 DEF GpioTask, TypeOK, OutletsHaveCause
    <3> QED BY <3>1, <3>2
  <2> QED BY <1>0, <2>2, <2>3, <2>4
<1>7. ASSUME Reset PROVE CauseInv'
  <2>1. SlotIsSignalled' /\ HandledOnce'
    BY <1>7 DEF Reset, SlotIsSignalled, HandledOnce, Handles
  <2>2. OutletsHaveCause'
    BY <1>7 DEF Reset, StatesAfterReset, AllOff, OutletsHaveCause
  <2> QED BY <1>0, <2>1, <2>2
<1>8. CASE UNCHANGED vars
  BY <1>0, <1>8 DEF vars, SlotIsSignalled, HandledOnce, Handles, OutletsHaveCause, MayUse
<1> QED
  BY <1>1, <1>2, <1>3, <1>4, <1>5, <1>6, <1>7, <1>8 DEF Next, WebStep

LEMMA CauseHolds == Safety => []CauseInv
  BY InitCause, NextCause, PTL DEF Safety

(***************************************************************************)
(* Every closed relay was closed by a permitted command, and GPIO_STATES   *)
(* tells the level of the pins.                                            *)
(***************************************************************************)
THEOREM ClosedRelaysHaveCause == Safety => []OutletsHaveCause
  BY CauseHolds, PTL DEF CauseInv

(***************************************************************************)
(* Only a permitted command that is consumed, or a restart, moves a relay. *)
(***************************************************************************)
LEMMA StepSwitches ==
  ASSUME CauseInv, [Next]_vars
  PROVE  [ Restarted \/ \A p \in Ports : pins'[p] # pins[p] =>
             /\ signal \in Requests /\ MayUse(signal, p)
             /\ fate[signal] = "signalled" /\ fate'[signal] = "applied" ]_vars
<1>1. CASE Reset
  BY <1>1 DEF Reset, Restarted
<1>2. CASE GpioTask
  <2>1. signal \in Requests /\ fate[signal] = "signalled" /\ MayUse(signal, signal.pin)
    BY <1>2 DEF GpioTask, CauseInv, TypeOK, SlotIsSignalled
  <2>2. \A p \in Ports : pins'[p] # pins[p] => p = signal.pin /\ fate'[signal] = "applied"
    BY <1>2, <2>1 DEF GpioTask, CauseInv, TypeOK
  <2> QED BY <2>1, <2>2
<1>3. CASE UNCHANGED pins
  BY <1>3
<1> QED
  <2>1. Next => Reset \/ GpioTask \/ UNCHANGED pins
    BY DEF Next, WebStep, Receive, GetReadsState, GetReplies, Refuse, Command, Answer, hardware
  <2> QED BY <1>1, <1>2, <1>3, <2>1 DEF vars

THEOREM SwitchedOnlyByCommand == Safety => SwitchedByCommand
<1>1. CauseInv /\ [Next]_vars =>
        [ Restarted \/ \A p \in Ports : pins'[p] # pins[p] =>
            /\ signal \in Requests /\ MayUse(signal, p)
            /\ fate[signal] = "signalled" /\ fate'[signal] = "applied" ]_vars
  BY StepSwitches
<1> QED
  BY <1>1, CauseHolds, PTL DEF Safety, SwitchedByCommand

-----------------------------------------------------------------------------
(***************************************************************************)
(* What a task knows of its relay is among the levels the relay has had:   *)
(* the state it read before it awaits, and the state as it is now. The     *)
(* second part is what makes the first one inductive: gpio_task publishes  *)
(* a level and records it in the same step.                                *)
(***************************************************************************)
ReadsAreRecorded ==
  \A t \in WebTasks :
    /\ pc[t] = "naming" => seen[t] \in levels[t]
    /\ pc[t] # "idle" => StateOf(cur[t].pin) \in levels[t]

LEMMA InitRecorded == Init => ReadsAreRecorded
  BY DEF Init, ReadsAreRecorded

LEMMA GpioTaskRecords ==
  ASSUME TypeOK, TypeOK', ReadsAreRecorded, GpioTask
  PROVE  ReadsAreRecorded'
<1> USE NoneAssumption DEF NoneAssumption
<1> SUFFICES ASSUME NEW t \in WebTasks, pc[t] # "idle"
             PROVE  /\ pc[t] = "naming" => seen[t] \in levels'[t]
                    /\ StateOf(cur[t].pin)' \in levels'[t]
  BY DEF GpioTask, taskVars, ReadsAreRecorded
<1>1. /\ signal \in Requests /\ signal.pin \in Ports /\ signal.pin < NPorts
      /\ cur[t] \in Requests /\ cur[t].pin \in Nat
  BY NPortsAssumption, RequestsAssumption
  DEF GpioTask, TypeOK, Ports, NPortsAssumption, RequestsAssumption, Request
<1>2. /\ states' = [states EXCEPT ![signal.pin] = NewState(signal)]
      /\ levels'[t] = IF cur[t].pin = signal.pin
                      THEN levels[t] \cup {NewState(signal)} ELSE levels[t]
      /\ UNCHANGED cur
  BY <1>1 DEF GpioTask, taskVars
<1>3. StateOf(cur[t].pin) \in levels[t] /\ (pc[t] = "naming" => seen[t] \in levels[t])
  BY DEF ReadsAreRecorded
<1>4. StateOf(cur[t].pin)' = IF cur[t].pin = signal.pin
                             THEN NewState(signal) ELSE StateOf(cur[t].pin)
  <2>1. cur[t].pin < NPorts => cur[t].pin \in Ports
    BY <1>1, NPortsAssumption DEF NPortsAssumption, Ports
  <2> QED BY <1>1, <1>2, <2>1 DEF StateOf, TypeOK
<1> QED BY <1>2, <1>3, <1>4

LEMMA NextRecorded ==
  ASSUME TypeOK, TypeOK', ReadsAreRecorded, [Next]_vars
  PROVE  ReadsAreRecorded'
<1> USE DEF hardware, taskVars
<1>1. ASSUME NEW t \in WebTasks, NEW r \in Requests, Receive(t, r)
      PROVE  ReadsAreRecorded'
  BY <1>1 DEF Receive, TypeOK, ReadsAreRecorded, StateOf
<1>2. ASSUME NEW t \in WebTasks, GetReadsState(t) PROVE ReadsAreRecorded'
  BY <1>2 DEF GetReadsState, TypeOK, ReadsAreRecorded, StateOf
<1>3. ASSUME NEW t \in WebTasks, GetReplies(t) \/ Refuse(t) \/ Answer(t)
      PROVE  ReadsAreRecorded'
  <2>1. Done(t) /\ UNCHANGED states
    BY <1>3 DEF GetReplies, Refuse, Answer
  <2> QED BY <2>1 DEF Done, TypeOK, ReadsAreRecorded, StateOf
<1>4. ASSUME NEW t \in WebTasks, Command(t) PROVE ReadsAreRecorded'
  BY <1>4 DEF Command, TypeOK, ReadsAreRecorded, StateOf
<1>5. CASE GpioTask
  BY <1>5, GpioTaskRecords
<1>6. CASE Reset
  BY <1>6 DEF Reset, ReadsAreRecorded
<1>7. CASE UNCHANGED vars
  BY <1>7 DEF vars, ReadsAreRecorded, StateOf
<1> QED
  BY <1>1, <1>2, <1>3, <1>4, <1>5, <1>6, <1>7 DEF Next, WebStep

LEMMA StepAnswers ==
  ASSUME TypeOK, ReadsAreRecorded, [Next]_vars
  PROVE  [ \A r \in Requests : reply'[r] # reply[r] =>
             \E t \in WebTasks : cur[t] = r /\ reply'[r] \in levels[t] ]_vars
<1> USE DEF hardware, taskVars
<1>1. ASSUME NEW t \in WebTasks, GetReplies(t) \/ Refuse(t) \/ Answer(t),
             NEW r \in Requests, reply'[r] # reply[r]
      PROVE  cur[t] = r /\ reply'[r] \in levels[t]
  <2>1. cur[t] = r
    BY <1>1 DEF GetReplies, Refuse, Answer, TypeOK
  <2>2. CASE GetReplies(t)
    BY <2>1, <2>2 DEF GetReplies, TypeOK, ReadsAreRecorded
  <2>3. CASE Refuse(t)
    BY <2>1, <2>3 DEF Refuse, TypeOK, ReadsAreRecorded
  <2>4. CASE Answer(t)
    <3>1. cur[t].pin < NPorts
      BY <2>4, NPortsAssumption DEF Answer, TypeOK, Ports, NPortsAssumption
    <3> QED BY <2>1, <2>4, <3>1 DEF Answer, TypeOK, ReadsAreRecorded, StateOf
  <2> QED BY <1>1, <2>1, <2>2, <2>3, <2>4
<1>2. Next => \/ UNCHANGED reply
              \/ \E t \in WebTasks : GetReplies(t) \/ Refuse(t) \/ Answer(t)
  BY DEF Next, WebStep, Receive, GetReadsState, Command, GpioTask, Reset
<1> QED
  BY <1>1, <1>2 DEF vars

(***************************************************************************)
(* Every answer is a level the relay has had during the request, for any   *)
(* number of ports, web tasks and requests.                                *)
(***************************************************************************)
THEOREM AnswersHold == Safety => AnswersAreCurrent
<1>1. TypeOK /\ TypeOK' /\ ReadsAreRecorded /\ [Next]_vars => ReadsAreRecorded'
  BY NextRecorded
<1>2. TypeOK /\ ReadsAreRecorded /\ [Next]_vars =>
        [ \A r \in Requests : reply'[r] # reply[r] =>
            \E t \in WebTasks : cur[t] = r /\ reply'[r] \in levels[t] ]_vars
  BY StepAnswers
<1> QED
  BY <1>1, <1>2, InitRecorded, TypesHold, PTL DEF Safety, AnswersAreCurrent

-----------------------------------------------------------------------------
(***************************************************************************)
(* The refinement: every step of RelayControl is a step of RelayCommands   *)
(* or leaves its variables alone. The fairness of RelayCommands is left to *)
(* the model checker.                                                      *)
(***************************************************************************)
Abstract == [r \in Requests |-> AbstractFate(fate[r])]

LEMMA InitRefines == Init => Commands!Init
  BY DEF Init, Commands!Init, Commands!AllOff, Commands!Ports, AllOff, Ports, AbstractFate

LEMMA NextRefines ==
  ASSUME CauseInv, [Next]_vars
  PROVE  [Commands!Next]_(Commands!vars)
<1> USE NoneAssumption DEF NoneAssumption, hardware, taskVars
<1>0. TypeOK /\ SlotIsSignalled /\ HandledOnce
  BY DEF CauseInv
<1>1. ASSUME NEW t \in WebTasks, NEW r \in Requests, Receive(t, r)
      PROVE  UNCHANGED Commands!vars
  <2>1. \A q \in Requests : AbstractFate(fate'[q]) = AbstractFate(fate[q])
    BY <1>0, <1>1 DEF Receive, TypeOK, AbstractFate
  <2> QED BY <1>1, <2>1 DEF Receive, Commands!vars
<1>2. ASSUME NEW t \in WebTasks, GetReadsState(t) \/ Answer(t)
      PROVE  UNCHANGED Commands!vars
  BY <1>2 DEF GetReadsState, Answer, Commands!vars
<1>3. ASSUME NEW t \in WebTasks, GetReplies(t) \/ Refuse(t)
      PROVE  UNCHANGED Commands!vars
  <2>1. cur[t] \in Requests /\ fate[cur[t]] = "received"
    BY <1>0, <1>3 DEF GetReplies, Refuse, HandledOnce, Handles, TypeOK
  <2>2. \A q \in Requests : AbstractFate(fate'[q]) = AbstractFate(fate[q])
    BY <1>0, <1>3, <2>1 DEF GetReplies, Refuse, TypeOK, AbstractFate
  <2> QED BY <1>3, <2>2 DEF GetReplies, Refuse, Commands!vars
<1>4. ASSUME NEW t \in WebTasks, Command(t)
      PROVE  Commands!Accept(cur[t])
  <2> DEFINE r == cur[t]
             lost == IF signal = None THEN {} ELSE {signal}
  <2>1. r \in Requests /\ fate[r] = "received" /\ r.kind # "get" /\ r.pin \in r.allowed
    BY <1>0, <1>4, NotRefused DEF Command, HandledOnce, Handles, TypeOK, MayUse
  <2>2. lost \in SUBSET Commands!Accepted
    BY <1>0 DEF TypeOK, SlotIsSignalled, Commands!Accepted, AbstractFate
  <2>3. signal # None => signal # r /\ signal \in Requests
    BY <1>0, <2>1 DEF TypeOK, SlotIsSignalled
  <2>4. \A q \in Requests :
          AbstractFate(fate'[q]) = IF q = r THEN "accepted"
                                   ELSE IF q \in lost THEN "lost" ELSE AbstractFate(fate[q])
    BY <1>0, <1>4, <2>1, <2>3 DEF Command, Put, TypeOK, AbstractFate
  <2>5. Abstract' = [q \in Requests |-> IF q = r THEN "accepted"
                       ELSE IF q \in lost THEN "lost" ELSE Abstract[q]]
    BY <2>4 DEF Abstract
  <2>6. Abstract[r] = "new"
    BY <2>1 DEF Abstract, AbstractFate
  <2> QED
    BY <1>4, <2>1, <2>2, <2>5, <2>6
    DEF Command, Commands!Accept, Commands!Permitted, Abstract
<1>5. ASSUME GpioTask PROVE Commands!Apply(signal)
  <2>1. /\ signal \in Requests /\ signal.pin \in Ports /\ signal.pin < NPorts
        /\ fate[signal] = "signalled"
    BY <1>0, <1>5, NPortsAssumption
    DEF GpioTask, TypeOK, SlotIsSignalled, Ports, NPortsAssumption
  <2>2. states[signal.pin] = pins[signal.pin]
    BY <2>1 DEF CauseInv, OutletsHaveCause
  <2>3. pins' = [pins EXCEPT ![signal.pin] = Commands!Level(signal)]
    BY <1>5, <2>1, <2>2 DEF GpioTask, NewState, Commands!Level
  <2>4. Abstract' = [Abstract EXCEPT ![signal] = "applied"]
    <3>1. \A q \in Requests :
            AbstractFate(fate'[q]) = IF q = signal THEN "applied" ELSE AbstractFate(fate[q])
      BY <1>0, <1>5, <2>1 DEF GpioTask, TypeOK, AbstractFate
    <3> QED BY <3>1 DEF Abstract
  <2>5. Abstract[signal] = "accepted"
    BY <2>1 DEF Abstract, AbstractFate
  <2> QED BY <2>3, <2>4, <2>5 DEF Commands!Apply, Abstract
<1>6. ASSUME Reset PROVE Commands!Restart
  <2> DEFINE ended == {r \in Requests : fate[r] = "received"}
  <2>1. ended \in SUBSET {r \in Requests : Abstract[r] = "new"}
    BY DEF Abstract, AbstractFate
  <2>2. \A r \in Requests : r \in Commands!Accepted <=> fate[r] = "signalled"
    BY <1>0 DEF TypeOK, Commands!Accepted, AbstractFate
  <2>3. \A r \in Requests :
          AbstractFate(fate'[r]) = IF r \in Commands!Accepted \cup ended
                                   THEN "lost" ELSE AbstractFate(fate[r])
    BY <1>0, <1>6, <2>2 DEF Reset, TypeOK, AbstractFate
  <2>4. Abstract' = [r \in Requests |-> IF r \in Commands!Accepted \cup ended
                                        THEN "lost" ELSE Abstract[r]]
    BY <2>3 DEF Abstract
  <2>5. pins' = Commands!AllOff
    BY <1>6 DEF Reset, AllOff, Ports, Commands!AllOff, Commands!Ports
  <2> QED BY <2>1, <2>4, <2>5 DEF Commands!Restart, Abstract
<1>7. CASE UNCHANGED vars
  BY <1>7 DEF vars, Commands!vars
<1> QED
  <2>1. ASSUME GpioTask PROVE signal \in Requests
    BY <1>0, <2>1 DEF GpioTask, TypeOK
  <2>2. ASSUME NEW t \in WebTasks, Command(t) PROVE cur[t] \in Requests
    BY <1>0, <2>2 DEF Command, TypeOK
  <2> QED
    BY <1>1, <1>2, <1>3, <1>4, <1>5, <1>6, <1>7, <2>1, <2>2
    DEF Next, WebStep, Commands!Next

(***************************************************************************)
(* The safety part of the refinement: no command has two effects, or one   *)
(* after it was lost, or one its sender may not have.                      *)
(***************************************************************************)
THEOREM RefinesCommands ==
  Safety => Commands!Init /\ [][Commands!Next]_(Commands!vars)
<1>1. CauseInv /\ [Next]_vars => [Commands!Next]_(Commands!vars)
  BY NextRefines
<1> QED
  BY <1>1, InitRefines, CauseHolds, PTL DEF Safety
=============================================================================
