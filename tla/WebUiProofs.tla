----------------------------- MODULE WebUiProofs -----------------------------
(***************************************************************************)
(* Theorems of WebUi, for any number of accounts, of functions under way   *)
(* and of ports.                                                           *)
(***************************************************************************)
EXTENDS WebUi, TLAPS

Auths == Pairs \cup {None}

PortIds == 0 .. PortCount - 1

(***************************************************************************)
(* What a function can wait for. A status or a port name is never refused, *)
(* and only a pair of a user that exists proves itself.                    *)
(***************************************************************************)
StatusCall == [at : {"login", "first_status"}, auth : Auths,
               answer : {None, "ok", "first_login", "error"}]

ToggleCall == [at : {"toggle"}, auth : Auths, answer : {None, "ok", "401", "error"}]

PostCall == [at : {"first", "change"}, auth : Auths, old : Passwords \cup {None},
             new : Passwords, answer : {None, "ok", "401", "error"}]

NameCall == [at : {"init", "port_name"}, port : PortIds, answer : {"ok", "error"}]

RelayCall == [at : {"relay"}, auth : Auths, port : PortIds,
              answer : {None, "ok", "401", "error"}]

Call == {Idle} \cup StatusCall \cup ToggleCall \cup PostCall \cup NameCall \cup RelayCall

Honest(call) ==
  call.at \in {"first", "relay"} /\ call.answer = "ok" => call.auth \in Pairs

(***************************************************************************)
(* The inductive invariant: types, and that an open page whose credentials *)
(* are not proven is being checked: by an initApp that goes on to the      *)
(* first port, or by a request for a port with those very credentials,     *)
(* each earlier port having cost a failure. This takes a network that does  *)
(* not fail for every port (SomeSucceed).                                  *)
(***************************************************************************)
PageTypes ==
  /\ creds \in Auths
  /\ shown \subseteq {"login", "firstlogin", "app", "admin"}
  /\ calls \in [Calls -> Call]
  /\ \A c \in Calls : Honest(calls[c])
  /\ pw \in [Users -> Passwords \cup {None}] /\ first \in BOOLEAN
  /\ troubles \in 0 .. MaxTroubles /\ proven \in BOOLEAN

ProvenExist == proven => creds # None

Checks(call, pair, failures) ==
  \/ call.at = "init"
  \/ /\ call.at = "relay" /\ call.auth = pair
     /\ call.port <= failures
     /\ call.answer = "error" => call.port < failures

SomeSucceed == MaxTroubles < PortCount

BeingChecked ==
  SomeSucceed /\ ~Covered /\ ~proven => \E c \in Calls : Checks(calls[c], creds, troubles)

-----------------------------------------------------------------------------
(***************************************************************************)
(* An answer changes nothing else of a call.                               *)
(***************************************************************************)
WithAnswer(call, a) == [call EXCEPT !.answer = a]

LEMMA AnswerOnly ==
  ASSUME NEW k \in Call, k # Idle, NEW a \in Answers,
         a = "401" => k \in ToggleCall \cup PostCall \cup RelayCall,
         a = "first_login" => k \in StatusCall,
         NEW h, h = WithAnswer(k, a)
  PROVE  /\ h \in Call /\ h # Idle /\ h.at = k.at /\ h.answer = a
         /\ k \notin NameCall => h.auth = k.auth
         /\ k \in NameCall \cup RelayCall => h.port = k.port
<1>1. CASE k \in StatusCall
  BY <1>1 DEF ToggleCall, PostCall, StatusCall, NameCall, RelayCall, Call, Answers, WithAnswer, Idle
<1>2. CASE k \in ToggleCall
  BY <1>2 DEF ToggleCall, StatusCall, NameCall, RelayCall, Call, Answers, WithAnswer, Idle
<1>3. CASE k \in PostCall
  BY <1>3 DEF PostCall, StatusCall, NameCall, RelayCall, Call, Answers, WithAnswer, Idle
<1>4. CASE k \in NameCall
  BY <1>4 DEF ToggleCall, PostCall, StatusCall, NameCall, RelayCall, Call, Answers, WithAnswer, Idle
<1>5. CASE k \in RelayCall
  BY <1>5 DEF StatusCall, NameCall, RelayCall, Call, Answers, WithAnswer, Idle
<1> QED BY <1>1, <1>2, <1>3, <1>4, <1>5 DEF Call

(***************************************************************************)
(* The calls that functions make.                                          *)
(***************************************************************************)
LEMMA NewCalls ==
  /\ \A place \in {"login", "first_status", "toggle"}, pair \in Auths :
       Asks(place, pair) \in Call /\ Honest(Asks(place, pair))
  /\ \A place \in {"first", "change"}, pair \in Auths,
        old \in Passwords \cup {None}, new \in Passwords :
       Post(place, pair, old, new) \in Call /\ Honest(Post(place, pair, old, new))
  /\ \A place \in {"init", "port_name"}, port \in PortIds :
       AsksName(place, port) \in Call /\ Honest(AsksName(place, port))
  /\ \A pair \in Auths, port \in PortIds :
       AsksRelay(pair, port) \in Call /\ Honest(AsksRelay(pair, port))
  /\ Idle \in Call /\ Honest(Idle)
<1>1. None # "ok"
  BY NamesAssumption DEF NamesAssumption, Answers
<1>2. \A place \in {"login", "first_status", "toggle"}, pair \in Auths :
        Asks(place, pair) \in Call /\ Honest(Asks(place, pair))
  BY DEF Asks, Call, StatusCall, ToggleCall, Honest
<1>3. \A place \in {"first", "change"}, pair \in Auths,
         old \in Passwords \cup {None}, new \in Passwords :
        Post(place, pair, old, new) \in Call /\ Honest(Post(place, pair, old, new))
  BY <1>1 DEF Post, Call, PostCall, Honest
<1>4. \A place \in {"init", "port_name"}, port \in PortIds :
        AsksName(place, port) \in Call /\ Honest(AsksName(place, port))
  BY DEF AsksName, Call, NameCall, Honest
<1>5. \A pair \in Auths, port \in PortIds :
        AsksRelay(pair, port) \in Call /\ Honest(AsksRelay(pair, port))
  BY <1>1 DEF AsksRelay, Call, RelayCall, Honest
<1>6. Idle \in Call /\ Honest(Idle)
  BY DEF Idle, Call, Honest
<1> QED BY <1>2, <1>3, <1>4, <1>5, <1>6

LEMMA NextPortIsCall ==
  ASSUME NEW pair \in Auths, NEW port \in PortIds
  PROVE  /\ NextPort(port, pair) \in Call /\ Honest(NextPort(port, pair))
         /\ port + 1 < PortCount => NextPort(port, pair) = AsksRelay(pair, port + 1)
<1>1. port + 1 < PortCount => port + 1 \in PortIds
  BY PagesAssumption DEF PagesAssumption, PortIds
<1> QED BY <1>1, NewCalls DEF NextPort

(***************************************************************************)
(* What is at which place.                                                 *)
(***************************************************************************)
LEMMA Places ==
  ASSUME NEW k \in Call
  PROVE  /\ k.at \in {"login", "first_status"} => k \in StatusCall
         /\ k.at = "toggle" => k \in ToggleCall
         /\ k.at \in {"first", "change"} => k \in PostCall
         /\ k.at \in {"init", "port_name"} => k \in NameCall
         /\ k.at = "relay" => k \in RelayCall
         /\ k.at = "idle" <=> k = Idle
         /\ k.at \in {"idle", "login", "first_status", "toggle", "first", "change",
                      "init", "port_name", "relay"}
  BY DEF Call, StatusCall, ToggleCall, PostCall, NameCall, RelayCall, Idle

-----------------------------------------------------------------------------
(***************************************************************************)
(* The first state, and what keeps the types.                              *)
(***************************************************************************)
PageInv == PageTypes /\ ProvenExist

LEMMA InitPage == Init => PageInv /\ BeingChecked
<1> SUFFICES ASSUME Init PROVE PageInv /\ BeingChecked
  OBVIOUS
<1>1. first \in BOOLEAN /\ proven \in BOOLEAN /\ ~proven
  BY Zenon DEF Init
<1>2. PageTypes
  BY <1>1, NewCalls, AccountsAssumption, PagesAssumption
     DEF AccountsAssumption, PagesAssumption, Init, PageTypes, Auths
<1>3. ProvenExist
  BY <1>1 DEF ProvenExist
<1>4. BeingChecked
  BY DEF Init, BeingChecked, Covered
<1> QED BY <1>2, <1>3, <1>4 DEF PageInv

LEMMA NoneIsNoPair == \A k \in Pairs : k # None
  BY NamesAssumption DEF NamesAssumption

LEMMA OthersKept ==
  ASSUME PageTypes, NEW c \in Calls, NEW k \in Call, Honest(k), Returns(c, k)
  PROVE  /\ calls' \in [Calls -> Call] /\ \A d \in Calls : Honest(calls'[d])
         /\ calls'[c] = k /\ \A d \in Calls : d # c => calls'[d] = calls[d]
  BY DEF PageTypes, Returns

(***************************************************************************)
(* The controller answers.                                                 *)
(***************************************************************************)
LEMMA ServesStep ==
  ASSUME PageInv, BeingChecked, NEW c \in Calls, Serves(c)
  PROVE  PageInv' /\ BeingChecked'
<1> DEFINE k == calls[c]
<1>1. k \in Call /\ k # Idle /\ k.answer = None
  BY DEF PageInv, PageTypes, Serves, ServesStatus, ServesUser, ServesPassword, Pending
<1>2. PICK a \in Answers :
        /\ Handles(c, a)
        /\ a = "401" => k \in ToggleCall \cup PostCall \cup RelayCall
        /\ a = "first_login" => k \in StatusCall
        /\ a # "error"
        /\ a = "ok" /\ k.at \in {"first", "relay"} => k.auth \in Pairs
  <2>1. CASE ServesStatus(c)
    <3>1. Status \in {"ok", "first_login"}
      BY DEF Status
    <3>2. k \in StatusCall /\ k.at \notin {"first", "relay"}
      BY <1>1, <2>1, Places DEF ServesStatus
    <3> QED BY <2>1, <3>1, <3>2 DEF ServesStatus, Answers
  <2>2. CASE ServesUser(c)
    <3>1. k \in ToggleCall \cup RelayCall
      BY <1>1, <2>2, Places DEF ServesUser
    <3>2. Accepts(k.auth) => k.auth \in Pairs
      BY <3>1 DEF ToggleCall, RelayCall, Auths, Accepts
    <3> DEFINE a == IF Accepts(k.auth) THEN "ok" ELSE "401"
    <3>3. a \in {"ok", "401"} /\ (a = "ok" => k.auth \in Pairs) /\ Handles(c, a)
      BY <2>2, <3>2 DEF ServesUser
    <3> HIDE DEF a
    <3> QED BY <3>1, <3>3 DEF Answers
  <2>3. CASE ServesPassword(c)
    <3>1. k \in PostCall
      BY <1>1, <2>3, Places DEF ServesPassword
    <3>2. Accepts(k.auth) => k.auth \in Pairs
      BY <3>1 DEF PostCall, Auths, Accepts
    <3> QED BY <2>3, <3>1, <3>2 DEF ServesPassword, MayChange, Answers
  <2> QED BY <2>1, <2>2, <2>3 DEF Serves
<1> DEFINE h == WithAnswer(k, a)
<1>3. /\ h \in Call /\ h.at = k.at /\ h.answer = a
      /\ k \notin NameCall => h.auth = k.auth
      /\ k \in NameCall \cup RelayCall => h.port = k.port
  BY <1>1, <1>2, AnswerOnly
<1>4. Returns(c, h)
  BY <1>2 DEF Handles, WithAnswer
<1>5. Honest(h)
  <2>1. h.at = "relay" => k \in RelayCall /\ k \notin NameCall
    BY <1>1, <1>3, Places DEF NameCall
  <2>2. h.at = "first" => k \in PostCall /\ k \notin NameCall
    BY <1>1, <1>3, Places DEF NameCall
  <2> QED BY <1>2, <1>3, <2>1, <2>2 DEF Honest
<1>6. /\ calls' \in [Calls -> Call] /\ \A d \in Calls : Honest(calls'[d])
      /\ calls'[c] = h /\ \A d \in Calls : d # c => calls'[d] = calls[d]
  BY <1>3, <1>4, <1>5, OthersKept DEF PageInv
<1>7. UNCHANGED <<creds, shown, troubles, proven>>
  BY DEF Serves
<1>8. pw' \in [Users -> Passwords \cup {None}] /\ first' \in BOOLEAN
  <2>1. CASE UNCHANGED <<pw, first>>
    BY <2>1 DEF PageInv, PageTypes
  <2>2. CASE ChangesPassword(k) /\ ServesPassword(c)
    <3>1. k.new \in Passwords
      BY <1>1, <2>2, Places DEF ServesPassword, PostCall
    <3>2. first' \in BOOLEAN
      BY <2>2, Zenon DEF ChangesPassword
    <3> QED BY <2>2, <3>1, <3>2 DEF ChangesPassword, PageInv, PageTypes
  <2> QED BY <2>1, <2>2 DEF Serves, ServesStatus, ServesUser, ServesPassword
<1>9. PageInv'
  BY <1>6, <1>7, <1>8 DEF PageInv, PageTypes, ProvenExist
<1>10. BeingChecked'
  <2> HIDE DEF h, k
  <2>1. Checks(k, creds, troubles) => Checks(h, creds, troubles)
    BY <1>1, <1>2, <1>3, Places DEF Checks, NameCall, RelayCall
  <2>2. \A d \in Calls : Checks(calls[d], creds, troubles) => Checks(calls'[d], creds, troubles)
    BY <1>6, <2>1 DEF k
  <2> QED BY <1>7, <2>2 DEF BeingChecked, Covered
<1> QED BY <1>9, <1>10

LEMMA LosesStep ==
  ASSUME PageInv, BeingChecked, NEW c \in Calls, Loses(c)
  PROVE  PageInv' /\ BeingChecked'
<1> DEFINE k == calls[c]
           h == WithAnswer(k, "error")
<1>1. k \in Call /\ k # Idle
  BY DEF PageInv, PageTypes, Loses
<1>2. /\ h \in Call /\ h.at = k.at /\ h.answer = "error"
      /\ k \notin NameCall => h.auth = k.auth
      /\ k \in NameCall \cup RelayCall => h.port = k.port
  BY <1>1, AnswerOnly DEF Answers
<1>3. Returns(c, h)
  BY DEF Loses, Handles, WithAnswer
<1>4. Honest(h)
  BY <1>2 DEF Honest
<1>5. /\ calls' \in [Calls -> Call] /\ \A d \in Calls : Honest(calls'[d])
      /\ calls'[c] = h /\ \A d \in Calls : d # c => calls'[d] = calls[d]
  BY <1>2, <1>3, <1>4, OthersKept DEF PageInv
<1>6. UNCHANGED <<creds, shown, pw, first, proven>>
  BY DEF Loses
<1>7. troubles \in Nat /\ troubles' = troubles + 1 /\ troubles' \in 0 .. MaxTroubles
  BY PagesAssumption DEF PagesAssumption, Loses, PageInv, PageTypes
<1>8. PageInv'
  BY <1>5, <1>6, <1>7 DEF PageInv, PageTypes, ProvenExist
<1>9. BeingChecked'
  <2> HIDE DEF h, k
  <2>1. Checks(k, creds, troubles) => Checks(h, creds, troubles')
    BY <1>1, <1>2, <1>7, Places DEF Checks, NameCall, RelayCall, PortIds
  <2>2. \A d \in Calls : Checks(calls[d], creds, troubles) => Checks(calls[d], creds, troubles')
    <3> SUFFICES ASSUME NEW d \in Calls, Checks(calls[d], creds, troubles)
                 PROVE  Checks(calls[d], creds, troubles')
      OBVIOUS
    <3>1. calls[d] \in Call
      BY DEF PageInv, PageTypes
    <3> QED BY <1>7, <3>1, Places DEF Checks, RelayCall, PortIds
  <2>3. \A d \in Calls : Checks(calls[d], creds, troubles) => Checks(calls'[d], creds, troubles')
    BY <1>5, <2>1, <2>2 DEF k
  <2> QED BY <1>6, <2>3 DEF BeingChecked, Covered
<1> QED BY <1>8, <1>9

LEMMA ElsewhereStep ==
  ASSUME PageInv, BeingChecked, Elsewhere
  PROVE  PageInv' /\ BeingChecked'
<1>1. UNCHANGED <<creds, shown, calls, proven>>
  BY DEF Elsewhere
<1>2. troubles \in Nat /\ troubles' = troubles + 1 /\ troubles' \in 0 .. MaxTroubles
  BY PagesAssumption DEF PagesAssumption, Elsewhere, PageInv, PageTypes
<1>3. pw' \in [Users -> Passwords \cup {None}]
  BY AccountsAssumption DEF AccountsAssumption, Elsewhere, PageInv, PageTypes
<1>4. first' \in BOOLEAN
  BY Zenon DEF Elsewhere, PageInv, PageTypes
<1>5. PageInv'
  BY <1>1, <1>2, <1>3, <1>4 DEF PageInv, PageTypes, ProvenExist
<1>6. \A d \in Calls : Checks(calls[d], creds, troubles) => Checks(calls[d], creds, troubles')
  <2> SUFFICES ASSUME NEW d \in Calls, Checks(calls[d], creds, troubles)
               PROVE  Checks(calls[d], creds, troubles')
    OBVIOUS
  <2>1. calls[d] \in Call
    BY DEF PageInv, PageTypes
  <2> QED BY <1>2, <2>1, Places DEF Checks, RelayCall, PortIds
<1>7. BeingChecked'
  BY <1>1, <1>6 DEF BeingChecked, Covered
<1> QED BY <1>5, <1>7

-----------------------------------------------------------------------------
(***************************************************************************)
(* A reload shows the login form.                                          *)
(***************************************************************************)
LEMMA ReloadsStep ==
  ASSUME PageInv, Reloads
  PROVE  PageInv' /\ BeingChecked'
<1>1. UNCHANGED <<creds, pw, first, troubles, proven>> /\ shown' = {"login"}
  BY DEF Reloads
<1>2. creds \in Auths
  BY DEF PageInv, PageTypes
<1>3. PICK c \in Calls :
        calls' = [k \in Calls |-> IF k = c /\ creds # None THEN Asks("login", creds) ELSE Idle]
  BY DEF Reloads
<1>4. calls' \in [Calls -> Call] /\ \A d \in Calls : Honest(calls'[d])
  BY <1>2, <1>3, NewCalls
<1>5. PageInv'
  BY <1>1, <1>4 DEF PageInv, PageTypes, ProvenExist
<1>6. BeingChecked'
  BY <1>1 DEF BeingChecked, Covered
<1> QED BY <1>5, <1>6

(***************************************************************************)
(* A click: a login is typed under a form that covers the page, and all    *)
(* else leaves the credentials and the calls under way alone.              *)
(***************************************************************************)
LEMMA ActsStep ==
  ASSUME PageInv, BeingChecked, NEW c \in Calls, Acts(c)
  PROVE  PageInv' /\ BeingChecked'
<1>1. /\ creds \in Auths /\ creds' \in Auths /\ shown' = shown
      /\ creds' = creds \/ "login" \in shown
      /\ \E k \in Call : Honest(k) /\ Returns(c, k)
  <2>1. creds \in Auths
    BY DEF PageInv, PageTypes
  <2>2. CASE \E u \in Users, p \in Passwords : DoLogin(c, u, p)
    <3>1. PICK u \in Users, p \in Passwords : DoLogin(c, u, p)
      BY <2>2
    <3>2. creds' \in Auths
      BY <3>1 DEF DoLogin, Auths, Pairs
    <3> QED BY <2>1, <3>1, <3>2, NewCalls DEF DoLogin
  <2>3. CASE \E p \in Passwords : DoFirstLogin(c, p)
    <3>1. PICK p \in Passwords : DoFirstLogin(c, p)
      BY <2>3
    <3> DEFINE old == IF creds = None THEN None ELSE creds.pw
    <3>2. old \in Passwords \cup {None}
      BY <2>1 DEF Auths, Pairs
    <3> HIDE DEF old
    <3>3. Post("first", creds, old, p) \in Call /\ Honest(Post("first", creds, old, p))
      BY <2>1, <3>2, NewCalls
    <3> QED BY <2>1, <3>1, <3>3 DEF DoFirstLogin, Keeps, old
  <2>4. CASE \E old, p \in Passwords : DoChangePassword(c, old, p)
    BY <2>1, <2>4, NewCalls DEF DoChangePassword, Keeps
  <2>5. CASE ToggleRelay(c)
    BY <2>1, <2>5, NewCalls DEF ToggleRelay, Keeps
  <2> QED BY <2>2, <2>3, <2>4, <2>5 DEF Acts
<1>2. PICK k \in Call : Honest(k) /\ Returns(c, k)
  BY <1>1
<1>3. /\ calls' \in [Calls -> Call] /\ \A d \in Calls : Honest(calls'[d])
      /\ \A d \in Calls : d # c => calls'[d] = calls[d]
  BY <1>2, OthersKept DEF PageInv
<1>4. UNCHANGED <<pw, first, troubles>>
  BY DEF Acts
<1>5. proven' \in BOOLEAN /\ (proven' <=> proven /\ creds' = creds)
  BY Zenon DEF Acts
<1>6. PageInv'
  BY <1>1, <1>3, <1>4, <1>5 DEF PageInv, PageTypes, ProvenExist
<1>7. calls[c] = Idle /\ ~Checks(calls[c], creds, troubles)
  BY DEF Acts, Checks, Idle
<1>8. BeingChecked'
  <2>1. CASE "login" \in shown
    BY <1>1, <2>1 DEF BeingChecked, Covered
  <2>2. CASE creds' = creds
    BY <1>1, <1>3, <1>4, <1>5, <1>7, <2>2 DEF BeingChecked, Covered
  <2> QED BY <1>1, <2>1, <2>2
<1> QED BY <1>6, <1>8

-----------------------------------------------------------------------------
(***************************************************************************)
(* A function goes on. What it leaves open is proven, or it is its own     *)
(* check, or it was not the check of what was open before.                 *)
(***************************************************************************)
Leaves(c, k) ==
  /\ k \in Call /\ Honest(k) /\ Returns(c, k)
  /\ creds' \in Auths
  /\ shown' \subseteq {"login", "firstlogin", "app", "admin"}
  /\ SomeSucceed =>
       \/ Covered'
       \/ creds' # None /\ Proves(calls[c])
       \/ Checks(k, creds', troubles)
       \/ /\ creds' = creds /\ (Covered => Covered')
          /\ ~Checks(calls[c], creds, troubles)

LEMMA LeavesStep ==
  ASSUME PageInv, BeingChecked, NEW c \in Calls, Continues(c), NEW k, Leaves(c, k)
  PROVE  PageInv' /\ BeingChecked'
<1>1. UNCHANGED <<pw, first, troubles>>
  BY DEF Continues
<1>2. proven' \in BOOLEAN /\ (proven' <=> creds' # None /\ (proven \/ Proves(calls[c])))
  BY Zenon DEF Continues
<1>3. /\ calls' \in [Calls -> Call] /\ \A d \in Calls : Honest(calls'[d])
      /\ calls'[c] = k /\ \A d \in Calls : d # c => calls'[d] = calls[d]
  BY OthersKept DEF Leaves, PageInv
<1>4. PageInv'
  BY <1>1, <1>2, <1>3 DEF Leaves, PageInv, PageTypes, ProvenExist
<1>5. BeingChecked'
  <2> SUFFICES ASSUME SomeSucceed, ~Covered', ~proven'
               PROVE  \E d \in Calls : Checks(calls'[d], creds', troubles')
    BY DEF BeingChecked, SomeSucceed
  <2>1. CASE Checks(k, creds', troubles)
    BY <1>1, <1>3, <2>1
  <2>2. CASE /\ creds' = creds /\ (Covered => Covered')
             /\ ~Checks(calls[c], creds, troubles)
    <3>1. ~Covered /\ ~proven
      BY <1>2, <2>2 DEF PageInv, ProvenExist
    <3>2. PICK d \in Calls : Checks(calls[d], creds, troubles)
      BY <3>1 DEF BeingChecked
    <3> QED BY <1>1, <1>3, <2>2, <3>2
  <2>3. ~(creds' # None /\ Proves(calls[c]))
    BY <1>2
  <2> QED BY <2>1, <2>2, <2>3 DEF Leaves
<1> QED BY <1>4, <1>5

(***************************************************************************)
(* A function that is not initApp or loadRelays checks nothing.            *)
(***************************************************************************)
LEMMA NoCheck ==
  ASSUME NEW c \in Calls, calls[c].at \notin {"init", "relay"}
  PROVE  ~Checks(calls[c], creds, troubles)
  BY DEF Checks

(***************************************************************************)
(* Refused or failed requests of functions that check nothing.             *)
(***************************************************************************)
LEMMA UnlessRefusedLeaves ==
  ASSUME PageInv, NEW c \in Calls, UnlessRefused(c, Keeps),
         NEW k \in Call, Honest(k), Returns(c, k), ~Checks(calls[c], creds, troubles)
  PROVE  Leaves(c, k)
<1>1. creds \in Auths /\ shown \subseteq {"login", "firstlogin", "app", "admin"}
  BY DEF PageInv, PageTypes
<1>2. CASE calls[c].answer = "401"
  BY <1>1, <1>2 DEF UnlessRefused, Handle401, Leaves, Covered, Auths
<1>3. CASE calls[c].answer # "401"
  BY <1>1, <1>3 DEF UnlessRefused, Keeps, Leaves, Covered
<1> QED BY <1>2, <1>3

LEMMA FirstPort == 0 \in PortIds
  BY PagesAssumption DEF PagesAssumption, PortIds

LEMMA InitAppLeaves ==
  ASSUME PageInv, NEW c \in Calls, NEW hidden, InitApp(c, hidden), UNCHANGED creds
  PROVE  \E k : Leaves(c, k)
<1> DEFINE k == AsksName("init", 0)
<1>1. k \in Call /\ Honest(k)
  BY FirstPort, NewCalls
<1>2. k.at = "init"
  BY DEF AsksName
<1>3. Returns(c, k) /\ shown' = (shown \ hidden) \cup {"app"}
  BY DEF InitApp
<1> HIDE DEF k
<1>4. Leaves(c, k)
  BY <1>1, <1>2, <1>3 DEF Leaves, Checks, PageInv, PageTypes
<1> QED BY <1>4

LEMMA LoginLeaves ==
  ASSUME PageInv, NEW c \in Calls, LoginAnswered(c)
  PROVE  \E k : Leaves(c, k)
<1>1. /\ calls[c] \in Call /\ calls[c].at = "login" /\ calls[c].answer # None
      /\ creds' = creds /\ creds \in Auths
      /\ shown \subseteq {"login", "firstlogin", "app", "admin"}
  BY DEF LoginAnswered, Answered, PageInv, PageTypes
<1>2. calls[c].answer \in {"ok", "first_login", "error"}
  BY <1>1, Places DEF StatusCall
<1>3. CASE calls[c].answer = "error"
  <2>1. Returns(c, Idle) /\ shown' = shown
    BY <1>3 DEF LoginAnswered
  <2> QED BY <1>1, <2>1, NewCalls, NoCheck DEF Leaves, Covered
<1>4. CASE calls[c].answer = "first_login"
  <2>1. Returns(c, Idle) /\ shown' = (shown \ {"login"}) \cup {"firstlogin"}
    BY <1>4 DEF LoginAnswered
  <2> QED BY <1>1, <2>1, NewCalls DEF Leaves, Covered
<1>5. CASE calls[c].answer = "ok"
  <2>1. InitApp(c, {"login"})
    BY <1>5 DEF LoginAnswered
  <2> QED BY <1>1, <2>1, InitAppLeaves
<1> QED BY <1>2, <1>3, <1>4, <1>5

LEMMA FirstLeaves ==
  ASSUME PageInv, NEW c \in Calls, FirstAnswered(c)
  PROVE  \E k : Leaves(c, k)
<1>1. /\ calls[c] \in PostCall /\ Honest(calls[c]) /\ calls[c].at = "first"
      /\ shown \subseteq {"login", "firstlogin", "app", "admin"}
  BY Places DEF FirstAnswered, Answered, PageInv, PageTypes
<1>2. CASE calls[c].answer = "ok"
  <2> DEFINE k == Asks("first_status", creds')
  <2>1. calls[c].auth \in Pairs /\ calls[c].new \in Passwords
    BY <1>1, <1>2 DEF Honest, PostCall
  <2>2. creds' \in Pairs
    BY <1>2, <2>1 DEF FirstAnswered, Pairs
  <2>3. k \in Call /\ Honest(k) /\ creds' \in Auths /\ creds' # None
    BY <2>2, NewCalls, NoneIsNoPair DEF Auths
  <2>4. Returns(c, k) /\ shown' = shown \ {"firstlogin"}
    BY <1>2 DEF FirstAnswered
  <2>5. Proves(calls[c])
    BY <1>1, <1>2 DEF Proves
  <2> HIDE DEF k
  <2>6. Leaves(c, k)
    BY <1>1, <2>3, <2>4, <2>5 DEF Leaves
  <2> QED BY <2>6
<1>3. CASE calls[c].answer # "ok"
  <2>1. UnlessRefused(c, Keeps) /\ Returns(c, Idle)
    BY <1>3 DEF FirstAnswered
  <2>2. Leaves(c, Idle)
    BY <1>1, <2>1, NewCalls, NoCheck, UnlessRefusedLeaves
  <2> QED BY <2>2
<1> QED BY <1>2, <1>3

LEMMA FirstStatusLeaves ==
  ASSUME PageInv, NEW c \in Calls, FirstStatusAnswered(c)
  PROVE  \E k : Leaves(c, k)
<1>1. /\ calls[c].at = "first_status" /\ creds' = creds /\ creds \in Auths
      /\ shown \subseteq {"login", "firstlogin", "app", "admin"}
  BY DEF FirstStatusAnswered, Answered, PageInv, PageTypes
<1>2. CASE calls[c].answer = "error"
  <2>1. Returns(c, Idle) /\ shown' = shown
    BY <1>2 DEF FirstStatusAnswered
  <2> QED BY <1>1, <2>1, NewCalls, NoCheck DEF Leaves, Covered
<1>3. CASE calls[c].answer # "error"
  BY <1>1, <1>3, InitAppLeaves DEF FirstStatusAnswered
<1> QED BY <1>2, <1>3

(***************************************************************************)
(* initApp goes on to the first port with the credentials of now.          *)
(***************************************************************************)
LEMMA InitLeaves ==
  ASSUME PageInv, NEW c \in Calls, InitAnswered(c)
  PROVE  \E k : Leaves(c, k)
<1> DEFINE k == AsksRelay(creds, 0)
<1>1. /\ creds' = creds /\ creds \in Auths /\ troubles \in Nat
      /\ shown' \subseteq {"login", "firstlogin", "app", "admin"}
  BY PagesAssumption DEF PagesAssumption, InitAnswered, PageInv, PageTypes
<1>2. k \in Call /\ Honest(k)
  BY <1>1, FirstPort, NewCalls
<1>3. k.at = "relay" /\ k.auth = creds /\ k.port = 0 /\ k.answer # "error"
  BY NamesAssumption DEF NamesAssumption, Answers, AsksRelay
<1>4. Returns(c, k)
  BY DEF InitAnswered
<1> HIDE DEF k
<1>5. Leaves(c, k)
  BY <1>1, <1>2, <1>3, <1>4 DEF Leaves, Checks
<1> QED BY <1>5

(***************************************************************************)
(* An answer for a port proves the credentials, or ends the session, or    *)
(* costs one of the failures that do not suffice for all ports.            *)
(***************************************************************************)
LEMMA RelayLeaves ==
  ASSUME PageInv, NEW c \in Calls, RelayAnswered(c)
  PROVE  \E k : Leaves(c, k)
<1> DEFINE port == calls[c].port
<1>1. /\ calls[c] \in RelayCall /\ Honest(calls[c])
      /\ calls[c].at = "relay" /\ calls[c].answer # None
      /\ creds \in Auths /\ troubles \in 0 .. MaxTroubles
      /\ shown \subseteq {"login", "firstlogin", "app", "admin"}
  BY Places DEF RelayAnswered, Answered, PageInv, PageTypes
<1>2. calls[c].answer \in {"ok", "401", "error"} /\ port \in PortIds
  BY <1>1 DEF RelayCall
<1>3. CASE calls[c].answer = "ok"
  <2> DEFINE k == AsksName("port_name", port)
  <2>1. Returns(c, k) /\ creds' = creds /\ shown' = shown
    BY <1>3 DEF RelayAnswered, UnlessRefused, Keeps
  <2>2. k \in Call /\ Honest(k)
    BY <1>2, NewCalls
  <2>3. calls[c].auth \in Pairs
    BY <1>1, <1>3 DEF Honest
  <2>4. Checks(calls[c], creds, troubles) => creds # None /\ Proves(calls[c])
    BY <1>1, <1>3, <2>3, NoneIsNoPair DEF Checks, Proves
  <2> HIDE DEF k
  <2>5. Leaves(c, k)
    BY <1>1, <2>1, <2>2, <2>4 DEF Leaves, Covered
  <2> QED BY <2>5
<1>4. CASE calls[c].answer = "401"
  <2> DEFINE k == NextPort(port, creds')
  <2>1. Returns(c, k) /\ creds' = None /\ shown' = (shown \ {"app"}) \cup {"login"}
    BY <1>4 DEF RelayAnswered, UnlessRefused, Handle401
  <2>2. k \in Call /\ Honest(k)
    BY <1>2, <2>1, NextPortIsCall DEF Auths
  <2> HIDE DEF k
  <2>3. Leaves(c, k)
    BY <1>1, <2>1, <2>2 DEF Leaves, Covered, Auths
  <2> QED BY <2>3
<1>5. CASE calls[c].answer = "error"
  <2> DEFINE k == NextPort(port, creds)
  <2>1. Returns(c, k) /\ creds' = creds /\ shown' = shown
    BY <1>5 DEF RelayAnswered, UnlessRefused, Keeps
  <2>2. k \in Call /\ Honest(k)
    BY <1>1, <1>2, NextPortIsCall
  <2>3. ASSUME SomeSucceed, Checks(calls[c], creds, troubles)
        PROVE  Checks(k, creds, troubles)
    <3>1. port < troubles
      BY <1>1, <1>5, <2>3 DEF Checks
    <3>2. port \in Nat /\ port + 1 < PortCount /\ port + 1 <= troubles
      BY <1>1, <1>2, <2>3, <3>1, PagesAssumption
         DEF PagesAssumption, PortIds, SomeSucceed
    <3>3. k = AsksRelay(creds, port + 1)
      BY <1>1, <1>2, <3>2, NextPortIsCall
    <3>4. k.at = "relay" /\ k.auth = creds /\ k.port = port + 1 /\ k.answer # "error"
      BY <3>3, NamesAssumption DEF NamesAssumption, Answers, AsksRelay
    <3> HIDE DEF k, port
    <3> QED BY <3>2, <3>4 DEF Checks
  <2> HIDE DEF k
  <2>4. Leaves(c, k)
    BY <1>1, <2>1, <2>2, <2>3 DEF Leaves, Covered
  <2> QED BY <2>4
<1> QED BY <1>2, <1>3, <1>4, <1>5

LEMMA PortNameLeaves ==
  ASSUME PageInv, NEW c \in Calls, PortNameAnswered(c)
  PROVE  \E k : Leaves(c, k)
<1> DEFINE k == NextPort(calls[c].port, creds)
<1>1. /\ calls[c] \in NameCall /\ calls[c].at = "port_name" /\ creds \in Auths
      /\ shown \subseteq {"login", "firstlogin", "app", "admin"}
  BY Places DEF PortNameAnswered, Answered, PageInv, PageTypes
<1>2. k \in Call /\ Honest(k)
  BY <1>1, NextPortIsCall DEF NameCall
<1>3. Returns(c, k) /\ creds' = creds /\ shown' = shown
  BY DEF PortNameAnswered, Keeps
<1> HIDE DEF k
<1>4. Leaves(c, k)
  BY <1>1, <1>2, <1>3, NoCheck DEF Leaves, Covered
<1> QED BY <1>4

LEMMA ToggleLeaves ==
  ASSUME PageInv, NEW c \in Calls, ToggleAnswered(c)
  PROVE  \E k : Leaves(c, k)
<1>1. Leaves(c, Idle)
  BY NewCalls, NoCheck, UnlessRefusedLeaves DEF ToggleAnswered, Answered
<1> QED BY <1>1

(***************************************************************************)
(* A password change stores credentials that the controller has just made  *)
(* valid for the user who asked.                                           *)
(***************************************************************************)
LEMMA ChangeLeaves ==
  ASSUME PageInv, NEW c \in Calls, ChangeAnswered(c)
  PROVE  \E k : Leaves(c, k)
<1>1. /\ calls[c] \in PostCall /\ calls[c].at = "change" /\ creds \in Auths
      /\ shown \subseteq {"login", "firstlogin", "app", "admin"}
  BY Places DEF ChangeAnswered, Answered, PageInv, PageTypes
<1>2. CASE calls[c].answer = "ok"
  <2> DEFINE u == IF creds = None THEN Garbage ELSE creds.user
  <2>1. u \in Users \cup {Garbage}
    BY <1>1 DEF Auths, Pairs
  <2>2. creds' = [user |-> u, pw |-> calls[c].new] /\ shown' = shown
    BY <1>2 DEF ChangeAnswered
  <2> HIDE DEF u
  <2>3. creds' \in Pairs
    BY <1>1, <2>1, <2>2 DEF PostCall, Pairs
  <2>4. creds' \in Auths /\ creds' # None
    BY <2>3, NoneIsNoPair DEF Auths
  <2>5. Returns(c, Idle) /\ Proves(calls[c])
    BY <1>1, <1>2 DEF ChangeAnswered, Proves
  <2>6. Leaves(c, Idle)
    BY <1>1, <2>2, <2>4, <2>5, NewCalls DEF Leaves
  <2> QED BY <2>6
<1>3. CASE calls[c].answer # "ok"
  <2>1. UnlessRefused(c, Keeps) /\ Returns(c, Idle)
    BY <1>3 DEF ChangeAnswered
  <2>2. Leaves(c, Idle)
    BY <1>1, <2>1, NewCalls, NoCheck, UnlessRefusedLeaves
  <2> QED BY <2>2
<1> QED BY <1>2, <1>3

LEMMA ContinuesStep ==
  ASSUME PageInv, BeingChecked, NEW c \in Calls, Continues(c)
  PROVE  PageInv' /\ BeingChecked'
<1>1. \E k : Leaves(c, k)
  BY LoginLeaves, FirstLeaves, FirstStatusLeaves, InitLeaves, RelayLeaves, PortNameLeaves,
     ToggleLeaves, ChangeLeaves DEF Continues
<1> QED BY <1>1, LeavesStep

-----------------------------------------------------------------------------
LEMMA NextPage == (PageInv /\ BeingChecked) /\ [Next]_vars => (PageInv /\ BeingChecked)'
<1> SUFFICES ASSUME PageInv, BeingChecked, [Next]_vars PROVE PageInv' /\ BeingChecked'
  OBVIOUS
<1>1. CASE \E c \in Calls : Serves(c)
  BY <1>1, ServesStep
<1>2. CASE \E c \in Calls : Loses(c)
  BY <1>2, LosesStep
<1>3. CASE \E c \in Calls : Continues(c)
  BY <1>3, ContinuesStep
<1>4. CASE \E c \in Calls : Acts(c)
  BY <1>4, ActsStep
<1>5. CASE Elsewhere
  BY <1>5, ElsewhereStep
<1>6. CASE Reloads
  BY <1>6, ReloadsStep
<1>7. CASE UNCHANGED vars
  <2>1. PageInv'
    BY <1>7 DEF vars, PageInv, PageTypes, ProvenExist
  <2>2. BeingChecked'
    BY <1>7 DEF vars, BeingChecked, Covered, SomeSucceed
  <2> QED BY <2>1, <2>2
<1> QED BY <1>1, <1>2, <1>3, <1>4, <1>5, <1>6, <1>7 DEF Next

LEMMA PageHolds == Spec => [](PageInv /\ BeingChecked)
  BY InitPage, NextPage, PTL DEF Spec

(***************************************************************************)
(* Types; loadRelays asks for no port beyond the last, for any number of   *)
(* ports, accounts and functions under way.                                *)
(***************************************************************************)
THEOREM PageTypesHold == Spec => []TypeOK
<1>1. ASSUME PageInv PROVE TypeOK
  <2>1. ASSUME NEW c \in Calls, calls[c] # Idle
        PROVE  IF calls[c].at \in {"init", "relay", "port_name"}
               THEN calls[c].port \in 0 .. PortCount - 1
               ELSE calls[c].auth \in Pairs \cup {None}
    <3>1. calls[c] \in Call
      BY <1>1 DEF PageInv, PageTypes
    <3>2. CASE calls[c].at \in {"init", "relay", "port_name"}
      BY <3>1, <3>2, Places DEF NameCall, RelayCall, PortIds
    <3>3. CASE calls[c].at \notin {"init", "relay", "port_name"}
      BY <2>1, <3>1, <3>3, Places DEF StatusCall, ToggleCall, PostCall, Auths
    <3> QED BY <3>2, <3>3
  <2> QED BY <1>1, <2>1 DEF PageInv, PageTypes, Auths, TypeOK
<1> QED BY <1>1, PageHolds, PTL

LEMMA CoveredOrProven ==
  ASSUME PageInv, BeingChecked, MaxTroubles < PortCount, AtRest
  PROVE  Covered \/ proven
  BY DEF BeingChecked, SomeSucceed, AtRest, Checks, Idle

(***************************************************************************)
(* Where fewer requests fail than there are ports, a page at rest that     *)
(* holds no credentials covers the app, whatever answers came late.        *)
(***************************************************************************)
THEOREM NoCredentialsNoPage ==
  ASSUME MaxTroubles < PortCount
  PROVE  Spec => []CoveredWithoutCredentials
<1>1. PageInv /\ BeingChecked => CoveredWithoutCredentials
  BY CoveredOrProven DEF PageInv, ProvenExist, CoveredWithoutCredentials
<1> QED BY <1>1, PageHolds, PTL

(***************************************************************************)
(* Under the same condition a page at rest is open with credentials only   *)
(* that the controller has accepted, or a password change made of them:    *)
(* the answer of /api/status opens it for a wrong password, but one of the *)
(* requests for the ports is answered, and closes it.                      *)
(***************************************************************************)
THEOREM OpenIsProven ==
  ASSUME MaxTroubles < PortCount
  PROVE  Spec => []OpenOnlyIfProven
<1>1. PageInv /\ BeingChecked => OpenOnlyIfProven
  BY CoveredOrProven DEF OpenOnlyIfProven
<1> QED BY <1>1, PageHolds, PTL
=============================================================================
