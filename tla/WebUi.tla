-------------------------------- MODULE WebUi --------------------------------
(***************************************************************************)
(* The page's login state (application/src/index.html): what the script    *)
(* keeps in sessionStorage, which parts it shows, and its asynchronous     *)
(* functions, each suspended in at most one fetch. They overlap: nothing   *)
(* disables a button while a call is under way, and an answer finds the    *)
(* credentials of now, which need not be those it was asked with.          *)
(*                                                                         *)
(* The controller handles a request in one step, with the accounts of that *)
(* moment (SettingsService.tla has the steps); /api/status and the port    *)
(* names need no authentication. Another session may change the accounts.  *)
(* Of the page only what decides about the login is here: its tables,      *)
(* readings and messages are data, and requests that never answer 401 (the *)
(* readings and all for admins only, which answer 403) decide nothing.     *)
(***************************************************************************)
EXTENDS Naturals

CONSTANTS
  Users,        \* user names, Admin among them
  Admin,        \* the user that the factory settings create, the only admin
  Passwords,    \* passwords, DefaultPassword among them
  DefaultPassword,
  Accounts,     \* bound: the accounts at the beginning
  PortCount,    \* ports of the relay grid
  Calls,        \* bound: functions under way at a time
  MaxTroubles,  \* bound: failed requests, and changes by another session
  None,         \* nothing stored, no password, no answer
  Garbage       \* the user name that atob(null) decodes to

\* Credentials, and what a request can be answered with.
Pairs == [user : Users \cup {Garbage}, pw : Passwords]

Answers == {"ok", "first_login", "401", "error"}

ASSUME AccountsAssumption ==
  /\ Admin \in Users /\ DefaultPassword \in Passwords
  /\ Accounts \in [Users -> Passwords \cup {None}]
ASSUME PagesAssumption == PortCount \in Nat \ {0} /\ MaxTroubles \in Nat
ASSUME NamesAssumption ==
  Garbage \notin Users /\ None \notin Users \cup Passwords \cup Pairs \cup Answers

VARIABLES
  creds,     \* sessionStorage: a user name and a password, or None
  shown,     \* the parts of the page without the class "hidden"
  calls,     \* what each function under way waits for
  pw,        \* the controller's accounts: passwords
  first,     \* the controller's first_login
  troubles,
  proven     \* history: creds were accepted since they were typed

vars == <<creds, shown, calls, pw, first, troubles, proven>>

Idle == [at |-> "idle"]

Accepts(pair) == pair # None /\ pair.user \in Users /\ pw[pair.user] = pair.pw

(***************************************************************************)
(* A fetch: authHeader takes the credentials stored when it is sent.       *)
(***************************************************************************)
Asks(place, pair) == [at |-> place, auth |-> pair, answer |-> None]

(***************************************************************************)
(* A port name: the answer depends on nothing, so it is there at once.     *)
(***************************************************************************)
AsksName(place, port) == [at |-> place, port |-> port, answer |-> "ok"]

Post(place, pair, old, new) ==
  [at |-> place, auth |-> pair, old |-> old, new |-> new, answer |-> None]

AsksRelay(pair, port) ==
  [at |-> "relay", auth |-> pair, port |-> port, answer |-> None]

Returns(c, call) == calls' = [calls EXCEPT ![c] = call]

-----------------------------------------------------------------------------
(***************************************************************************)
(* The controller.                                                         *)
(***************************************************************************)
Status == IF first THEN "first_login" ELSE "ok"

MayChange(call) == Accepts(call.auth) /\ pw[call.auth.user] = call.old

ChangesPassword(call) ==
  /\ pw' = [pw EXCEPT ![call.auth.user] = call.new]
  /\ first' = (first /\ call.auth.user # Admin)

Handles(c, answer) == Returns(c, [calls[c] EXCEPT !.answer = answer])

Pending(c) == calls[c] # Idle /\ calls[c].answer = None

Answered(c, place) == calls[c].at = place /\ calls[c].answer # None

ServesStatus(c) ==
  /\ Pending(c) /\ calls[c].at \in {"login", "first_status"}
  /\ Handles(c, Status)
  /\ UNCHANGED <<pw, first>>

ServesUser(c) ==
  /\ Pending(c) /\ calls[c].at \in {"relay", "toggle"}
  /\ Handles(c, IF Accepts(calls[c].auth) THEN "ok" ELSE "401")
  /\ UNCHANGED <<pw, first>>

ServesPassword(c) ==
  /\ Pending(c) /\ calls[c].at \in {"first", "change"}
  /\ IF MayChange(calls[c]) THEN ChangesPassword(calls[c]) /\ Handles(c, "ok")
     ELSE UNCHANGED <<pw, first>> /\ Handles(c, "401")

Serves(c) ==
  /\ ServesStatus(c) \/ ServesUser(c) \/ ServesPassword(c)
  /\ UNCHANGED <<creds, shown, troubles, proven>>

(***************************************************************************)
(* The network fails before or after the controller handled the request,   *)
(* or it answers 500, which no function tells from that.                   *)
(***************************************************************************)
Loses(c) ==
  /\ calls[c] # Idle /\ calls[c].answer # "error" /\ troubles < MaxTroubles
  /\ Handles(c, "error")
  /\ troubles' = troubles + 1
  /\ UNCHANGED <<creds, shown, pw, first, proven>>

(***************************************************************************)
(* Somebody else changes a password, deletes or creates a user, or resets  *)
(* the settings.                                                           *)
(***************************************************************************)
Elsewhere ==
  /\ troubles < MaxTroubles
  /\ troubles' = troubles + 1
  /\ \/ /\ \E u \in Users, p \in Passwords \cup {None} : pw' = [pw EXCEPT ![u] = p]
        /\ first' \in {first, FALSE}
     \/ /\ pw' = [u \in Users |-> IF u = Admin THEN DefaultPassword ELSE None]
        /\ first' = TRUE
  /\ UNCHANGED <<creds, shown, calls, proven>>

-----------------------------------------------------------------------------
(***************************************************************************)
(* The page.                                                               *)
(***************************************************************************)
Covered == shown \cap {"login", "firstlogin"} # {}

Handle401KeepsApp ==
  /\ creds' = None
  /\ UNCHANGED shown

Handle401 ==
  /\ creds' = None
  /\ shown' = (shown \ {"app"}) \cup {"login"}

(***************************************************************************)
(* api: an answer 401 logs out and throws; a failed fetch throws.          *)
(***************************************************************************)
UnlessRefused(c, then) ==
  IF calls[c].answer = "401" THEN Handle401 ELSE then

Keeps == UNCHANGED <<creds, shown>>

DoLogin(c, u, p) ==
  /\ "login" \in shown
  /\ creds' = [user |-> u, pw |-> p]
  /\ Returns(c, Asks("login", creds'))
  /\ UNCHANGED shown

(***************************************************************************)
(* The old password is the one stored, or "" without credentials, which no *)
(* request gets past.                                                      *)
(***************************************************************************)
DoFirstLogin(c, p) ==
  /\ "firstlogin" \in shown
  /\ Returns(c, Post("first", creds, IF creds = None THEN None ELSE creds.pw, p))
  /\ Keeps

DoChangePassword(c, old, p) ==
  /\ "app" \in shown /\ ~Covered
  /\ Returns(c, Post("change", creds, old, p))
  /\ Keeps

ToggleRelay(c) ==
  /\ "app" \in shown /\ ~Covered
  /\ Returns(c, Asks("toggle", creds))
  /\ Keeps

(***************************************************************************)
(* initApp shows the app before anything has asked for a right, and then   *)
(* asks for a port name to learn whether this is an admin.                 *)
(***************************************************************************)
InitApp(c, hidden) ==
  /\ shown' = (shown \ hidden) \cup {"app"}
  /\ Returns(c, AsksName("init", 0))

(***************************************************************************)
(* doLogin and startup: neither meets a 401, for status needs no right.    *)
(***************************************************************************)
LoginAnswered(c) ==
  /\ Answered(c, "login")
  /\ CASE calls[c].answer = "error"       -> Returns(c, Idle) /\ UNCHANGED shown
       [] calls[c].answer = "first_login" -> /\ Returns(c, Idle)
                                             /\ shown' = (shown \ {"login"}) \cup {"firstlogin"}
       [] calls[c].answer = "ok"          -> InitApp(c, {"login"})
  /\ UNCHANGED creds

FirstAnswered(c) ==
  /\ Answered(c, "first")
  /\ IF calls[c].answer = "ok"
     THEN /\ creds' = [user |-> calls[c].auth.user, pw |-> calls[c].new]
          /\ shown' = shown \ {"firstlogin"}
          /\ Returns(c, Asks("first_status", creds'))
     ELSE UnlessRefused(c, Keeps) /\ Returns(c, Idle)

FirstStatusAnswered(c) ==
  /\ Answered(c, "first_status")
  /\ IF calls[c].answer = "error" THEN Returns(c, Idle) /\ UNCHANGED shown
     ELSE InitApp(c, {})
  /\ UNCHANGED creds

(***************************************************************************)
(* initApp goes on: with the admin section or without, loadRelays starts.  *)
(***************************************************************************)
InitAnsweredAdminsOnly(c) ==
  /\ Answered(c, "init")
  /\ shown' = IF calls[c].answer = "ok" THEN shown \cup {"admin"} ELSE shown
  /\ Returns(c, IF calls[c].answer = "ok" THEN AsksRelay(creds, 0) ELSE Idle)
  /\ UNCHANGED creds

InitAnswered(c) ==
  /\ Answered(c, "init")
  /\ shown' = IF calls[c].answer = "ok" THEN shown \cup {"admin"} ELSE shown
  /\ Returns(c, AsksRelay(creds, 0))
  /\ UNCHANGED creds

NextPortInclusive(port, pair) ==
  IF port + 1 <= PortCount THEN AsksRelay(pair, port + 1) ELSE Idle

NextPort(port, pair) ==
  IF port + 1 < PortCount THEN AsksRelay(pair, port + 1) ELSE Idle

(***************************************************************************)
(* loadRelays: a failure, 401 included, goes on with the next port.        *)
(***************************************************************************)
RelayAnswered(c) ==
  /\ Answered(c, "relay")
  /\ UnlessRefused(c, Keeps)
  /\ Returns(c, IF calls[c].answer = "ok" THEN AsksName("port_name", calls[c].port)
                ELSE NextPort(calls[c].port, creds'))

PortNameAnswered(c) ==
  /\ Answered(c, "port_name")
  /\ Returns(c, NextPort(calls[c].port, creds))
  /\ Keeps

ToggleAnswered(c) ==
  /\ Answered(c, "toggle")
  /\ UnlessRefused(c, Keeps)
  /\ Returns(c, Idle)

(***************************************************************************)
(* The user's name is taken from the credentials of now.                   *)
(***************************************************************************)
ChangeAnswered(c) ==
  /\ Answered(c, "change")
  /\ IF calls[c].answer = "ok"
     THEN /\ creds' = [user |-> IF creds = None THEN Garbage ELSE creds.user,
                       pw |-> calls[c].new]
          /\ UNCHANGED shown
     ELSE UnlessRefused(c, Keeps)
  /\ Returns(c, Idle)

Proves(call) ==
  /\ call.answer = "ok"
  /\ \/ call.at \in {"first", "change"}
     \/ call.at \in {"relay", "toggle"} /\ call.auth = creds

Continues(c) ==
  /\ \/ LoginAnswered(c) \/ FirstAnswered(c) \/ FirstStatusAnswered(c)
     \/ InitAnswered(c) \/ RelayAnswered(c) \/ PortNameAnswered(c)
     \/ ToggleAnswered(c) \/ ChangeAnswered(c)
  /\ proven' = (creds' # None /\ (proven \/ Proves(calls[c])))
  /\ UNCHANGED <<pw, first, troubles>>

Acts(c) ==
  /\ calls[c] = Idle
  /\ \/ \E u \in Users, p \in Passwords : DoLogin(c, u, p)
     \/ \E p \in Passwords : DoFirstLogin(c, p)
     \/ \E old, p \in Passwords : DoChangePassword(c, old, p)
     \/ ToggleRelay(c)
  /\ proven' = (proven /\ creds' = creds)
  /\ UNCHANGED <<pw, first, troubles>>

(***************************************************************************)
(* A reload drops what is under way; sessionStorage survives it, and       *)
(* startup tries what it finds there.                                      *)
(***************************************************************************)
Reloads ==
  /\ shown' = {"login"}
  /\ \E c \in Calls :
       calls' = [k \in Calls |-> IF k = c /\ creds # None THEN Asks("login", creds) ELSE Idle]
  /\ UNCHANGED <<creds, pw, first, troubles, proven>>

Init ==
  /\ creds = None /\ shown = {"login"}
  /\ calls = [c \in Calls |-> Idle]
  /\ pw = Accounts /\ first = TRUE
  /\ troubles = 0 /\ proven = FALSE

Next ==
  \/ \E c \in Calls : Serves(c) \/ Loses(c) \/ Continues(c) \/ Acts(c)
  \/ Elsewhere \/ Reloads

Spec == Init /\ [][Next]_vars

-----------------------------------------------------------------------------
(***************************************************************************)
(* Types; loadRelays asks for ports that exist.                            *)
(***************************************************************************)
TypeOK ==
  /\ creds \in Pairs \cup {None}
  /\ shown \subseteq {"login", "firstlogin", "app", "admin"}
  /\ \A c \in Calls : calls[c] # Idle =>
       IF calls[c].at \in {"init", "relay", "port_name"}
       THEN calls[c].port \in 0 .. PortCount - 1
       ELSE calls[c].auth \in Pairs \cup {None}
  /\ pw \in [Users -> Passwords \cup {None}] /\ first \in BOOLEAN
  /\ troubles \in 0 .. MaxTroubles /\ proven \in BOOLEAN

AtRest == \A c \in Calls : calls[c] = Idle

(***************************************************************************)
(* Once nothing is under way, a page without credentials covers the app:   *)
(* no order of answers, late 401s of forgotten sessions included, leaves   *)
(* it open and asking for nothing. The network may fail, if not for every  *)
(* port (MaxTroubles < PortCount).                                         *)
(***************************************************************************)
CoveredWithoutCredentials == AtRest /\ creds = None => Covered

(***************************************************************************)
(* A wrong password opens the app, for nothing has checked it by then; but *)
(* once nothing is under way the app is open only with credentials that    *)
(* the controller has accepted, or that a password change made of accepted *)
(* ones. The network may fail, if not for every port (MaxTroubles <        *)
(* PortCount).                                                             *)
(***************************************************************************)
OpenOnlyIfProven == AtRest /\ "app" \in shown /\ ~Covered => proven
=============================================================================
