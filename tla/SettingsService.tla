--------------------------- MODULE SettingsService ---------------------------
(***************************************************************************)
(* The settings of the PDU and everything that reads or changes them: the  *)
(* ekv database in flash (application/src/storage.rs), authentication      *)
(* (auth.rs), the admin and status handlers (web/admin.rs, web/status.rs)  *)
(* and the part of main that mounts, formats and seeds the database.       *)
(*                                                                         *)
(* Tasks are the web tasks and Main, which only boots. A step runs one     *)
(* task from one await of the database or the network to the next; any     *)
(* task that does not wait may take the next step, and power may fail      *)
(* between any two steps. ekv is external and modelled as its users see    *)
(* it: any number of read transactions, one write transaction at a time,   *)
(* whose keys appear together at the end of commit. commit waits for the   *)
(* open read transactions, and no read transaction opens while it does.    *)
(* format waits for nobody. A transaction that fails leaves the database   *)
(* as it was; a format that fails leaves it as it was or empty.            *)
(*                                                                         *)
(* A password hash is the password itself: hash_password is taken to be    *)
(* injective, and no password hashes to the 32 zero bytes (Zeroed). The    *)
(* key "init" is written beside admin/first_login and read by nobody, so   *)
(* it is left out.                                                         *)
(***************************************************************************)
EXTENDS Naturals, FiniteSets

CONSTANTS
  WebTasks,     \* the web tasks
  Main,         \* the task that boots
  Users,        \* user names
  Admin,        \* the user "admin"
  Passwords,    \* passwords
  AdminPassword,\* the password "admin"
  Zeroed,       \* the 32 zero bytes a deletion writes over a hash
  Masks,        \* port masks
  NoPorts,      \* the mask 0
  AllPorts,     \* the mask 0xFF
  PortIds,      \* ports that exist
  Names,        \* port names
  DefaultName,  \* the name a port is seeded with
  Missing,      \* what a key that is not in the database reads as
  None,         \* no task, no request
  Requests,     \* the requests of a behaviour, each sent at most once
  MaxCrashes    \* bound: power failures in a behaviour

AdminRequests == {"name", "create", "ports", "delete", "reset"}

\* The kinds of requests, and the types of what each sends with its
\* credentials; a port need not exist.
Request(r) ==
  /\ r.kind \in AdminRequests \cup {"read", "password"}
  /\ r.kind # "read" => r.user \in Users
  /\ r.kind = "name" => r.name \in Names
  /\ r.kind \in {"create", "ports", "delete"} => r.target \in Users
  /\ r.kind \in {"create", "password"} => r.new \in Passwords
  /\ r.kind \in {"create", "ports"} => r.ports \in Masks
  /\ r.kind = "create" => r.admin \in BOOLEAN

ASSUME TasksAssumption == Main \notin WebTasks /\ None \notin WebTasks \cup {Main}
ASSUME DataAssumption ==
  /\ Admin \in Users /\ AdminPassword \in Passwords
  /\ {NoPorts, AllPorts} \subseteq Masks /\ DefaultName \in Names
  /\ Zeroed \notin Passwords
  /\ Missing \notin BOOLEAN /\ Missing \notin Passwords \cup {Zeroed}
  /\ Missing \notin Masks /\ Missing \notin Names
  /\ None \notin Requests /\ \A r \in Requests : Request(r)
  /\ MaxCrashes \in Nat

VARIABLES
  db,        \* what the flash holds: first-login flag, port names, users
  formatted, \* mount finds a database
  pinLow,    \* main saw the factory-reset pin low and has not acted on it
  pc,        \* where each task is
  stage,     \* 0: the transaction of a request; 1 to 3: one of seed_defaults
  cur,       \* the request each web task serves, or None
  got,       \* the keys of its user a task's authentication has read
  readers,   \* tasks with an open read transaction
  writer,    \* the task with the write transaction, or None
  sent,      \* requests that have arrived
  crashes,   \* power failures so far
  view,      \* history: a task's user at the start of its authentication
  deleted,   \* history: the grants a deletion took from each user, until a
             \* create, a ports request or the seeding gives them again
  sole       \* history: who formatted last, if that succeeded and nobody
             \* else committed since

ekv == <<db, formatted, readers, writer>>
task == <<pc, stage, cur, got>>
history == <<view, deleted, sole>>
vars == <<ekv, task, pinLow, sent, crashes, history>>

Tasks == WebTasks \cup {Main}

User == [admin : BOOLEAN \cup {Missing}, ports : Masks \cup {Missing},
         pw : Passwords \cup {Zeroed, Missing}]

NoUser == [admin |-> Missing, ports |-> Missing, pw |-> Missing]

Blank == [first |-> Missing, name |-> [p \in PortIds |-> Missing],
          user |-> [u \in Users |-> NoUser]]

-----------------------------------------------------------------------------
(***************************************************************************)
(* The transactions: the keys a request or a stage of seed_defaults        *)
(* writes. `byAdmin` is what authentication found, not what the database   *)
(* says now.                                                               *)
(***************************************************************************)
DefaultAdmin == [admin |-> TRUE, ports |-> AllPorts, pw |-> AdminPassword]

Defaults == [first |-> TRUE, name |-> [p \in PortIds |-> DefaultName],
             user |-> [u \in Users |-> IF u = Admin THEN DefaultAdmin ELSE NoUser]]

SeededWithoutMask(d, n) ==
  CASE n = 1 -> [d EXCEPT !.first = TRUE]
    [] n = 2 -> [d EXCEPT !.name = [p \in PortIds |-> DefaultName]]
    [] n = 3 -> [d EXCEPT !.user[Admin] = [DefaultAdmin EXCEPT !.ports = NoPorts]]

Seeded(d, n) ==
  CASE n = 1 -> [d EXCEPT !.first = TRUE]
    [] n = 2 -> [d EXCEPT !.name = [p \in PortIds |-> DefaultName]]
    [] n = 3 -> [d EXCEPT !.user[Admin] = DefaultAdmin]

PasswordRestoresUser(d, r, byAdmin) ==
  [d EXCEPT !.first = IF byAdmin THEN FALSE ELSE @,
            !.user[r.user].admin = byAdmin, !.user[r.user].pw = r.new]

PasswordWrites(d, r, byAdmin) ==
  [d EXCEPT !.first = IF byAdmin THEN FALSE ELSE @, !.user[r.user].pw = r.new]

CreateWithoutMask(d, r) ==
  [d EXCEPT !.user[r.target].admin = r.admin, !.user[r.target].pw = r.new]

CreateWrites(d, r) ==
  [d EXCEPT !.user[r.target] = [admin |-> r.admin, ports |-> r.ports, pw |-> r.new]]

(***************************************************************************)
(* handle_delete_user ignores the error of each of its writes and commits  *)
(* what went through.                                                      *)
(***************************************************************************)
Grants == {"admin", "ports"}

UserKeys == Grants \cup {"pw"}

DeleteWrites(d, r, through) ==
  [d EXCEPT !.user[r.target] =
     [admin |-> IF "admin" \in through THEN FALSE ELSE @.admin,
      ports |-> IF "ports" \in through THEN NoPorts ELSE @.ports,
      pw |-> IF "pw" \in through THEN Zeroed ELSE @.pw]]

Written(d, r, byAdmin, through) ==
  CASE r.kind = "name" -> [d EXCEPT !.name[r.port] = r.name]
    [] r.kind = "password" -> PasswordWrites(d, r, byAdmin)
    [] r.kind = "create" -> CreateWrites(d, r)
    [] r.kind = "ports" -> [d EXCEPT !.user[r.target].ports = r.ports]
    [] r.kind = "delete" -> DeleteWrites(d, r, through)

DeletedAfter(n, r, through) ==
  IF n # 0 THEN IF n = 3 THEN [deleted EXCEPT ![Admin] = {}] ELSE deleted
  ELSE CASE r.kind = "delete" -> [deleted EXCEPT ![r.target] = @ \cup (through \cap Grants)]
         [] r.kind = "create" -> [deleted EXCEPT ![r.target] = {}]
         [] r.kind = "ports" -> [deleted EXCEPT ![r.target] = @ \ {"ports"}]
         [] OTHER -> deleted

-----------------------------------------------------------------------------
Goto(t, p) == pc' = [pc EXCEPT ![t] = p]

Ends(t) ==
  /\ Goto(t, "idle")
  /\ cur' = [cur EXCEPT ![t] = None]
  /\ got' = [got EXCEPT ![t] = NoUser]
  /\ view' = [view EXCEPT ![t] = NoUser]
  /\ UNCHANGED stage

Up == pc[Main] = "up"

(***************************************************************************)
(* read_transaction opens unless a commit is waiting or running.           *)
(***************************************************************************)
Committing == writer # None /\ pc[writer] = "commit"

OpenRead(t) == ~Committing /\ readers' = readers \cup {t}

CloseNothing(t) == UNCHANGED readers

CloseRead(t) == readers' = readers \ {t}

(***************************************************************************)
(* A web task gets a request and routes it. GET /api/status and            *)
(* GET /api/port/:n/name are for everybody.                                *)
(***************************************************************************)
Receive(t, r) ==
  /\ Up
  /\ pc[t] = "idle"
  /\ r \notin sent
  /\ sent' = sent \cup {r}
  /\ cur' = [cur EXCEPT ![t] = r]
  /\ Goto(t, IF r.kind = "read" THEN "open" ELSE "auth")
  /\ UNCHANGED <<ekv, stage, got, pinLow, crashes, history>>

ReadOpens(t) ==
  /\ pc[t] = "open"
  /\ OpenRead(t)
  /\ Goto(t, "read")
  /\ UNCHANGED <<db, formatted, writer, stage, cur, got, pinLow, sent, crashes, history>>

ReadEnds(t) ==
  /\ pc[t] = "read"
  /\ CloseRead(t)
  /\ Ends(t)
  /\ UNCHANGED <<db, formatted, writer, pinLow, sent, crashes, deleted, sole>>

-----------------------------------------------------------------------------
(***************************************************************************)
(* AuthUser and AdminUser: three keys read in one read transaction, an     *)
(* await each. The first ends authentication when there is no such user,   *)
(* the others when a key is missing; the hash is compared at the end.      *)
(***************************************************************************)
AuthPw(t) ==
  LET u == db.user[cur[t].user] IN
  /\ pc[t] = "auth"
  /\ OpenRead(t)
  /\ view' = [view EXCEPT ![t] = u]
  /\ got' = [got EXCEPT ![t].pw = u.pw]
  /\ Goto(t, IF u.pw = Missing THEN "denied" ELSE "authAdmin")
  /\ UNCHANGED <<db, formatted, writer, stage, cur, pinLow, sent, crashes, deleted, sole>>

AuthAdminEndsRead(t) ==
  LET u == db.user[cur[t].user] IN
  /\ pc[t] = "authAdmin"
  /\ got' = [got EXCEPT ![t].admin = u.admin]
  /\ Goto(t, IF u.admin = Missing THEN "denied" ELSE "authPorts")
  /\ CloseRead(t)
  /\ UNCHANGED <<db, formatted, writer, stage, cur, pinLow, sent, crashes, history>>

AuthAdmin(t) ==
  LET u == db.user[cur[t].user] IN
  /\ pc[t] = "authAdmin"
  /\ got' = [got EXCEPT ![t].admin = u.admin]
  /\ Goto(t, IF u.admin = Missing THEN "denied" ELSE "authPorts")
  /\ UNCHANGED <<ekv, stage, cur, pinLow, sent, crashes, history>>

(***************************************************************************)
(* Passing authentication: the hash is right and, for the endpoints that   *)
(* take an AdminUser, the user is an admin.                                *)
(***************************************************************************)
EntitledByPassword(t) == got[t].pw = cur[t].pass

Entitled(t) ==
  /\ got[t].pw = cur[t].pass
  /\ cur[t].kind \in AdminRequests => got[t].admin = TRUE

AuthPorts(t) ==
  LET u == db.user[cur[t].user] IN
  /\ pc[t] = "authPorts"
  /\ got' = [got EXCEPT ![t].ports = u.ports]
  /\ Goto(t, IF u.ports # Missing /\ Entitled(t) THEN "body" ELSE "denied")
  /\ CloseRead(t)
  /\ UNCHANGED <<db, formatted, writer, stage, cur, pinLow, sent, crashes, history>>

(***************************************************************************)
(* 401, 403 or 500; the read transaction is dropped on every way out.      *)
(***************************************************************************)
Denied(t) ==
  /\ pc[t] = "denied"
  /\ CloseRead(t)
  /\ Ends(t)
  /\ UNCHANGED <<db, formatted, writer, pinLow, sent, crashes, deleted, sole>>

-----------------------------------------------------------------------------
(***************************************************************************)
(* The body arrives and the handler starts, or it never does: the client   *)
(* is gone, too slow, or sent no valid JSON. An unknown port is refused.   *)
(***************************************************************************)
Handler(r) ==
  CASE r.kind = "reset" -> "format"
    [] r.kind = "password" -> "check"
    [] OTHER -> "begin"

BodyArrives(t) ==
  /\ pc[t] = "body"
  /\ cur[t].kind = "name" => cur[t].port \in PortIds
  /\ Goto(t, Handler(cur[t]))
  /\ UNCHANGED <<ekv, stage, cur, got, pinLow, sent, crashes, history>>

BodyRefused(t) ==
  /\ pc[t] = "body"
  /\ Ends(t)
  /\ UNCHANGED <<ekv, pinLow, sent, crashes, deleted, sole>>

(***************************************************************************)
(* handle_password_change reads the stored hash again, in a transaction of *)
(* its own that ends before the write transaction begins.                  *)
(***************************************************************************)
PasswordOpens(t) ==
  /\ pc[t] = "check"
  /\ OpenRead(t)
  /\ Goto(t, "checking")
  /\ UNCHANGED <<db, formatted, writer, stage, cur, got, pinLow, sent, crashes, history>>

PasswordHoldingRead(t) ==
  /\ pc[t] = "checking"
  /\ UNCHANGED readers
  /\ IF db.user[cur[t].user].pw = cur[t].old
     THEN Goto(t, "begin") /\ UNCHANGED <<stage, cur, got, view>>
     ELSE Ends(t)
  /\ UNCHANGED <<db, formatted, writer, pinLow, sent, crashes, deleted, sole>>

PasswordChecks(t) ==
  /\ pc[t] = "checking"
  /\ CloseRead(t)
  /\ IF db.user[cur[t].user].pw = cur[t].old
     THEN Goto(t, "begin") /\ UNCHANGED <<stage, cur, got, view>>
     ELSE Ends(t)
  /\ UNCHANGED <<db, formatted, writer, pinLow, sent, crashes, deleted, sole>>

-----------------------------------------------------------------------------
(***************************************************************************)
(* The write transaction of a request, or of a stage of seed_defaults.     *)
(* Its writes are visible to nobody before the commit, so they are part of *)
(* the step that commits.                                                  *)
(***************************************************************************)
Begins(t) ==
  /\ pc[t] = "begin"
  /\ writer = None
  /\ writer' = t
  /\ Goto(t, "commit")
  /\ UNCHANGED <<db, formatted, readers, stage, cur, got, pinLow, sent, crashes, history>>

(***************************************************************************)
(* After its commit a request is answered; a stage of seed_defaults goes   *)
(* on to the next one, and after the last main looks at the pin and the    *)
(* factory-reset handler sleeps for 50 ms.                                 *)
(***************************************************************************)
Goes(t) ==
  IF stage[t] = 0 THEN Ends(t)
  ELSE /\ stage' = [stage EXCEPT ![t] = (@ + 1) % 4]
       /\ Goto(t, IF stage[t] < 3 THEN "begin" ELSE IF t = Main THEN "pin" ELSE "restart")
       /\ UNCHANGED <<cur, got, view>>

Commits(t) ==
  /\ pc[t] = "commit"
  /\ readers = {}
  /\ \E through \in SUBSET UserKeys :
       /\ db' = IF stage[t] = 0 THEN Written(db, cur[t], got[t].admin, through)
                ELSE Seeded(db, stage[t])
       /\ deleted' = DeletedAfter(stage[t], cur[t], through)
  /\ sole' = IF sole = t THEN t ELSE None
  /\ writer' = None
  /\ Goes(t)
  /\ UNCHANGED <<formatted, readers, pinLow, sent, crashes>>

(***************************************************************************)
(* A write fails before commit waits for anybody, or the commit fails once *)
(* the readers are gone: the transaction is dropped and the answer is 500. *)
(* Nothing fails because it waits. (In seed_defaults the unwrap panics:    *)
(* PowerFails.)                                                            *)
(***************************************************************************)
WriteFails(t) ==
  /\ pc[t] = "begin"
  /\ stage[t] = 0
  /\ cur[t].kind # "delete"
  /\ writer = None
  /\ Ends(t)
  /\ UNCHANGED <<ekv, pinLow, sent, crashes, deleted, sole>>

CommitFails(t) ==
  /\ pc[t] = "commit"
  /\ stage[t] = 0
  /\ readers = {}
  /\ writer' = None
  /\ Ends(t)
  /\ UNCHANGED <<db, formatted, readers, pinLow, sent, crashes, deleted, sole>>

-----------------------------------------------------------------------------
(***************************************************************************)
(* format erases page by page: it starts by spoiling what mount looks for  *)
(* and ends with an empty database. seed_defaults follows.                 *)
(***************************************************************************)
FormatStarts(t) ==
  /\ pc[t] = "format"
  /\ db' = Blank
  /\ formatted' = FALSE
  /\ sole' = t
  /\ Goto(t, "formatting")
  /\ UNCHANGED <<readers, writer, stage, cur, got, pinLow, sent, crashes, view, deleted>>

FormatEnds(t) ==
  /\ pc[t] = "formatting"
  /\ formatted' = TRUE
  /\ stage' = [stage EXCEPT ![t] = 1]
  /\ Goto(t, "begin")
  /\ UNCHANGED <<db, readers, writer, cur, got, pinLow, sent, crashes, history>>

(***************************************************************************)
(* format fails, having erased nothing, or enough for mount to find an     *)
(* empty database or none. The factory-reset endpoint and the pin ignore   *)
(* that and seed over what is left; init_database, which formats what does *)
(* not mount, panics (PowerFails).                                         *)
(***************************************************************************)
FormatFails(t) ==
  /\ pc[t] = "format"
  /\ t = Main => formatted
  /\ \/ UNCHANGED <<db, formatted>>
     \/ db' = Blank /\ formatted' \in BOOLEAN
  /\ sole' = None
  /\ stage' = [stage EXCEPT ![t] = 1]
  /\ Goto(t, "begin")
  /\ UNCHANGED <<readers, writer, cur, got, pinLow, sent, crashes, view, deleted>>

(***************************************************************************)
(* Boot: the pin is read first; init_database mounts, and formats and      *)
(* seeds when that fails; then a low pin formats and seeds (again). The    *)
(* web tasks are spawned after that.                                       *)
(***************************************************************************)
BootMountsOrPanics ==
  /\ pc[Main] = "mount"
  /\ formatted
  /\ Goto(Main, "pin")
  /\ UNCHANGED <<ekv, stage, cur, got, pinLow, sent, crashes, history>>

BootMounts ==
  /\ pc[Main] = "mount"
  /\ Goto(Main, IF formatted THEN "pin" ELSE "format")
  /\ UNCHANGED <<ekv, stage, cur, got, pinLow, sent, crashes, history>>

BootLooksAtPin ==
  /\ pc[Main] = "pin"
  /\ pinLow' = FALSE
  /\ Goto(Main, IF pinLow THEN "format" ELSE "up")
  /\ UNCHANGED <<ekv, stage, cur, got, sent, crashes, history>>

PowersOn ==
  /\ pinLow' \in BOOLEAN
  /\ pc' = [t \in Tasks |-> IF t = Main THEN "mount" ELSE "idle"]
  /\ stage' = [t \in Tasks |-> 0]
  /\ cur' = [t \in WebTasks |-> None]
  /\ got' = [t \in WebTasks |-> NoUser]
  /\ view' = [t \in WebTasks |-> NoUser]
  /\ readers' = {}
  /\ writer' = None
  /\ sole' = None
  /\ UNCHANGED <<db, formatted, sent, deleted>>

(***************************************************************************)
(* Power fails, a task panics or the watchdog bites.                       *)
(***************************************************************************)
PowerFails ==
  /\ crashes < MaxCrashes
  /\ crashes' = crashes + 1
  /\ PowersOn

(***************************************************************************)
(* sys_reset at the end of handle_factory_reset.                           *)
(***************************************************************************)
Restarts(t) ==
  /\ pc[t] = "restart"
  /\ PowersOn
  /\ UNCHANGED crashes

-----------------------------------------------------------------------------
(***************************************************************************)
(* Flash as it leaves the programmer: firmware, but no database.           *)
(***************************************************************************)
Init ==
  /\ db = Blank
  /\ formatted = FALSE
  /\ pinLow \in BOOLEAN
  /\ pc = [t \in Tasks |-> IF t = Main THEN "mount" ELSE "idle"]
  /\ stage = [t \in Tasks |-> 0]
  /\ cur = [t \in WebTasks |-> None]
  /\ got = [t \in WebTasks |-> NoUser]
  /\ readers = {}
  /\ writer = None
  /\ sent = {}
  /\ crashes = 0
  /\ view = [t \in WebTasks |-> NoUser]
  /\ deleted = [u \in Users |-> {}]
  /\ sole = None

Auth(t) == AuthPw(t) \/ AuthAdmin(t) \/ AuthPorts(t) \/ Denied(t)

(***************************************************************************)
(* What a web task does on its own once it has a request.                  *)
(***************************************************************************)
WebStep(t) ==
  \/ ReadOpens(t) \/ ReadEnds(t)
  \/ Auth(t)
  \/ PasswordOpens(t) \/ PasswordChecks(t)
  \/ Restarts(t)

Writes(t) == Begins(t) \/ Commits(t) \/ FormatStarts(t) \/ FormatEnds(t)

Step(t) == IF t = Main THEN BootMounts \/ BootLooksAtPin \/ Writes(t)
                       ELSE WebStep(t) \/ Writes(t)

Next ==
  \/ \E t \in WebTasks, r \in Requests : Receive(t, r)
  \/ \E t \in WebTasks : BodyArrives(t) \/ BodyRefused(t)
  \/ \E t \in Tasks : Step(t) \/ FormatFails(t)
  \/ \E t \in WebTasks : WriteFails(t) \/ CommitFails(t)
  \/ PowerFails

Safety == Init /\ [][Next]_vars

(***************************************************************************)
(* The executor polls every woken task, flash operations and the sleep     *)
(* complete, and picoserve never drops a handler that runs: weak fairness  *)
(* of every task. Clients, who send the bodies, flash operations that fail *)
(* and power failures owe nothing.                                         *)
(***************************************************************************)
Spec == Safety /\ \A t \in Tasks : WF_vars(Step(t))

-----------------------------------------------------------------------------
(***************************************************************************)
(* Types, and who may hold what: the write transaction belongs to the task *)
(* that commits, and only web tasks that are reading are readers.          *)
(***************************************************************************)
Reading == {"read", "authAdmin", "authPorts", "denied", "checking"}

Places == {"idle", "open", "auth", "body", "check", "begin", "commit",
           "format", "formatting", "restart", "mount", "pin", "up"} \cup Reading

TypeOK ==
  /\ db \in [first : BOOLEAN \cup {Missing},
             name : [PortIds -> Names \cup {Missing}],
             user : [Users -> User]]
  /\ formatted \in BOOLEAN /\ pinLow \in BOOLEAN
  /\ pc \in [Tasks -> Places]
  /\ stage \in [Tasks -> 0..3]
  /\ cur \in [WebTasks -> Requests \cup {None}]
  /\ got \in [WebTasks -> User] /\ view \in [WebTasks -> User]
  /\ sole \in Tasks \cup {None}
  /\ sent \subseteq Requests /\ deleted \in [Users -> SUBSET Grants] /\ crashes \in 0..MaxCrashes
  /\ readers \subseteq {t \in WebTasks : pc[t] \in Reading}
  /\ writer = None \/ (writer \in Tasks /\ pc[writer] = "commit")
  /\ \A t \in WebTasks : pc[t] # "idle" => cur[t] \in Requests

(***************************************************************************)
(* No torn credentials: the password, admin flag and mask that let a       *)
(* request in were one user's at one moment, even when an admin recreates  *)
(* the user, changes the mask or resets the settings meanwhile.            *)
(***************************************************************************)
Admitted == {"body", "check", "checking", "begin", "commit", "format", "formatting", "restart"}

CredentialsAreOneMoment ==
  \A t \in WebTasks : pc[t] \in Admitted =>
    /\ got[t] = view[t]
    /\ view[t].pw = cur[t].pass
    /\ cur[t].kind \in AdminRequests => view[t].admin = TRUE

(***************************************************************************)
(* While the controller serves requests, the settings change only by a     *)
(* step of a task whose own request its sender was entitled to when it     *)
(* authenticated - with the password of a user who existed, an admin       *)
(* unless the request changes that user's own password - and only to what  *)
(* that request writes, or what a reset leaves and seeds.                  *)
(***************************************************************************)
ChangesTo(t, d) ==
  \/ /\ pc[t] = "commit" /\ cur[t].kind # "reset"
     /\ \E through \in SUBSET UserKeys : d = Written(db, cur[t], view[t].admin, through)
  \/ /\ pc[t] = "commit" /\ cur[t].kind = "reset"
     /\ d = Seeded(db, stage[t])
  \/ pc[t] = "format" /\ cur[t].kind = "reset" /\ d = Blank

ChangesAreAuthorized ==
  [][ Up /\ db' # db =>
      \E t \in WebTasks :
        /\ pc'[t] # pc[t]
        /\ ChangesTo(t, db')
        /\ view[t].pw = cur[t].pass
        /\ cur[t].kind # "password" => view[t].admin = TRUE ]_vars

(***************************************************************************)
(* What a deletion took stays taken: the admin flag comes back only by a   *)
(* create, the mask only by a create or a ports request, whatever had      *)
(* authenticated before. (The password is another matter: a change that    *)
(* was under way writes it again, and a login then works, without rights.) *)
(***************************************************************************)
DeletedStayPowerless ==
  \A u \in Users :
    /\ "admin" \in deleted[u] => db.user[u].admin # TRUE
    /\ "ports" \in deleted[u] => db.user[u].ports \in {NoPorts, Missing}

(***************************************************************************)
(* Users are whole: whoever has a password to log in with has an admin     *)
(* flag and a mask, so authentication never fails half-way with a storage  *)
(* error, however many writes of a deletion fail. A factory reset breaks   *)
(* this: a password change that is under way writes its one key into the   *)
(* empty database.                                                         *)
(***************************************************************************)
UsersAreWhole ==
  (\A r \in Requests : r.kind # "reset") =>
    \A u \in Users :
      LET d == db.user[u] IN d.pw \in Passwords => d.admin # Missing /\ d.ports # Missing

SeedingEnds(t) == stage[t] = 3 /\ pc'[t] \in {"pin", "restart"}

(***************************************************************************)
(* Seeding after a format that succeeded leaves exactly the defaults, if   *)
(* no other task commits in between: no earlier setting, open transaction, *)
(* mount error or crash leaves a trace. Seeding over what a failed format  *)
(* left does not promise that (other users stay), but at boot, where main  *)
(* is alone, the login, the port names and the first-login flag are the    *)
(* defaults even then: seeding once more would change nothing.             *)
(***************************************************************************)
SeededAgain(d) == Seeded(Seeded(Seeded(d, 1), 2), 3)

SeedsDefaults ==
  [][ \A t \in Tasks :
        SeedingEnds(t) => /\ sole = t => db' = Defaults
                          /\ t = Main => db' = SeededAgain(db') ]_vars

(***************************************************************************)
(* No request waits for ever for another one: no reader, writer or commit  *)
(* waits for itself or in a circle, and a client that never sends its body *)
(* holds up nobody else. A request ends or waits for its own client.       *)
(***************************************************************************)
Served(r) == \E t \in WebTasks : cur[t] = r /\ pc[t] # "body"

RequestsEnd == \A r \in Requests : Served(r) ~> ~Served(r)

(***************************************************************************)
(* Once power holds, the controller comes up, from whatever the failure    *)
(* left in flash.                                                          *)
(***************************************************************************)
ComesUp == ~Up ~> Up

(***************************************************************************)
(* storage.rs:100 promises that a mount that fails, as on first boot,      *)
(* formats and seeds; so a controller that is up, and where nobody uses    *)
(* the factory-reset endpoint, has its admin.                              *)
(***************************************************************************)
AdminIsSeeded == Up => db.user[Admin].pw # Missing
=============================================================================
