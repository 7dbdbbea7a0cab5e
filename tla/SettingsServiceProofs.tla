----------------------- MODULE SettingsServiceProofs -----------------------
(***************************************************************************)
(* Theorems of SettingsService, for any number of web tasks, users and     *)
(* requests.                                                               *)
(***************************************************************************)
EXTENDS SettingsService, TLAPS

Shape == [first : BOOLEAN \cup {Missing},
          name : [PortIds -> Names \cup {Missing}],
          user : [Users -> User]]

-----------------------------------------------------------------------------
(***************************************************************************)
(* Users, as records of three keys.                                        *)
(***************************************************************************)
LEMMA SameUser ==
  ASSUME NEW x \in User, NEW y \in User, x.admin = y.admin, x.ports = y.ports, x.pw = y.pw
  PROVE  x = y
  BY DEF User

LEMMA NoUserIsUser == NoUser \in User /\ NoUser.admin = Missing /\ NoUser.ports = Missing
  BY DEF NoUser, User

LEMMA UserOf ==
  ASSUME NEW a \in BOOLEAN \cup {Missing}, NEW p \in Masks \cup {Missing},
         NEW w \in Passwords \cup {Zeroed, Missing}
  PROVE  [admin |-> a, ports |-> p, pw |-> w] \in User
  BY DEF User

(***************************************************************************)
(* One user's record replaced.                                             *)
(***************************************************************************)
LEMMA ReplaceUser ==
  ASSUME NEW d \in Shape, NEW v \in Users, NEW x \in User
  PROVE  /\ [d EXCEPT !.user[v] = x] \in Shape
         /\ [d EXCEPT !.user[v] = x].user = [d.user EXCEPT ![v] = x]
  BY DEF Shape

(***************************************************************************)
(* One key more of one user read.                                          *)
(***************************************************************************)
GotPw(g, t, w) == [g EXCEPT ![t].pw = w]

LEMMA ReadsPw ==
  ASSUME NEW S, NEW g \in [S -> User], NEW t \in S, NEW x \in User,
         NEW h, h = GotPw(g, t, x.pw)
  PROVE  /\ h \in [S -> User] /\ h[t].pw = x.pw
         /\ \A v \in S : v # t => h[v] = g[v]
<1> DEFINE y == [g[t] EXCEPT !.pw = x.pw]
<1>1. y \in User /\ y.pw = x.pw
  BY DEF User
<1> QED BY <1>1 DEF GotPw

GotAdmin(g, t, w) == [g EXCEPT ![t].admin = w]

LEMMA ReadsAdmin ==
  ASSUME NEW S, NEW g \in [S -> User], NEW t \in S, NEW x \in User,
         NEW h, h = GotAdmin(g, t, x.admin)
  PROVE  /\ h \in [S -> User] /\ h[t].admin = x.admin /\ h[t].pw = g[t].pw
         /\ \A v \in S : v # t => h[v] = g[v]
<1> DEFINE y == [g[t] EXCEPT !.admin = x.admin]
<1>1. y \in User /\ y.admin = x.admin /\ y.pw = g[t].pw
  BY DEF User
<1> QED BY <1>1 DEF GotAdmin

GotPorts(g, t, w) == [g EXCEPT ![t].ports = w]

LEMMA ReadsPorts ==
  ASSUME NEW S, NEW g \in [S -> User], NEW t \in S, NEW x \in User,
         NEW h, h = GotPorts(g, t, x.ports)
  PROVE  /\ h \in [S -> User]
         /\ h[t].ports = x.ports /\ h[t].pw = g[t].pw /\ h[t].admin = g[t].admin
         /\ \A v \in S : v # t => h[v] = g[v]
<1> DEFINE y == [g[t] EXCEPT !.ports = x.ports]
<1>1. y \in User /\ y.ports = x.ports /\ y.pw = g[t].pw /\ y.admin = g[t].admin
  BY DEF User
<1> QED BY <1>1 DEF GotPorts

LEMMA BlankIsShape == Blank \in Shape /\ \A u \in Users : Blank.user[u] = NoUser
  BY NoUserIsUser DEF Blank, Shape

(***************************************************************************)
(* What a transaction may do to a user `o`, who is `e` afterwards: no key  *)
(* disappears, only the grants in `given` appear, and only `revives` gives *)
(* a password to a user without flag or mask.                              *)
(***************************************************************************)
Without(o, g) ==
  /\ g = "admin" => o.admin # TRUE
  /\ g = "ports" => o.ports \in {NoPorts, Missing}

Keeps(o, e, given, revives) ==
  /\ \A g \in Grants : g \notin given /\ Without(o, g) => Without(e, g)
  /\ o.admin # Missing => e.admin # Missing
  /\ o.ports # Missing => e.ports # Missing
  /\ e.pw \in Passwords => \/ o.pw \in Passwords
                           \/ e.admin # Missing /\ e.ports # Missing
                           \/ revives

Given(r, u) ==
  {g \in Grants : /\ r.kind = "create" \/ (r.kind = "ports" /\ g = "ports")
                  /\ u = r.target}
Revives(r, u) == r.kind = "password" /\ u = r.user

LEMMA WrittenNames ==
  ASSUME NEW d \in Shape, NEW r \in Requests, r.kind = "name", NEW b, NEW w
  PROVE  Written(d, r, b, w) \in Shape /\ Written(d, r, b, w).user = d.user
<1>1. Written(d, r, b, w) = [d EXCEPT !.name[r.port] = r.name]
  BY DEF Written
<1>2. r.name \in Names
  BY DataAssumption DEF DataAssumption, Request
<1> QED BY <1>1, <1>2 DEF Shape

LEMMA WrittenPassword ==
  ASSUME NEW d \in Shape, NEW r \in Requests, r.kind = "password", NEW b, NEW w
  PROVE  /\ Written(d, r, b, w) \in Shape
         /\ Written(d, r, b, w).user = [d.user EXCEPT ![r.user] = [@ EXCEPT !.pw = r.new]]
<1> DEFINE x == [d.user[r.user] EXCEPT !.pw = r.new]
           f == IF b THEN FALSE ELSE d.first
           us == [d.user EXCEPT ![r.user] = x]
<1>1. r.new \in Passwords /\ r.user \in Users
  BY DataAssumption DEF DataAssumption, Request
<1>2. Written(d, r, b, w) = [d EXCEPT !.first = f, !.user = us]
  BY <1>1 DEF Written, PasswordWrites, Shape
<1>3. x \in User
  BY <1>1 DEF Shape, User
<1>4. f \in BOOLEAN \cup {Missing}
  BY DEF Shape
<1> HIDE DEF x, f
<1>5. us \in [Users -> User]
  BY <1>1, <1>3 DEF Shape
<1> HIDE DEF us
<1>6. [d EXCEPT !.first = f, !.user = us] \in Shape /\ [d EXCEPT !.first = f, !.user = us].user = us
  BY <1>4, <1>5 DEF Shape
<1> QED BY <1>2, <1>6 DEF us, x

LEMMA WrittenCreate ==
  ASSUME NEW d \in Shape, NEW r \in Requests, r.kind = "create", NEW b, NEW w
  PROVE  /\ Written(d, r, b, w) \in Shape
         /\ Written(d, r, b, w).user =
              [d.user EXCEPT ![r.target] = [admin |-> r.admin, ports |-> r.ports, pw |-> r.new]]
<1>1. Written(d, r, b, w) =
        [d EXCEPT !.user[r.target] = [admin |-> r.admin, ports |-> r.ports, pw |-> r.new]]
  BY DEF Written, CreateWrites
<1>2. r.admin \in BOOLEAN /\ r.ports \in Masks /\ r.new \in Passwords /\ r.target \in Users
  BY DataAssumption DEF DataAssumption, Request
<1>3. [admin |-> r.admin, ports |-> r.ports, pw |-> r.new] \in User
  BY <1>2, UserOf
<1> QED BY <1>1, <1>2, <1>3, ReplaceUser

LEMMA WrittenPorts ==
  ASSUME NEW d \in Shape, NEW r \in Requests, r.kind = "ports", NEW b, NEW w
  PROVE  /\ Written(d, r, b, w) \in Shape
         /\ Written(d, r, b, w).user = [d.user EXCEPT ![r.target] = [@ EXCEPT !.ports = r.ports]]
<1> DEFINE x == [d.user[r.target] EXCEPT !.ports = r.ports]
<1>1. r.ports \in Masks /\ r.target \in Users
  BY DataAssumption DEF DataAssumption, Request
<1>2. Written(d, r, b, w) = [d EXCEPT !.user[r.target] = x]
  BY <1>1 DEF Written, Shape
<1>3. x \in User
  BY <1>1 DEF Shape, User
<1> HIDE DEF x
<1>4. /\ Written(d, r, b, w) \in Shape
      /\ Written(d, r, b, w).user = [d.user EXCEPT ![r.target] = x]
  BY <1>1, <1>2, <1>3, ReplaceUser
<1> QED BY <1>4 DEF x

(***************************************************************************)
(* A deleted user, after the writes that went through.                     *)
(***************************************************************************)
Gone(o, w) == [admin |-> IF "admin" \in w THEN FALSE ELSE o.admin,
               ports |-> IF "ports" \in w THEN NoPorts ELSE o.ports,
               pw |-> IF "pw" \in w THEN Zeroed ELSE o.pw]

LEMMA GoneIsUser ==
  ASSUME NEW o \in User, NEW w
  PROVE  /\ Gone(o, w) \in User
         /\ Keeps(o, Gone(o, w), {}, FALSE)
         /\ \A g \in Grants \cap w : Without(Gone(o, w), g)
<1> DEFINE a == IF "admin" \in w THEN FALSE ELSE o.admin
           m == IF "ports" \in w THEN NoPorts ELSE o.ports
           c == IF "pw" \in w THEN Zeroed ELSE o.pw
<1>1. /\ o.admin \in BOOLEAN \cup {Missing} /\ o.ports \in Masks \cup {Missing}
      /\ o.pw \in Passwords \cup {Zeroed, Missing}
  BY DEF User
<1>2. /\ FALSE \in BOOLEAN \cup {Missing} /\ NoPorts \in Masks /\ Zeroed \notin Passwords
      /\ FALSE # Missing /\ NoPorts # Missing
  BY DataAssumption, Zenon DEF DataAssumption
<1>3. a \in BOOLEAN \cup {Missing}
  BY <1>1, <1>2, Zenon
<1>4. m \in Masks \cup {Missing} /\ c \in Passwords \cup {Zeroed, Missing}
  BY <1>1, <1>2
<1>5. "admin" \in w => a # TRUE
  BY Zenon
<1>6. (o.admin # TRUE => a # TRUE) /\ (o.admin # Missing => a # Missing)
  BY <1>2, Zenon
<1>7. /\ o.ports \in {NoPorts, Missing} => m \in {NoPorts, Missing}
      /\ "ports" \in w => m \in {NoPorts, Missing}
      /\ o.ports # Missing => m # Missing
      /\ c \in Passwords => o.pw \in Passwords
  BY <1>2
<1>8. /\ Gone(o, w) = [admin |-> a, ports |-> m, pw |-> c]
      /\ Gone(o, w).admin = a /\ Gone(o, w).ports = m /\ Gone(o, w).pw = c
  BY Zenon DEF Gone
<1> HIDE DEF a, m, c
<1>9. Gone(o, w) \in User
  BY <1>3, <1>4, <1>8, UserOf
<1>10. Keeps(o, Gone(o, w), {}, FALSE)
  BY <1>6, <1>7, <1>8, Zenon DEF Keeps, Without
<1>11. \A g \in Grants \cap w : Without(Gone(o, w), g)
  BY <1>5, <1>7, <1>8, Zenon DEF Without
<1> QED BY <1>9, <1>10, <1>11

LEMMA WrittenDelete ==
  ASSUME NEW d \in Shape, NEW r \in Requests, r.kind = "delete", NEW b, NEW w
  PROVE  /\ Written(d, r, b, w) \in Shape
         /\ Written(d, r, b, w).user = [d.user EXCEPT ![r.target] = Gone(d.user[r.target], w)]
<1> DEFINE x == Gone(d.user[r.target], w)
<1>1. r.target \in Users
  BY DataAssumption DEF DataAssumption, Request
<1>2. Written(d, r, b, w) = [d EXCEPT !.user[r.target] = x]
  BY <1>1 DEF Written, DeleteWrites, Gone, Shape
<1>3. x \in User
  BY <1>1, GoneIsUser DEF Shape
<1> HIDE DEF x
<1>4. /\ Written(d, r, b, w) \in Shape
      /\ Written(d, r, b, w).user = [d.user EXCEPT ![r.target] = x]
  BY <1>1, <1>2, <1>3, ReplaceUser
<1> QED BY <1>4 DEF x

(***************************************************************************)
(* What the transaction of a request does to the users.                    *)
(***************************************************************************)
LEMMA WrittenKeeps ==
  ASSUME NEW d \in Shape, NEW r \in Requests, r.kind \notin {"read", "reset"}, NEW b, NEW w
  PROVE  /\ Written(d, r, b, w) \in Shape
         /\ \A u \in Users :
              Keeps(d.user[u], Written(d, r, b, w).user[u], Given(r, u), Revives(r, u))
         /\ r.kind = "delete" =>
              \A g \in Grants \cap w : Without(Written(d, r, b, w).user[r.target], g)
<1> DEFINE e == Written(d, r, b, w)
<1>1. d.user \in [Users -> User]
  BY DEF Shape
<1>2. r.kind \in {"name", "create", "ports", "delete", "password"}
  BY DataAssumption DEF DataAssumption, Request, AdminRequests
<1>3. CASE r.kind = "name"
  BY <1>3, WrittenNames DEF Keeps
<1>4. CASE r.kind = "password"
  <2>1. e \in Shape /\ e.user = [d.user EXCEPT ![r.user] = [@ EXCEPT !.pw = r.new]]
    BY <1>4, WrittenPassword
  <2> HIDE DEF e
  <2>2. \A u \in Users : /\ e.user[u].admin = d.user[u].admin
                         /\ e.user[u].ports = d.user[u].ports
                         /\ u # r.user => e.user[u].pw = d.user[u].pw
    BY <1>1, <2>1 DEF User
  <2> QED BY <1>4, <2>1, <2>2 DEF Keeps, Without, Revives, e
<1>5. CASE r.kind = "create"
  <2> DEFINE x == [admin |-> r.admin, ports |-> r.ports, pw |-> r.new]
  <2>1. e \in Shape /\ e.user = [d.user EXCEPT ![r.target] = x]
    BY <1>5, WrittenCreate
  <2>2. r.admin # Missing /\ r.ports # Missing
    BY <1>5, DataAssumption DEF DataAssumption, Request
  <2>3. x.admin # Missing /\ x.ports # Missing
    BY <2>2
  <2> HIDE DEF e, x
  <2>4. \A u \in Users : e.user[u] = IF u = r.target THEN x ELSE d.user[u]
    BY <1>1, <2>1
  <2>5. \A u \in Users : u = r.target => Given(r, u) = Grants
    BY <1>5 DEF Given
  <2>6. ASSUME NEW u \in Users
        PROVE  Keeps(d.user[u], e.user[u], Given(r, u), Revives(r, u))
    <3>1. CASE u = r.target
      <4>1. e.user[u] = x /\ Given(r, u) = Grants
        BY <2>4, <2>5, <3>1
      <4> QED BY <2>3, <4>1 DEF Keeps
    <3>2. CASE u # r.target
      <4>1. e.user[u] = d.user[u]
        BY <2>4, <3>2
      <4> QED BY <4>1, Zenon DEF Keeps
    <3> QED BY <3>1, <3>2
  <2> QED BY <1>5, <2>1, <2>6 DEF e
<1>6. CASE r.kind = "ports"
  <2>1. e \in Shape /\ e.user = [d.user EXCEPT ![r.target] = [@ EXCEPT !.ports = r.ports]]
    BY <1>6, WrittenPorts
  <2>2. r.ports # Missing
    BY <1>6, DataAssumption DEF DataAssumption, Request
  <2> HIDE DEF e
  <2>3. \A u \in Users : /\ e.user[u].admin = d.user[u].admin
                         /\ e.user[u].pw = d.user[u].pw
                         /\ e.user[u].ports = IF u = r.target THEN r.ports ELSE d.user[u].ports
    BY <1>1, <2>1 DEF User
  <2>4. \A u \in Users : u = r.target => Given(r, u) = {"ports"}
    BY <1>6 DEF Given, Grants
  <2> QED BY <1>6, <2>1, <2>2, <2>3, <2>4 DEF Keeps, Without, Grants, e
<1>7. CASE r.kind = "delete"
  <2>1. e \in Shape /\ e.user = [d.user EXCEPT ![r.target] = Gone(d.user[r.target], w)]
    BY <1>7, WrittenDelete
  <2>2. r.target \in Users
    BY <1>7, DataAssumption DEF DataAssumption, Request
  <2> HIDE DEF e
  <2>3. \A u \in Users : e.user[u] = IF u = r.target THEN Gone(d.user[u], w) ELSE d.user[u]
    BY <1>1, <2>1
  <2>4. \A u \in Users : /\ Keeps(d.user[u], Gone(d.user[u], w), {}, FALSE)
                         /\ \A g \in Grants \cap w : Without(Gone(d.user[u], w), g)
    BY <1>1, GoneIsUser
  <2>5. \A u \in Users : Given(r, u) = {} /\ Revives(r, u) = FALSE
    BY <1>7 DEF Given, Revives
  <2>6. \A u \in Users : Keeps(d.user[u], d.user[u], {}, FALSE)
    BY DEF Keeps
  <2> QED BY <2>1, <2>2, <2>3, <2>4, <2>5, <2>6 DEF e
<1> QED BY <1>2, <1>3, <1>4, <1>5, <1>6, <1>7

(***************************************************************************)
(* What a stage of seed_defaults does to them.                             *)
(***************************************************************************)
LEMMA DefaultAdminIsUser ==
  /\ DefaultAdmin \in User
  /\ DefaultAdmin.admin # Missing /\ DefaultAdmin.ports # Missing
<1>1. TRUE \in BOOLEAN \cup {Missing} /\ AllPorts \in Masks /\ AdminPassword \in Passwords
  BY DataAssumption, Zenon DEF DataAssumption
<1>2. DefaultAdmin \in User
  BY <1>1, UserOf DEF DefaultAdmin
<1>3. DefaultAdmin.admin = TRUE /\ DefaultAdmin.ports = AllPorts
  BY DEF DefaultAdmin
<1>4. TRUE # Missing /\ AllPorts # Missing
  BY DataAssumption, Zenon DEF DataAssumption
<1> QED BY <1>2, <1>3, <1>4

LEMMA SeededFirst ==
  ASSUME NEW d \in Shape
  PROVE  /\ Seeded(d, 1) = [first |-> TRUE, name |-> d.name, user |-> d.user]
         /\ Seeded(d, 1) \in Shape /\ Seeded(d, 1).user = d.user
<1> DEFINE y == TRUE
<1>1. y \in BOOLEAN \cup {Missing}
  BY Zenon
<1>2. Seeded(d, 1) = [d EXCEPT !.first = y]
  BY DEF Seeded
<1> HIDE DEF y
<1>3. [d EXCEPT !.first = y] = [first |-> y, name |-> d.name, user |-> d.user]
  BY DEF Shape
<1>4. [first |-> y, name |-> d.name, user |-> d.user] \in Shape
  BY <1>1 DEF Shape
<1> QED BY <1>2, <1>3, <1>4 DEF y

DefaultNames == [p \in PortIds |-> DefaultName]

LEMMA SeededNames ==
  ASSUME NEW d \in Shape
  PROVE  /\ Seeded(d, 2) = [first |-> d.first, name |-> DefaultNames, user |-> d.user]
         /\ Seeded(d, 2) \in Shape /\ Seeded(d, 2).user = d.user
<1>1. DefaultNames \in [PortIds -> Names \cup {Missing}]
  BY DataAssumption DEF DataAssumption, DefaultNames
<1>2. Seeded(d, 2) = [d EXCEPT !.name = DefaultNames]
  BY DEF Seeded, DefaultNames
<1>3. [d EXCEPT !.name = DefaultNames] = [first |-> d.first, name |-> DefaultNames, user |-> d.user]
  BY DEF Shape
<1>4. [first |-> d.first, name |-> DefaultNames, user |-> d.user] \in Shape
  BY <1>1 DEF Shape
<1> QED BY <1>2, <1>3, <1>4

LEMMA SeededAdmin ==
  ASSUME NEW d \in Shape
  PROVE  /\ Seeded(d, 3) =
              [first |-> d.first, name |-> d.name, user |-> [d.user EXCEPT ![Admin] = DefaultAdmin]]
         /\ Seeded(d, 3) \in Shape
         /\ Seeded(d, 3).user = [d.user EXCEPT ![Admin] = DefaultAdmin]
<1>1. Admin \in Users
  BY DataAssumption DEF DataAssumption
<1>2. Seeded(d, 3) = [d EXCEPT !.user[Admin] = DefaultAdmin]
  BY DEF Seeded
<1>3. Seeded(d, 3) \in Shape /\ Seeded(d, 3).user = [d.user EXCEPT ![Admin] = DefaultAdmin]
  <2>1. /\ [d EXCEPT !.user[Admin] = DefaultAdmin] \in Shape
        /\ [d EXCEPT !.user[Admin] = DefaultAdmin].user = [d.user EXCEPT ![Admin] = DefaultAdmin]
    BY <1>1, DefaultAdminIsUser, ReplaceUser, Zenon
  <2> QED BY <1>2, <2>1, Zenon
<1>4. [d EXCEPT !.user[Admin] = DefaultAdmin] =
        [first |-> d.first, name |-> d.name, user |-> [d.user EXCEPT ![Admin] = DefaultAdmin]]
  BY DEF Shape
<1> QED BY <1>2, <1>3, <1>4

GivenBySeed(n, u) == IF n = 3 /\ u = Admin THEN Grants ELSE {}

LEMMA SeededKeeps ==
  ASSUME NEW d \in Shape, NEW n \in 1 .. 3
  PROVE  /\ Seeded(d, n) \in Shape
         /\ \A u \in Users :
              Keeps(d.user[u], Seeded(d, n).user[u], GivenBySeed(n, u), FALSE)
<1>1. CASE n = 1
  BY <1>1, SeededFirst DEF Keeps
<1>2. CASE n = 2
  BY <1>2, SeededNames DEF Keeps
<1>3. CASE n = 3
  <2> DEFINE e == Seeded(d, 3)
  <2>1. e \in Shape /\ e.user = [d.user EXCEPT ![Admin] = DefaultAdmin]
    BY SeededAdmin
  <2> HIDE DEF e
  <2>2. \A u \in Users : e.user[u] = IF u = Admin THEN DefaultAdmin ELSE d.user[u]
    BY <2>1 DEF Shape
  <2>3. \A u \in Users : Keeps(d.user[u], e.user[u], GivenBySeed(n, u), FALSE)
    BY <1>3, <2>2, DefaultAdminIsUser DEF Keeps, GivenBySeed
  <2> QED BY <1>3, <2>1, <2>3 DEF e
<1>4. n = 1 \/ n = 2 \/ n = 3
  OBVIOUS
<1> QED BY <1>1, <1>2, <1>3, <1>4, Zenon

(***************************************************************************)
(* The database of a seed that nobody disturbs, when stage n begins.       *)
(***************************************************************************)
SoFar(n) ==
  [first |-> IF n = 1 THEN Missing ELSE TRUE,
   name |-> IF n = 3 THEN DefaultNames ELSE Blank.name,
   user |-> Blank.user]

LEMMA SeedsFromBlank ==
  /\ Blank = SoFar(1)
  /\ Seeded(SoFar(1), 1) = SoFar(2)
  /\ Seeded(SoFar(2), 2) = SoFar(3)
  /\ Seeded(SoFar(3), 3) = Defaults
<1>1. Blank = SoFar(1)
  BY DEF Blank, SoFar
<1>2. Seeded(SoFar(1), 1) = SoFar(2)
  <2>1. SoFar(2) = [first |-> TRUE, name |-> Blank.name, user |-> Blank.user]
    BY DEF SoFar
  <2> QED BY <1>1, <2>1, BlankIsShape, SeededFirst
<1>3. Seeded(SoFar(2), 2) = SoFar(3)
  <2>1. SoFar(2) \in Shape
    BY <1>1, <1>2, BlankIsShape, SeededFirst
  <2>2. Seeded(SoFar(2), 2) = [first |-> SoFar(2).first, name |-> DefaultNames, user |-> SoFar(2).user]
    BY <2>1, SeededNames
  <2>3. 2 # 1 /\ 3 # 1
    OBVIOUS
  <2>4. SoFar(3) = [first |-> TRUE, name |-> DefaultNames, user |-> Blank.user]
    BY <2>3, Zenon DEF SoFar
  <2>5. SoFar(2).first = TRUE /\ SoFar(2).user = Blank.user
    BY <2>3, Zenon DEF SoFar
  <2> QED BY <2>2, <2>4, <2>5, Zenon
<1>4. Seeded(SoFar(3), 3) = Defaults
  <2>1. SoFar(3) \in Shape
    BY <1>1, <1>2, <1>3, BlankIsShape, SeededFirst, SeededNames
  <2>2. Seeded(SoFar(3), 3) =
          [first |-> SoFar(3).first, name |-> SoFar(3).name,
           user |-> [SoFar(3).user EXCEPT ![Admin] = DefaultAdmin]]
    BY <2>1, SeededAdmin
  <2>3. [Blank.user EXCEPT ![Admin] = DefaultAdmin] =
          [u \in Users |-> IF u = Admin THEN DefaultAdmin ELSE NoUser]
    BY DEF Blank
  <2>4. 3 # 1
    OBVIOUS
  <2>5. /\ SoFar(3).first = TRUE /\ SoFar(3).name = DefaultNames
        /\ SoFar(3).user = Blank.user
    BY <2>4, Zenon DEF SoFar
  <2>6. Defaults = [first |-> TRUE, name |-> DefaultNames,
                    user |-> [u \in Users |-> IF u = Admin THEN DefaultAdmin ELSE NoUser]]
    BY Zenon DEF Defaults, DefaultNames
  <2> QED BY <2>2, <2>3, <2>5, <2>6, Zenon
<1> QED BY <1>1, <1>2, <1>3, <1>4

(***************************************************************************)
(* A stage undoes none of the earlier ones, and repeats itself.            *)
(***************************************************************************)
Yes == TRUE

LEMMA SeededFields ==
  ASSUME NEW d \in Shape
  PROVE  /\ Seeded(d, 1).first = Yes /\ Seeded(d, 1).name = d.name /\ Seeded(d, 1).user = d.user
         /\ Seeded(d, 2).first = d.first /\ Seeded(d, 2).name = DefaultNames
         /\ Seeded(d, 2).user = d.user
         /\ Seeded(d, 3).first = d.first /\ Seeded(d, 3).name = d.name
         /\ Seeded(d, 3).user = [d.user EXCEPT ![Admin] = DefaultAdmin]
<1>1. Seeded(d, 1) = [first |-> Yes, name |-> d.name, user |-> d.user]
  BY SeededFirst DEF Yes
<1> QED BY <1>1, SeededNames, SeededAdmin

LEMMA SameShape ==
  ASSUME NEW x \in Shape, NEW y \in Shape, x.first = y.first, x.name = y.name, x.user = y.user
  PROVE  x = y
  BY DEF Shape

LEMMA SeedsAgain ==
  ASSUME NEW d \in Shape, NEW n \in 1 .. 3, NEW k \in 1 .. n,
         k = n \/ Seeded(d, k) = d
  PROVE  Seeded(Seeded(d, n), k) = Seeded(d, n)
<1> DEFINE e == Seeded(d, n)
           f == Seeded(e, k)
<1>1. e \in Shape
  BY SeededKeeps
<1>2. f \in Shape
  <2>1. k \in 1 .. 3
    OBVIOUS
  <2> HIDE DEF e
  <2> QED BY <1>1, <2>1, SeededKeeps
<1>3. d.user \in [Users -> User] /\ Admin \in Users
  BY DataAssumption DEF Shape, DataAssumption
<1>4. f.first = e.first /\ f.name = e.name /\ f.user = e.user
  <2>1. CASE k = 1
    <3>1. f.first = Yes /\ f.name = e.name /\ f.user = e.user
      BY <1>1, <2>1, SeededFields
    <3>2. e.first = Yes
      <4>1. n = 1 \/ d.first = Yes
        BY <2>1, SeededFields
      <4>2. n = 1 \/ n = 2 \/ n = 3
        OBVIOUS
      <4> QED BY <4>1, <4>2, SeededFields
    <3> QED BY <3>1, <3>2
  <2>2. CASE k = 2
    <3>1. f.first = e.first /\ f.name = DefaultNames /\ f.user = e.user
      BY <1>1, <2>2, SeededFields
    <3>2. e.name = DefaultNames
      <4>1. n = 2 \/ d.name = DefaultNames
        BY <2>2, SeededFields
      <4>2. n = 2 \/ n = 3
        BY <2>2
      <4> QED BY <4>1, <4>2, SeededFields
    <3> QED BY <3>1, <3>2
  <2>3. CASE k = 3
    <3>1. n = 3
      BY <2>3
    <3>2. f.first = e.first /\ f.name = e.name
          /\ f.user = [e.user EXCEPT ![Admin] = DefaultAdmin]
      BY <1>1, <2>3, SeededFields
    <3>3. e.user = [d.user EXCEPT ![Admin] = DefaultAdmin]
      BY <3>1, SeededFields
    <3> HIDE DEF e, f
    <3>4. [e.user EXCEPT ![Admin] = DefaultAdmin] = e.user
      BY <1>3, <3>3
    <3> QED BY <3>2, <3>4
  <2>4. k = 1 \/ k = 2 \/ k = 3
    OBVIOUS
  <2> QED BY <2>1, <2>2, <2>3, <2>4
<1> HIDE DEF e, f
<1>5. f = e
  BY <1>1, <1>2, <1>4, SameShape
<1> QED BY <1>5 DEF e, f

-----------------------------------------------------------------------------
(***************************************************************************)
(* The inductive invariant: types; where a request of each kind can be;    *)
(* what authentication has established so far; what a seed has written.    *)
(***************************************************************************)
DataTypes ==
  /\ db \in Shape
  /\ formatted \in BOOLEAN /\ pinLow \in BOOLEAN
  /\ sole \in Tasks \cup {None}
  /\ sent \subseteq Requests /\ deleted \in [Users -> SUBSET Grants] /\ crashes \in 0 .. MaxCrashes

ControlTypes ==
  /\ pc \in [Tasks -> Places]
  /\ stage \in [Tasks -> 0 .. 3]
  /\ cur \in [WebTasks -> Requests \cup {None}]
  /\ got \in [WebTasks -> User] /\ view \in [WebTasks -> User]

LockTypes ==
  /\ readers \subseteq {t \in WebTasks : pc[t] \in Reading}
  /\ writer = None \/ (writer \in Tasks /\ pc[writer] = "commit")

(***************************************************************************)
(* A web task commits for a request in stage 0 and seeds in the others.    *)
(***************************************************************************)
WebControl(t) ==
  /\ pc[t] \notin {"mount", "pin", "up"}
  /\ pc[t] \notin {"begin", "commit"} => stage[t] = 0
  /\ pc[t] # "idle" => cur[t] \in Requests
  /\ pc[t] \in {"open", "read"} => cur[t].kind = "read"
  /\ pc[t] \notin {"idle", "open", "read"} => cur[t].kind # "read"
  /\ pc[t] \in {"check", "checking"} => cur[t].kind = "password"
  /\ pc[t] \in {"format", "formatting", "restart"} => cur[t].kind = "reset"
  /\ pc[t] \in {"begin", "commit"} => (stage[t] = 0 <=> cur[t].kind # "reset")

(***************************************************************************)
(* Between its reads, authentication holds a read transaction, so nothing  *)
(* is committed: its user is who he was, or a format has removed him.      *)
(***************************************************************************)
Authenticating(t) ==
  /\ pc[t] \in {"authAdmin", "authPorts"} =>
       /\ t \in readers
       /\ got[t].pw = view[t].pw
       /\ db.user[cur[t].user] = view[t] \/ db.user[cur[t].user] = NoUser
  /\ pc[t] = "authPorts" => got[t].admin = view[t].admin /\ got[t].admin # Missing

Credentials(t) ==
  pc[t] \in Admitted =>
    /\ got[t] = view[t]
    /\ view[t].pw = cur[t].pass
    /\ cur[t].kind \in AdminRequests => view[t].admin = TRUE

(***************************************************************************)
(* Without resets, whoever was let in keeps his flag and mask, so that a   *)
(* password change gives a password to nobody who lacks them.              *)
(***************************************************************************)
NoResets == \A r \in Requests : r.kind # "reset"

Backed(t) ==
  NoResets /\ pc[t] \in Admitted =>
    db.user[cur[t].user].admin # Missing /\ db.user[cur[t].user].ports # Missing

TaskInv(t) == WebControl(t) /\ Authenticating(t) /\ Credentials(t) /\ Backed(t)

(***************************************************************************)
(* While main boots no web task exists, so nobody interferes with its      *)
(* seed: the stages it has behind it are in the database.                  *)
(***************************************************************************)
MainInv ==
  /\ pc[Main] \in {"mount", "pin", "up", "format", "formatting", "begin", "commit"}
  /\ pc[Main] \in {"begin", "commit"} <=> stage[Main] # 0
  /\ pc[Main] # "up" => \A t \in WebTasks : pc[t] = "idle"
  /\ \A k \in 1 .. 3 : k < stage[Main] => Seeded(db, k) = db

SeedOf(t) ==
  /\ pc[t] = "formatting" => db = Blank
  /\ pc[t] \in {"begin", "commit"} /\ stage[t] # 0 => db = SoFar(stage[t])

SeedInv == \A t \in Tasks : sole = t => SeedOf(t)

SettingsInv ==
  /\ DataTypes /\ ControlTypes /\ LockTypes
  /\ \A t \in WebTasks : TaskInv(t)
  /\ MainInv /\ SeedInv
  /\ DeletedStayPowerless /\ UsersAreWhole

LEMMA TasksAre ==
  /\ Main \in Tasks /\ WebTasks \subseteq Tasks
  /\ Main \notin WebTasks /\ None \notin Tasks
  BY TasksAssumption DEF TasksAssumption, Tasks

LEMMA RequestsAre ==
  ASSUME NEW r \in Requests
  PROVE  /\ r.kind \in {"read", "password", "name", "create", "ports", "delete", "reset"}
         /\ r.kind # "read" => r.user \in Users
         /\ r.kind \in {"create", "ports", "delete"} => r.target \in Users
  BY DataAssumption DEF DataAssumption, Request, AdminRequests

(***************************************************************************)
(* A restart, and the first start, find all web tasks idle.                *)
(***************************************************************************)
IdleAll ==
  /\ pc = [t \in Tasks |-> IF t = Main THEN "mount" ELSE "idle"]
  /\ stage = [t \in Tasks |-> 0]
  /\ cur = [t \in WebTasks |-> None]
  /\ got = [t \in WebTasks |-> NoUser] /\ view = [t \in WebTasks |-> NoUser]
  /\ readers = {} /\ writer = None /\ sole = None

Controlled ==
  /\ ControlTypes /\ LockTypes /\ MainInv /\ SeedInv
  /\ \A t \in WebTasks : TaskInv(t)

LEMMA IdleIsFine == IdleAll => Controlled
<1> SUFFICES ASSUME IdleAll PROVE Controlled
  OBVIOUS
<1>1. ControlTypes
  BY NoUserIsUser DEF IdleAll, ControlTypes, Places
<1>2. LockTypes
  BY DEF IdleAll, LockTypes
<1>3. \A t \in WebTasks : pc[t] = "idle" /\ stage[t] = 0
  BY TasksAre DEF IdleAll
<1>4. \A t \in WebTasks : TaskInv(t)
  BY <1>3 DEF TaskInv, WebControl, Authenticating, Credentials, Backed, Admitted
<1>5. pc[Main] = "mount" /\ stage[Main] = 0
  BY TasksAre DEF IdleAll
<1>6. MainInv
  <2>1. \A k \in 1 .. 3 : ~(k < stage[Main])
    BY <1>5
  <2> QED BY <1>3, <1>5, <2>1 DEF MainInv
<1>7. SeedInv
  BY TasksAre DEF IdleAll, SeedInv
<1> QED BY <1>1, <1>2, <1>4, <1>6, <1>7 DEF Controlled

LEMMA BlankIsHarmless ==
  \A u \in Users : /\ Blank.user[u].admin # TRUE /\ Blank.user[u].ports = Missing
                  /\ Blank.user[u].pw \notin Passwords
<1>1. NoUser.admin = Missing /\ NoUser.ports = Missing /\ NoUser.pw = Missing
  BY DEF NoUser
<1>2. Missing # TRUE /\ Missing \notin Passwords
  BY DataAssumption, Zenon DEF DataAssumption
<1> QED BY <1>1, <1>2, BlankIsShape

LEMMA InitSettings == Init => SettingsInv
<1> SUFFICES ASSUME Init PROVE SettingsInv
  OBVIOUS
<1>1. DataTypes
  <2>1. formatted \in BOOLEAN /\ pinLow \in BOOLEAN
    BY Zenon DEF Init
  <2>2. deleted \in [Users -> SUBSET Grants]
    BY DEF Init
  <2> QED BY <2>1, <2>2, BlankIsShape, DataAssumption DEF DataAssumption, Init, DataTypes
<1>2. IdleAll
  BY DEF Init, IdleAll
<1>3. DeletedStayPowerless
  <2>1. \A u \in Users : deleted[u] = {}
    BY DEF Init
  <2> QED BY <2>1 DEF DeletedStayPowerless
<1>4. UsersAreWhole
  BY BlankIsHarmless DEF Init, UsersAreWhole
<1> QED BY <1>1, <1>2, <1>3, <1>4, IdleIsFine DEF SettingsInv, Controlled

LEMMA PowersOnStep ==
  ASSUME SettingsInv, PowersOn, crashes' \in 0 .. MaxCrashes
  PROVE  SettingsInv'
<1>1. DataTypes'
  <2>1. pinLow' \in BOOLEAN /\ formatted' \in BOOLEAN
    BY Zenon DEF SettingsInv, DataTypes, PowersOn
  <2> QED BY <2>1 DEF SettingsInv, DataTypes, PowersOn
<1>2. IdleAll'
  BY DEF PowersOn, IdleAll
<1>3. Controlled'
  BY <1>2, IdleIsFine, PTL
<1>4. DeletedStayPowerless' /\ UsersAreWhole'
  BY DEF SettingsInv, PowersOn, DeletedStayPowerless, UsersAreWhole
<1> QED BY <1>1, <1>3, <1>4 DEF SettingsInv, Controlled

-----------------------------------------------------------------------------
(***************************************************************************)
(* What a step of one task leaves of the others.                           *)
(***************************************************************************)
Alone(t) ==
  /\ \A v \in Tasks : v # t => pc'[v] = pc[v] /\ stage'[v] = stage[v]
  /\ \A v \in WebTasks : v # t => /\ cur'[v] = cur[v] /\ got'[v] = got[v] /\ view'[v] = view[v]
                                  /\ v \in readers => v \in readers'

LEMMA OthersStay ==
  ASSUME SettingsInv, NEW t, Alone(t), db' = db, NEW v \in WebTasks, v # t
  PROVE  TaskInv(v)'
<1>1. /\ pc'[v] = pc[v] /\ stage'[v] = stage[v] /\ cur'[v] = cur[v]
      /\ got'[v] = got[v] /\ view'[v] = view[v] /\ (v \in readers => v \in readers')
  BY TasksAre DEF Alone
<1>2. WebControl(v)'
  BY <1>1 DEF SettingsInv, TaskInv, WebControl
<1>3. Authenticating(v)'
  BY <1>1 DEF SettingsInv, TaskInv, Authenticating
<1>4. Credentials(v)'
  BY <1>1 DEF SettingsInv, TaskInv, Credentials
<1>5. Backed(v)'
  BY <1>1 DEF SettingsInv, TaskInv, Backed
<1> QED BY <1>2, <1>3, <1>4, <1>5 DEF TaskInv

LEMMA WebIsUp ==
  ASSUME SettingsInv, NEW t \in WebTasks, pc[t] # "idle"
  PROVE  Up
  BY DEF SettingsInv, MainInv, Up

(***************************************************************************)
(* A step of a web task that writes nothing to flash and neither begins    *)
(* nor continues a seed.                                                   *)
(***************************************************************************)
LEMMA WebMoves ==
  ASSUME SettingsInv, NEW t \in WebTasks, Up, Alone(t), UNCHANGED <<db, deleted, sole>>,
         TaskInv(t)', pc'[t] # "formatting",
         pc'[t] \in {"begin", "commit"} /\ stage'[t] # 0 =>
           pc[t] \in {"begin", "commit"} /\ stage[t] = stage'[t]
  PROVE  /\ \A v \in WebTasks : TaskInv(v)'
         /\ MainInv' /\ SeedInv'
         /\ DeletedStayPowerless' /\ UsersAreWhole'
<1>1. \A v \in WebTasks : TaskInv(v)'
  BY OthersStay
<1>2. pc'[Main] = pc[Main] /\ stage'[Main] = stage[Main] /\ pc[Main] = "up"
  BY TasksAre DEF Alone, Up
<1>3. MainInv'
  BY <1>2 DEF SettingsInv, MainInv
<1>4. SeedInv'
  <2> SUFFICES ASSUME NEW v \in Tasks, sole' = v PROVE SeedOf(v)'
    BY DEF SeedInv
  <2>1. SeedOf(v)
    BY DEF SettingsInv, SeedInv
  <2>2. CASE v # t
    <3>1. pc'[v] = pc[v] /\ stage'[v] = stage[v]
      BY <2>2 DEF Alone
    <3> QED BY <2>1, <3>1 DEF SeedOf
  <2>3. CASE v = t
    BY <2>1, <2>3 DEF SeedOf
  <2> QED BY <2>2, <2>3
<1>5. DeletedStayPowerless' /\ UsersAreWhole'
  BY DEF SettingsInv, DeletedStayPowerless, UsersAreWhole
<1> QED BY <1>1, <1>3, <1>4, <1>5

(***************************************************************************)
(* A request ends: nothing is known of its task any more.                  *)
(***************************************************************************)
LEMMA EndsStep ==
  ASSUME SettingsInv, NEW t \in WebTasks, Ends(t), stage[t] = 0
  PROVE  /\ ControlTypes' /\ TaskInv(t)'
         /\ pc'[t] = "idle" /\ stage' = stage
         /\ \A v \in Tasks : v # t => pc'[v] = pc[v]
         /\ \A v \in WebTasks :
              v # t => cur'[v] = cur[v] /\ got'[v] = got[v] /\ view'[v] = view[v]
<1> USE DEF SettingsInv, ControlTypes
<1>1. ControlTypes'
  BY NoUserIsUser DEF Ends, Goto, Places
<1>2. pc'[t] = "idle" /\ stage' = stage /\ \A v \in Tasks : v # t => pc'[v] = pc[v]
  BY TasksAre DEF Ends, Goto
<1>3. \A v \in WebTasks : v # t => cur'[v] = cur[v] /\ got'[v] = got[v] /\ view'[v] = view[v]
  BY DEF Ends
<1>4. TaskInv(t)'
  BY <1>2 DEF TaskInv, WebControl, Authenticating, Credentials, Backed, Admitted
<1> QED BY <1>1, <1>2, <1>3, <1>4

(***************************************************************************)
(* A request ends that neither writes nor holds the write transaction.     *)
(***************************************************************************)
LEMMA QuietEnd ==
  ASSUME SettingsInv, NEW t \in WebTasks, pc[t] \notin {"idle", "begin", "commit"}, Ends(t),
         readers' = readers \/ readers' = readers \ {t}, t \notin readers',
         UNCHANGED <<db, formatted, writer, pinLow, sent, crashes, deleted, sole>>
  PROVE  SettingsInv'
<1>1. stage[t] = 0
  BY DEF SettingsInv, TaskInv, WebControl
<1>2. /\ ControlTypes' /\ TaskInv(t)'
      /\ pc'[t] = "idle" /\ stage' = stage
      /\ \A v \in Tasks : v # t => pc'[v] = pc[v]
      /\ \A v \in WebTasks : v # t => cur'[v] = cur[v] /\ got'[v] = got[v] /\ view'[v] = view[v]
  BY <1>1, EndsStep
<1>3. Alone(t) /\ Up
  BY <1>2, WebIsUp DEF Alone
<1>4. DataTypes'
  BY DEF SettingsInv, DataTypes
<1>5. LockTypes'
  BY <1>2, TasksAre DEF SettingsInv, LockTypes
<1>6. /\ \A v \in WebTasks : TaskInv(v)'
      /\ MainInv' /\ SeedInv' /\ DeletedStayPowerless' /\ UsersAreWhole'
  BY <1>2, <1>3, WebMoves
<1> QED BY <1>2, <1>4, <1>5, <1>6 DEF SettingsInv

(***************************************************************************)
(* A request goes on, before its write transaction begins.                 *)
(***************************************************************************)
LEMMA GoesOn ==
  ASSUME SettingsInv, NEW t \in WebTasks, Up, stage[t] = 0,
         pc[t] # "commit", NEW p \in Places, Goto(t, p),
         p \notin {"commit", "formatting"},
         cur' \in [WebTasks -> Requests \cup {None}],
         got' \in [WebTasks -> User], view' \in [WebTasks -> User],
         \A v \in WebTasks : v # t => cur'[v] = cur[v] /\ got'[v] = got[v] /\ view'[v] = view[v],
         readers \ {t} \subseteq readers', readers' \subseteq readers \cup {t},
         t \in readers' => p \in Reading,
         UNCHANGED <<stage, db, formatted, writer, pinLow, crashes, deleted, sole>>,
         sent' \subseteq Requests,
         (pc'[t] = p => TaskInv(t)')
  PROVE  SettingsInv'
<1> USE DEF SettingsInv
<1>1. pc'[t] = p /\ \A v \in Tasks : v # t => pc'[v] = pc[v]
  BY TasksAre DEF ControlTypes, Goto
<1>2. Alone(t)
  BY <1>1 DEF Alone
<1>3. ControlTypes'
  BY DEF ControlTypes, Goto
<1>4. DataTypes'
  BY DEF DataTypes
<1>5. LockTypes'
  <2>1. readers' \subseteq {v \in WebTasks : pc'[v] \in Reading}
    BY <1>1, TasksAre DEF LockTypes
  <2>2. writer' = None \/ (writer' \in Tasks /\ pc'[writer'] = "commit")
    BY <1>1 DEF LockTypes
  <2> QED BY <2>1, <2>2 DEF LockTypes
<1>6. /\ \A v \in WebTasks : TaskInv(v)'
      /\ MainInv' /\ SeedInv' /\ DeletedStayPowerless' /\ UsersAreWhole'
  BY <1>1, <1>2, WebMoves
<1> QED BY <1>3, <1>4, <1>5, <1>6

LEMMA ReceiveStep ==
  ASSUME SettingsInv, NEW t \in WebTasks, NEW r \in Requests, Receive(t, r)
  PROVE  SettingsInv'
<1> USE DEF SettingsInv, Receive
<1> DEFINE p == IF r.kind = "read" THEN "open" ELSE "auth"
<1>1. /\ Up /\ stage[t] = 0 /\ pc[t] = "idle" /\ p \in Places
      /\ Goto(t, p) /\ p \notin {"commit", "formatting"} /\ p \notin Reading
      /\ t \notin readers
  BY DEF TaskInv, WebControl, Places, Reading, LockTypes
<1>2. /\ cur' \in [WebTasks -> Requests \cup {None}]
      /\ cur'[t] = r /\ \A v \in WebTasks : v # t => cur'[v] = cur[v]
      /\ got' = got /\ view' = view /\ got \in [WebTasks -> User] /\ view \in [WebTasks -> User]
      /\ stage' = stage
  BY DEF ControlTypes, history
<1>3. /\ UNCHANGED <<stage, db, formatted, writer, pinLow, crashes, deleted, sole>>
      /\ readers' = readers /\ sent' \subseteq Requests
  BY DEF ekv, history, DataTypes
<1>4. ASSUME pc'[t] = p PROVE TaskInv(t)'
  BY <1>1, <1>2, <1>4 DEF TaskInv, WebControl, Authenticating, Credentials, Backed, Admitted
<1> HIDE DEF p
<1> QED BY <1>1, <1>2, <1>3, <1>4, GoesOn

LEMMA ReadOpensStep ==
  ASSUME SettingsInv, NEW t \in WebTasks, ReadOpens(t)
  PROVE  SettingsInv'
<1> USE DEF SettingsInv, ReadOpens
<1>1. /\ Up /\ stage[t] = 0 /\ pc[t] = "open" /\ "read" \in Places \cap Reading
      /\ cur[t] \in Requests /\ cur[t].kind = "read"
  BY WebIsUp DEF TaskInv, WebControl, Places, Reading
<1>2. /\ cur' = cur /\ got' = got /\ view' = view
      /\ readers' = readers \cup {t}
      /\ UNCHANGED <<stage, db, formatted, writer, pinLow, crashes, deleted, sole>>
      /\ sent' \subseteq Requests
  BY DEF OpenRead, history, DataTypes
<1>3. ASSUME pc'[t] = "read" PROVE TaskInv(t)'
  BY <1>1, <1>2, <1>3 DEF TaskInv, WebControl, Authenticating, Credentials, Backed, Admitted
<1> QED BY <1>1, <1>2, <1>3, GoesOn DEF ControlTypes

LEMMA ReadEndsStep ==
  ASSUME SettingsInv, NEW t \in WebTasks, ReadEnds(t)
  PROVE  SettingsInv'
  BY QuietEnd DEF ReadEnds, CloseRead

LEMMA DeniedStep ==
  ASSUME SettingsInv, NEW t \in WebTasks, Denied(t)
  PROVE  SettingsInv'
  BY QuietEnd DEF Denied, CloseRead

LEMMA BodyRefusedStep ==
  ASSUME SettingsInv, NEW t \in WebTasks, BodyRefused(t)
  PROVE  SettingsInv'
<1>1. t \notin readers
  BY DEF SettingsInv, LockTypes, BodyRefused, Reading
<1> QED BY <1>1, QuietEnd DEF BodyRefused, ekv

(***************************************************************************)
(* Authentication, read by read.                                           *)
(***************************************************************************)
LEMMA AuthPwStep ==
  ASSUME SettingsInv, NEW t \in WebTasks, AuthPw(t)
  PROVE  SettingsInv'
<1> USE DEF SettingsInv, AuthPw
<1> DEFINE u == db.user[cur[t].user]
           p == IF u.pw = Missing THEN "denied" ELSE "authAdmin"
<1>1. /\ Up /\ stage[t] = 0 /\ pc[t] = "auth"
      /\ p \in Places /\ p \in Reading /\ p \notin {"commit", "formatting"} \cup Admitted
      /\ p \notin {"authPorts", "begin", "open", "read", "idle", "check", "checking", "format",
                   "restart", "mount", "pin", "up"}
      /\ cur[t] \in Requests /\ cur[t].kind # "read"
  BY WebIsUp DEF TaskInv, WebControl, Places, Reading, Admitted
<1>2. cur[t].user \in Users /\ u \in User
  BY <1>1, RequestsAre DEF DataTypes, Shape
<1>3. /\ cur' = cur /\ readers' = readers \cup {t}
      /\ view' = [view EXCEPT ![t] = u] /\ got' = GotPw(got, t, u.pw)
      /\ UNCHANGED <<stage, db, formatted, writer, pinLow, crashes, deleted, sole>>
      /\ sent' \subseteq Requests /\ Goto(t, p)
  BY DEF OpenRead, DataTypes, GotPw
<1> HIDE DEF p
<1>4. /\ view' \in [WebTasks -> User] /\ view'[t] = u
      /\ \A v \in WebTasks : v # t => view'[v] = view[v]
  BY <1>2, <1>3 DEF ControlTypes
<1> HIDE DEF u
<1>5. /\ got' \in [WebTasks -> User] /\ got'[t].pw = u.pw
      /\ \A v \in WebTasks : v # t => got'[v] = got[v]
  <2>1. got \in [WebTasks -> User]
    BY DEF ControlTypes
  <2> HIDE DEF SettingsInv, AuthPw
  <2> QED BY <1>2, <1>3, <2>1, ReadsPw
<1>6. ASSUME pc'[t] = p PROVE TaskInv(t)'
  <2>1. WebControl(t)' /\ Credentials(t)' /\ Backed(t)'
    BY <1>1, <1>3, <1>6 DEF WebControl, Credentials, Backed
  <2>2. Authenticating(t)'
    BY <1>1, <1>3, <1>4, <1>5, <1>6 DEF Authenticating, u
  <2> QED BY <2>1, <2>2 DEF TaskInv
<1> QED BY <1>1, <1>3, <1>4, <1>5, <1>6, GoesOn DEF ControlTypes

LEMMA AuthAdminStep ==
  ASSUME SettingsInv, NEW t \in WebTasks, AuthAdmin(t)
  PROVE  SettingsInv'
<1> USE DEF SettingsInv, AuthAdmin
<1> DEFINE u == db.user[cur[t].user]
           p == IF u.admin = Missing THEN "denied" ELSE "authPorts"
<1>1. /\ Up /\ stage[t] = 0 /\ pc[t] = "authAdmin"
      /\ p \in Places /\ p \in Reading /\ p \notin {"commit", "formatting"} \cup Admitted
      /\ p \notin {"authAdmin", "begin", "open", "read", "idle", "check", "checking", "format",
                   "restart", "mount", "pin", "up"}
      /\ cur[t] \in Requests /\ cur[t].kind # "read"
  BY WebIsUp DEF TaskInv, WebControl, Places, Reading, Admitted
<1>2. cur[t].user \in Users /\ u \in User
  BY <1>1, RequestsAre DEF DataTypes, Shape
<1>3. /\ cur' = cur /\ readers' = readers /\ view' = view /\ got' = GotAdmin(got, t, u.admin)
      /\ UNCHANGED <<stage, db, formatted, writer, pinLow, crashes, deleted, sole>>
      /\ sent' \subseteq Requests /\ Goto(t, p)
  BY DEF ekv, history, DataTypes, GotAdmin
<1>4. p = "authPorts" => u.admin # Missing
  OBVIOUS
<1> HIDE DEF p
<1>5. t \in readers /\ got[t].pw = view[t].pw /\ (u = view[t] \/ u = NoUser)
  BY <1>1 DEF TaskInv, Authenticating
<1>6. p = "authPorts" => u = view[t]
  BY <1>4, <1>5, NoUserIsUser
<1> HIDE DEF u
<1>7. /\ got' \in [WebTasks -> User] /\ got'[t].admin = u.admin /\ got'[t].pw = got[t].pw
      /\ \A v \in WebTasks : v # t => got'[v] = got[v]
  <2>1. got \in [WebTasks -> User]
    BY DEF ControlTypes
  <2> HIDE DEF SettingsInv, AuthAdmin
  <2> QED BY <1>2, <1>3, <2>1, ReadsAdmin
<1>8. ASSUME pc'[t] = p PROVE TaskInv(t)'
  <2>1. WebControl(t)' /\ Credentials(t)' /\ Backed(t)'
    BY <1>1, <1>3, <1>8 DEF WebControl, Credentials, Backed
  <2>2. Authenticating(t)'
    BY <1>1, <1>3, <1>4, <1>5, <1>6, <1>7, <1>8 DEF Authenticating, u
  <2> QED BY <2>1, <2>2 DEF TaskInv
<1> QED BY <1>1, <1>3, <1>7, <1>8, GoesOn DEF ControlTypes

LEMMA AuthPortsStep ==
  ASSUME SettingsInv, NEW t \in WebTasks, AuthPorts(t)
  PROVE  SettingsInv'
<1> USE DEF SettingsInv, AuthPorts
<1> DEFINE u == db.user[cur[t].user]
           p == IF u.ports # Missing /\ Entitled(t) THEN "body" ELSE "denied"
<1>1. /\ Up /\ stage[t] = 0 /\ pc[t] = "authPorts"
      /\ p \in Places /\ p \in {"body", "denied"}
      /\ cur[t] \in Requests /\ cur[t].kind # "read"
  <2>1. "body" \in Places /\ "denied" \in Places
    BY DEF Places, Reading
  <2>2. p \in {"body", "denied"}
    BY Zenon
  <2> QED BY <2>1, <2>2, WebIsUp DEF TaskInv, WebControl
<1>2. cur[t].user \in Users /\ u \in User /\ view[t] \in User
  BY <1>1, RequestsAre DEF DataTypes, Shape, ControlTypes
<1>3. /\ cur' = cur /\ readers' = readers \ {t} /\ view' = view
      /\ got' = GotPorts(got, t, u.ports)
      /\ UNCHANGED <<stage, db, formatted, writer, pinLow, crashes, deleted, sole>>
      /\ sent' \subseteq Requests /\ Goto(t, p)
  BY DEF CloseRead, history, DataTypes, GotPorts
<1>4. p = "body" => u.ports # Missing /\ Entitled(t)
  OBVIOUS
<1> HIDE DEF p
<1>5. /\ got[t].pw = view[t].pw /\ got[t].admin = view[t].admin /\ got[t].admin # Missing
      /\ u = view[t] \/ u = NoUser
  BY <1>1 DEF TaskInv, Authenticating
<1>6. p = "body" => u = view[t]
  BY <1>4, <1>5, NoUserIsUser
<1> HIDE DEF u
<1>7. /\ got' \in [WebTasks -> User]
      /\ got'[t].ports = u.ports /\ got'[t].pw = got[t].pw /\ got'[t].admin = got[t].admin
      /\ \A v \in WebTasks : v # t => got'[v] = got[v]
  <2>1. got \in [WebTasks -> User]
    BY DEF ControlTypes
  <2> HIDE DEF SettingsInv, AuthPorts
  <2> QED BY <1>2, <1>3, <2>1, ReadsPorts
<1>8. p = "body" => got'[t] = view[t]
  <2> SUFFICES ASSUME p = "body" PROVE got'[t] = view[t]
    OBVIOUS
  <2>1. got'[t] \in User
    BY <1>7
  <2>2. u = view[t]
    BY <1>6
  <2>3. /\ got'[t].admin = view[t].admin /\ got'[t].ports = view[t].ports
        /\ got'[t].pw = view[t].pw
    BY <1>5, <1>7, <2>2, Zenon
  <2> QED BY <1>2, <2>1, <2>3, SameUser, Zenon
<1>9. ASSUME pc'[t] = p PROVE TaskInv(t)'
  <2>1. WebControl(t)' /\ Authenticating(t)'
    BY <1>1, <1>3, <1>9 DEF WebControl, Authenticating
  <2>2. Credentials(t)'
    <3>1. CASE p = "denied"
      BY <1>9, <3>1 DEF Credentials, Admitted
    <3>2. CASE p = "body"
      <4>1. got'[t] = view'[t]
        BY <1>3, <1>8, <3>2
      <4>2. view'[t].pw = cur'[t].pass
        BY <1>3, <1>4, <1>5, <3>2 DEF Entitled
      <4>3. cur'[t].kind \in AdminRequests => view'[t].admin = TRUE
        BY <1>3, <1>4, <1>5, <3>2 DEF Entitled
      <4> QED BY <4>1, <4>2, <4>3 DEF Credentials
    <3> QED BY <1>1, <3>1, <3>2
  <2>3. Backed(t)'
    <3>1. CASE p = "denied"
      BY <1>9, <3>1 DEF Backed, Admitted
    <3>2. CASE p = "body"
      BY <1>3, <1>4, <1>5, <1>6, <3>2 DEF Backed, u
    <3> QED BY <1>1, <3>1, <3>2
  <2> QED BY <2>1, <2>2, <2>3 DEF TaskInv
<1>10. t \in readers' => p \in Reading
  BY <1>3
<1> QED BY <1>1, <1>3, <1>7, <1>9, <1>10, GoesOn DEF ControlTypes

-----------------------------------------------------------------------------
(***************************************************************************)
(* The handlers, up to the write transaction: what let the request in      *)
(* stays as it is.                                                         *)
(***************************************************************************)
LEMMA AdmittedGoesOn ==
  ASSUME SettingsInv, NEW t \in WebTasks, pc[t] \in Admitted, pc[t] \notin {"begin", "commit"},
         NEW p \in {"check", "checking", "begin", "format"}, Goto(t, p),
         p \in {"check", "checking"} => cur[t].kind = "password",
         p = "format" => cur[t].kind = "reset",
         p = "begin" => cur[t].kind # "reset",
         readers' = readers \/ (readers' = readers \cup {t} /\ p = "checking")
                            \/ readers' = readers \ {t},
         t \in readers' => p = "checking",
         UNCHANGED <<stage, db, formatted, writer, cur, got, pinLow, sent, crashes, history>>
  PROVE  SettingsInv'
<1> USE DEF SettingsInv
<1>1. Up /\ stage[t] = 0 /\ cur[t] \in Requests /\ cur[t].kind # "read"
  BY WebIsUp DEF TaskInv, WebControl, Admitted
<1>2. p \in Places /\ (t \in readers' => p \in Reading) /\ p \in Admitted
  BY DEF Places, Reading, Admitted
<1>3. ASSUME pc'[t] = p PROVE TaskInv(t)'
  <2>1. WebControl(t)' /\ Authenticating(t)'
    BY <1>1, <1>3 DEF WebControl, Authenticating
  <2>2. Credentials(t)'
    BY DEF TaskInv, Credentials, history
  <2>3. Backed(t)'
    BY DEF TaskInv, Backed
  <2> QED BY <2>1, <2>2, <2>3 DEF TaskInv
<1>4. /\ cur' \in [WebTasks -> Requests \cup {None}]
      /\ got' \in [WebTasks -> User] /\ view' \in [WebTasks -> User]
      /\ cur' = cur /\ got' = got /\ view' = view
      /\ sent' \subseteq Requests
      /\ UNCHANGED <<stage, db, formatted, writer, pinLow, crashes, deleted, sole>>
  BY DEF ControlTypes, DataTypes, history
<1>5. readers \ {t} \subseteq readers' /\ readers' \subseteq readers \cup {t}
  OBVIOUS
<1> QED BY <1>1, <1>2, <1>3, <1>4, <1>5, GoesOn

LEMMA BodyArrivesStep ==
  ASSUME SettingsInv, NEW t \in WebTasks, BodyArrives(t)
  PROVE  SettingsInv'
<1> USE DEF SettingsInv, BodyArrives
<1> DEFINE p == Handler(cur[t])
<1>1. p \in {"check", "begin", "format"}
      /\ (p = "check" => cur[t].kind = "password")
      /\ (p = "format" => cur[t].kind = "reset")
      /\ (p = "begin" => cur[t].kind # "reset")
  BY DEF Handler
<1>2. readers' = readers /\ t \notin readers /\ Goto(t, p)
      /\ UNCHANGED <<stage, db, formatted, writer, cur, got, pinLow, sent, crashes, history>>
  BY DEF ekv, LockTypes, Reading
<1> HIDE DEF p
<1> QED BY <1>1, <1>2, AdmittedGoesOn DEF Admitted

LEMMA PasswordOpensStep ==
  ASSUME SettingsInv, NEW t \in WebTasks, PasswordOpens(t)
  PROVE  SettingsInv'
<1>1. cur[t].kind = "password"
  BY DEF SettingsInv, TaskInv, WebControl, PasswordOpens
<1> QED BY <1>1, AdmittedGoesOn DEF PasswordOpens, OpenRead, Admitted

LEMMA PasswordChecksStep ==
  ASSUME SettingsInv, NEW t \in WebTasks, PasswordChecks(t)
  PROVE  SettingsInv'
<1>1. cur[t].kind = "password"
  BY DEF SettingsInv, TaskInv, WebControl, PasswordChecks
<1>2. CASE db.user[cur[t].user].pw = cur[t].old
  BY <1>1, <1>2, AdmittedGoesOn DEF PasswordChecks, CloseRead, Admitted, history
<1>3. CASE db.user[cur[t].user].pw # cur[t].old
  BY <1>3, QuietEnd DEF PasswordChecks, CloseRead
<1> QED BY <1>2, <1>3

-----------------------------------------------------------------------------
(***************************************************************************)
(* The write transaction.                                                  *)
(***************************************************************************)
LEMMA BeginsStep ==
  ASSUME SettingsInv, NEW t \in Tasks, Begins(t)
  PROVE  SettingsInv'
<1> USE DEF SettingsInv, Begins
<1>1. pc'[t] = "commit" /\ \A v \in Tasks : v # t => pc'[v] = pc[v]
  BY DEF ControlTypes, Goto
<1>2. Alone(t)
  BY <1>1, TasksAre DEF Alone, history
<1>3. ControlTypes'
  BY DEF ControlTypes, Goto, history, Places
<1>4. DataTypes'
  BY DEF DataTypes, history
<1>5. LockTypes'
  <2>1. readers' \subseteq {v \in WebTasks : pc'[v] \in Reading}
    BY <1>1, TasksAre DEF LockTypes, Reading
  <2> QED BY <1>1, <2>1 DEF LockTypes
<1>6. ASSUME NEW v \in WebTasks PROVE TaskInv(v)'
  <2>1. CASE v # t
    BY <1>2, <2>1, OthersStay DEF history
  <2>2. CASE v = t
    <3>1. TaskInv(t)
      BY <2>2
    <3>2. WebControl(t)'
      BY <1>1, <3>1 DEF TaskInv, WebControl
    <3>3. Authenticating(t)'
      BY <1>1 DEF Authenticating
    <3>4. Credentials(t)'
      BY <3>1 DEF TaskInv, Credentials, Admitted, history
    <3>5. Backed(t)'
      BY <3>1 DEF TaskInv, Backed, Admitted
    <3> QED BY <2>2, <3>2, <3>3, <3>4, <3>5 DEF TaskInv
  <2> QED BY <2>1, <2>2
<1>7. MainInv'
  <2>1. CASE t = Main
    <3>1. pc[Main] = "begin" /\ pc'[Main] = "commit"
      BY <1>1, <2>1
    <3>2. \A v \in WebTasks : pc'[v] = pc[v]
      BY <1>1, <2>1, TasksAre
    <3> QED BY <3>1, <3>2 DEF MainInv, history
  <2>2. CASE t # Main
    <3>1. t \in WebTasks
      BY <2>2 DEF Tasks
    <3>2. pc[Main] = "up" /\ pc'[Main] = "up"
      BY <1>1, <2>2, <3>1, WebIsUp, TasksAre DEF Up
    <3> QED BY <3>2 DEF MainInv
  <2> QED BY <2>1, <2>2
<1>8. SeedInv'
  <2> SUFFICES ASSUME NEW v \in Tasks, sole' = v PROVE SeedOf(v)'
    BY DEF SeedInv
  <2>1. SeedOf(v)
    BY DEF SeedInv, history
  <2>2. CASE v # t
    BY <1>1, <2>1, <2>2 DEF SeedOf
  <2>3. CASE v = t
    BY <1>1, <2>1, <2>3 DEF SeedOf
  <2> QED BY <2>2, <2>3
<1>9. DeletedStayPowerless' /\ UsersAreWhole'
  BY DEF DeletedStayPowerless, UsersAreWhole, history
<1> QED BY <1>3, <1>4, <1>5, <1>6, <1>7, <1>8, <1>9

(***************************************************************************)
(* A transaction fails: its request ends with nothing written.             *)
(***************************************************************************)
LEMMA FailsStep ==
  ASSUME SettingsInv, NEW t \in WebTasks, WriteFails(t) \/ CommitFails(t)
  PROVE  SettingsInv'
<1> USE DEF SettingsInv
<1>0. /\ pc[t] \in {"begin", "commit"} /\ stage[t] = 0 /\ Ends(t) /\ readers' = readers
      /\ writer' = None \/ (writer' = writer /\ writer = None)
      /\ UNCHANGED <<db, formatted, pinLow, sent, crashes, deleted, sole>>
  BY DEF WriteFails, CommitFails, ekv
<1>1. /\ ControlTypes' /\ TaskInv(t)'
      /\ pc'[t] = "idle" /\ stage' = stage
      /\ \A v \in Tasks : v # t => pc'[v] = pc[v]
      /\ \A v \in WebTasks : v # t => cur'[v] = cur[v] /\ got'[v] = got[v] /\ view'[v] = view[v]
  BY <1>0, EndsStep
<1>2. Alone(t) /\ Up
  BY <1>0, <1>1, WebIsUp DEF Alone
<1>3. DataTypes'
  BY <1>0 DEF DataTypes
<1>4. LockTypes'
  BY <1>0, <1>1, TasksAre DEF LockTypes, Reading
<1>5. /\ \A v \in WebTasks : TaskInv(v)'
      /\ MainInv' /\ SeedInv' /\ DeletedStayPowerless' /\ UsersAreWhole'
  BY <1>0, <1>1, <1>2, WebMoves
<1> QED BY <1>1, <1>3, <1>4, <1>5

(***************************************************************************)
(* format: nobody is left with a key, so nobody is left with a privilege,  *)
(* and what a request that authenticates reads from now on is missing.     *)
(***************************************************************************)
LEMMA Erased ==
  ASSUME SettingsInv, NEW t \in Tasks, pc[t] = "format", Alone(t), db' = Blank,
         pc'[t] \in {"formatting", "begin"}, pc'[t] = "begin" => stage'[t] = 1,
         pc'[t] = "formatting" => stage'[t] = stage[t],
         cur' = cur, got' = got, view' = view, readers' = readers, deleted' = deleted
  PROVE  /\ \A v \in WebTasks : TaskInv(v)'
         /\ DeletedStayPowerless' /\ UsersAreWhole'
<1> USE DEF SettingsInv
<1>1. \A v \in Tasks : v # t => pc'[v] = pc[v] /\ stage'[v] = stage[v]
  BY DEF Alone
<1>2. t # Main => t \in WebTasks /\ cur[t] \in Requests /\ cur[t].kind = "reset"
  <2> SUFFICES ASSUME t # Main PROVE cur[t] \in Requests /\ cur[t].kind = "reset"
    BY DEF Tasks
  <2>1. t \in WebTasks
    BY DEF Tasks
  <2> QED BY <2>1 DEF TaskInv, WebControl
<1>3. t # Main => ~NoResets
  BY <1>2 DEF NoResets
<1>4. t = Main => \A v \in WebTasks : pc[v] = "idle" /\ pc'[v] = "idle"
  BY <1>1, TasksAre DEF MainInv
<1>5. ASSUME NEW v \in WebTasks PROVE TaskInv(v)'
  <2>1. TaskInv(v) /\ v \in Tasks
    BY TasksAre
  <2>2. WebControl(v)'
    <3>1. CASE v = t
      BY <2>1, <3>1 DEF TaskInv, WebControl
    <3>2. CASE v # t
      BY <1>1, <2>1, <3>2 DEF TaskInv, WebControl
    <3> QED BY <3>1, <3>2
  <2>3. Authenticating(v)'
    <3> SUFFICES ASSUME pc'[v] \in {"authAdmin", "authPorts"} PROVE Authenticating(v)'
      BY DEF Authenticating
    <3>1. v # t /\ pc'[v] = pc[v]
      BY <1>1, <2>1
    <3>2. cur[v] \in Requests /\ cur[v].kind # "read"
      BY <2>1, <3>1 DEF TaskInv, WebControl
    <3>3. db'.user[cur'[v].user] = NoUser
      BY <3>2, RequestsAre, BlankIsShape
    <3>4. v \in readers /\ got[v].pw = view[v].pw
      BY <2>1, <3>1 DEF TaskInv, Authenticating
    <3>5. pc[v] = "authPorts" => got[v].admin = view[v].admin /\ got[v].admin # Missing
      BY <2>1 DEF TaskInv, Authenticating
    <3> QED BY <3>1, <3>3, <3>4, <3>5 DEF Authenticating
  <2>4. Credentials(v)'
    <3>1. pc'[v] \in Admitted => pc[v] \in Admitted
      BY <1>1, <2>1 DEF Admitted
    <3> QED BY <2>1, <3>1 DEF TaskInv, Credentials
  <2>5. Backed(v)'
    BY <1>3, <1>4 DEF Backed, Admitted, NoResets
  <2> QED BY <2>2, <2>3, <2>4, <2>5 DEF TaskInv
<1>6. DeletedStayPowerless' /\ UsersAreWhole'
  BY BlankIsHarmless DEF DeletedStayPowerless, UsersAreWhole
<1> QED BY <1>5, <1>6

LEMMA FormatStartsStep ==
  ASSUME SettingsInv, NEW t \in Tasks, FormatStarts(t)
  PROVE  SettingsInv'
<1> USE DEF SettingsInv, FormatStarts
<1>1. /\ pc'[t] = "formatting" /\ \A v \in Tasks : v # t => pc'[v] = pc[v]
      /\ stage' = stage /\ cur' = cur /\ got' = got /\ view' = view /\ readers' = readers
      /\ db' = Blank /\ sole' = t
  BY DEF ControlTypes, Goto
<1>2. ControlTypes'
  BY DEF ControlTypes, Goto, Places
<1>3. DataTypes'
  <2>1. formatted' \in BOOLEAN
    BY Zenon
  <2> QED BY <2>1, BlankIsShape DEF DataTypes
<1>4. LockTypes'
  <2>1. readers' \subseteq {v \in WebTasks : pc'[v] \in Reading}
    BY <1>1, TasksAre DEF LockTypes, Reading
  <2> QED BY <1>1, <2>1 DEF LockTypes
<1>5. Alone(t)
  BY <1>1 DEF Alone
<1>6. (\A v \in WebTasks : TaskInv(v)') /\ DeletedStayPowerless' /\ UsersAreWhole'
  BY <1>1, <1>5, Erased
<1>7. MainInv'
  <2>1. stage[Main] = 0 /\ stage'[Main] = 0 /\ \A k \in 1 .. 3 : ~(k < 0)
    <3>1. CASE t = Main
      BY <1>1, <3>1 DEF MainInv
    <3>2. CASE t # Main
      BY <1>1, <3>2, WebIsUp DEF MainInv, Up, Tasks
    <3> QED BY <3>1, <3>2
  <2>2. CASE t = Main
    <3>1. \A v \in WebTasks : pc[v] = "idle" /\ pc'[v] = "idle"
      BY <1>1, <2>2, TasksAre DEF MainInv
    <3> QED BY <1>1, <2>1, <2>2, <3>1 DEF MainInv
  <2>3. CASE t # Main
    <3>1. Up
      BY <2>3, WebIsUp DEF Tasks
    <3> QED BY <1>1, <2>1, <2>3, <3>1, TasksAre DEF MainInv, Up
  <2> QED BY <2>2, <2>3
<1>8. SeedInv'
  BY <1>1 DEF SeedInv, SeedOf
<1> QED BY <1>2, <1>3, <1>4, <1>6, <1>7, <1>8

(***************************************************************************)
(* A format that fails leaves the database as it was or empty, and the     *)
(* first stage of the seed follows.                                        *)
(***************************************************************************)
LEMMA FormatFailsStep ==
  ASSUME SettingsInv, NEW t \in Tasks, FormatFails(t)
  PROVE  SettingsInv'
<1> USE DEF SettingsInv
<1>1. /\ pc[t] = "format" /\ pc'[t] = "begin" /\ stage'[t] = 1
      /\ \A v \in Tasks : v # t => pc'[v] = pc[v] /\ stage'[v] = stage[v]
      /\ cur' = cur /\ got' = got /\ view' = view /\ readers' = readers /\ writer' = writer
      /\ sole' = None /\ deleted' = deleted /\ pinLow' = pinLow
      /\ sent' = sent /\ crashes' = crashes
  BY DEF ControlTypes, Goto, FormatFails
<1>2. db' = db \/ db' = Blank
  BY DEF FormatFails
<1>3. ControlTypes'
  BY <1>1 DEF ControlTypes, Goto, Places, FormatFails
<1>4. DataTypes'
  <2>1. formatted' \in BOOLEAN
    BY Zenon DEF FormatFails, DataTypes
  <2> QED BY <1>1, <1>2, <2>1, BlankIsShape DEF DataTypes
<1>5. LockTypes'
  <2>1. readers' \subseteq {v \in WebTasks : pc'[v] \in Reading}
    BY <1>1, TasksAre DEF LockTypes, Reading
  <2> QED BY <1>1, <2>1 DEF LockTypes
<1>6. Alone(t)
  BY <1>1 DEF Alone
<1>7. (\A v \in WebTasks : TaskInv(v)') /\ DeletedStayPowerless' /\ UsersAreWhole'
  <2>1. CASE db' = Blank
    BY <1>1, <1>6, <2>1, Erased
  <2>2. CASE db' = db
    <3>1. ASSUME NEW v \in WebTasks PROVE TaskInv(v)'
      <4>1. CASE v # t
        BY <1>6, <2>2, <4>1, OthersStay
      <4>2. CASE v = t
        <5>1. TaskInv(t)
          BY <4>2
        <5>2. WebControl(t)'
          BY <1>1, <5>1 DEF TaskInv, WebControl
        <5>3. Authenticating(t)'
          BY <1>1 DEF Authenticating
        <5>4. Credentials(t)' /\ Backed(t)'
          BY <1>1, <2>2, <5>1 DEF TaskInv, Credentials, Backed, Admitted
        <5> QED BY <4>2, <5>2, <5>3, <5>4 DEF TaskInv
      <4> QED BY <4>1, <4>2
    <3>2. DeletedStayPowerless' /\ UsersAreWhole'
      BY <1>1, <2>2 DEF DeletedStayPowerless, UsersAreWhole
    <3> QED BY <3>1, <3>2
  <2> QED BY <1>2, <2>1, <2>2
<1>8. MainInv'
  <2>1. stage'[Main] \in {0, 1} /\ \A k \in 1 .. 3 : ~(k < stage'[Main])
    <3>1. CASE t = Main
      BY <1>1, <3>1
    <3>2. CASE t # Main
      <4>1. stage'[Main] = 0
        BY <1>1, <3>2, WebIsUp, TasksAre DEF MainInv, Up, Tasks
      <4> QED BY <4>1
    <3> QED BY <3>1, <3>2
  <2>2. CASE t = Main
    <3>1. \A v \in WebTasks : pc[v] = "idle" /\ pc'[v] = "idle"
      BY <1>1, <2>2, TasksAre DEF MainInv
    <3> QED BY <1>1, <2>1, <2>2, <3>1 DEF MainInv
  <2>3. CASE t # Main
    <3>1. Up
      BY <1>1, <2>3, WebIsUp DEF Tasks
    <3> QED BY <1>1, <2>1, <2>3, <3>1, TasksAre DEF MainInv, Up
  <2> QED BY <2>2, <2>3
<1>9. SeedInv'
  BY <1>1, TasksAre DEF SeedInv
<1> QED BY <1>3, <1>4, <1>5, <1>7, <1>8, <1>9

LEMMA FormatEndsStep ==
  ASSUME SettingsInv, NEW t \in Tasks, FormatEnds(t)
  PROVE  SettingsInv'
<1> USE DEF SettingsInv, FormatEnds
<1>1. /\ pc'[t] = "begin" /\ stage'[t] = 1
      /\ \A v \in Tasks : v # t => pc'[v] = pc[v] /\ stage'[v] = stage[v]
      /\ cur' = cur /\ got' = got /\ view' = view /\ readers' = readers /\ db' = db
      /\ sole' = sole /\ deleted' = deleted
  BY DEF ControlTypes, Goto, history
<1>2. Alone(t)
  BY <1>1 DEF Alone
<1>3. ControlTypes'
  BY <1>1 DEF ControlTypes, Goto, Places
<1>4. DataTypes'
  <2>1. formatted' \in BOOLEAN
    BY Zenon
  <2> QED BY <1>1, <2>1 DEF DataTypes
<1>5. LockTypes'
  <2>1. readers' \subseteq {v \in WebTasks : pc'[v] \in Reading}
    BY <1>1, TasksAre DEF LockTypes, Reading
  <2> QED BY <1>1, <2>1 DEF LockTypes
<1>6. ASSUME NEW v \in WebTasks PROVE TaskInv(v)'
  <2>1. CASE v # t
    BY <1>1, <1>2, <2>1, OthersStay
  <2>2. CASE v = t
    <3>1. TaskInv(t)
      BY <2>2
    <3>2. WebControl(t)'
      BY <1>1, <3>1 DEF TaskInv, WebControl
    <3>3. Authenticating(t)'
      BY <1>1 DEF Authenticating
    <3>4. Credentials(t)' /\ Backed(t)'
      BY <1>1, <3>1 DEF TaskInv, Credentials, Backed, Admitted
    <3> QED BY <2>2, <3>2, <3>3, <3>4 DEF TaskInv
  <2> QED BY <2>1, <2>2
<1>7. MainInv'
  <2>1. CASE t = Main
    <3>1. \A v \in WebTasks : pc'[v] = pc[v]
      BY <1>1, <2>1, TasksAre
    <3>2. \A k \in 1 .. 3 : ~(k < stage'[Main])
      BY <1>1, <2>1
    <3> QED BY <1>1, <2>1, <3>1, <3>2 DEF MainInv
  <2>2. CASE t # Main
    <3>1. t \in WebTasks
      BY <2>2 DEF Tasks
    <3>2. pc[Main] = "up" /\ pc'[Main] = "up" /\ stage'[Main] = stage[Main]
      BY <1>1, <2>2, <3>1, WebIsUp, TasksAre DEF Up
    <3> QED BY <1>1, <3>2 DEF MainInv
  <2> QED BY <2>1, <2>2
<1>8. SeedInv'
  <2> SUFFICES ASSUME NEW v \in Tasks, sole' = v PROVE SeedOf(v)'
    BY DEF SeedInv
  <2>1. SeedOf(v)
    BY <1>1 DEF SeedInv
  <2>2. CASE v # t
    BY <1>1, <2>1, <2>2 DEF SeedOf
  <2>3. CASE v = t
    BY <1>1, <2>1, <2>3, SeedsFromBlank DEF SeedOf
  <2> QED BY <2>2, <2>3
<1>9. DeletedStayPowerless' /\ UsersAreWhole'
  BY <1>1 DEF DeletedStayPowerless, UsersAreWhole
<1> QED BY <1>3, <1>4, <1>5, <1>6, <1>7, <1>8, <1>9

(***************************************************************************)
(* main, before any task is spawned.                                       *)
(***************************************************************************)
LEMMA BootStep ==
  ASSUME SettingsInv, BootMounts \/ BootLooksAtPin
  PROVE  SettingsInv'
<1> USE DEF SettingsInv
<1>1. /\ pc[Main] \in {"mount", "pin"} /\ stage[Main] = 0
      /\ \A v \in WebTasks : pc[v] = "idle"
  BY DEF MainInv, BootMounts, BootLooksAtPin
<1>2. PICK p \in {"pin", "format", "up"} : pc' = [pc EXCEPT ![Main] = p]
  BY Zenon DEF BootMounts, BootLooksAtPin, Goto
<1>3. /\ pc'[Main] = p /\ \A v \in Tasks : v # Main => pc'[v] = pc[v]
      /\ stage' = stage /\ cur' = cur /\ got' = got /\ view' = view /\ readers' = readers
      /\ writer' = writer /\ db' = db /\ sole' = sole /\ deleted' = deleted
      /\ sent' = sent /\ crashes' = crashes /\ formatted' = formatted
  BY <1>2, TasksAre DEF ControlTypes, BootMounts, BootLooksAtPin, ekv, history
<1>4. Alone(Main)
  BY <1>3 DEF Alone
<1>5. ControlTypes'
  BY <1>2, <1>3 DEF ControlTypes, Places
<1>6. DataTypes'
  <2>1. pinLow' \in BOOLEAN
    BY Zenon DEF DataTypes, BootMounts, BootLooksAtPin
  <2> QED BY <1>3, <2>1 DEF DataTypes
<1>7. LockTypes'
  <2>1. readers' \subseteq {v \in WebTasks : pc'[v] \in Reading}
    BY <1>3, TasksAre DEF LockTypes
  <2> QED BY <1>1, <1>3, <2>1 DEF LockTypes
<1>8. \A v \in WebTasks : TaskInv(v)'
  BY <1>3, <1>4, OthersStay, TasksAre
<1>9. MainInv'
  BY <1>1, <1>3, TasksAre DEF MainInv
<1>10. SeedInv'
  <2> SUFFICES ASSUME NEW v \in Tasks, sole' = v PROVE SeedOf(v)'
    BY DEF SeedInv
  <2>1. SeedOf(v)
    BY <1>3 DEF SeedInv
  <2>2. CASE v # Main
    BY <1>3, <2>1, <2>2 DEF SeedOf
  <2>3. CASE v = Main
    BY <1>3, <2>3 DEF SeedOf
  <2> QED BY <2>2, <2>3
<1>11. DeletedStayPowerless' /\ UsersAreWhole'
  BY <1>3 DEF DeletedStayPowerless, UsersAreWhole
<1> QED BY <1>5, <1>6, <1>7, <1>8, <1>9, <1>10, <1>11

(***************************************************************************)
(* The commit. Nobody reads meanwhile; what it does to the users is what   *)
(* the transaction of the request or of the stage does.                    *)
(***************************************************************************)
LEMMA CommitKeeps ==
  ASSUME SettingsInv, NEW t \in Tasks, Commits(t)
  PROVE  /\ db' \in Shape
         /\ deleted' \in [Users -> SUBSET Grants]
         /\ \A u \in Users :
              /\ db.user[u].admin # Missing => db'.user[u].admin # Missing
              /\ db.user[u].ports # Missing => db'.user[u].ports # Missing
              /\ \A g \in Grants : g \in deleted'[u] => Without(db'.user[u], g)
              /\ NoResets /\ db'.user[u].pw \in Passwords =>
                   db'.user[u].admin # Missing /\ db'.user[u].ports # Missing
<1> USE DEF SettingsInv
<1>1. db \in Shape /\ deleted \in [Users -> SUBSET Grants] /\ Admin \in Users
  BY DataAssumption DEF DataAssumption, DataTypes
<1>2. \A u \in Users, g \in Grants : g \in deleted[u] => Without(db.user[u], g)
  BY DEF DeletedStayPowerless, Without
<1>3. ASSUME NoResets, NEW u \in Users, db.user[u].pw \in Passwords
      PROVE  db.user[u].admin # Missing /\ db.user[u].ports # Missing
  BY <1>3 DEF UsersAreWhole, NoResets
<1>4. PICK w \in SUBSET UserKeys :
        /\ db' = IF stage[t] = 0 THEN Written(db, cur[t], got[t].admin, w)
                 ELSE Seeded(db, stage[t])
        /\ deleted' = DeletedAfter(stage[t], cur[t], w)
  BY DEF Commits
<1>5. CASE stage[t] = 0
  <2> DEFINE r == cur[t]
             d == Written(db, r, got[t].admin, w)
  <2>1. t \in WebTasks /\ pc[t] = "commit"
    BY <1>5 DEF MainInv, Commits, Tasks
  <2>2. r \in Requests /\ r.kind \notin {"read", "reset"}
    BY <1>5, <2>1 DEF TaskInv, WebControl
  <2>3. /\ d \in Shape
        /\ \A u \in Users : Keeps(db.user[u], d.user[u], Given(r, u), Revives(r, u))
        /\ r.kind = "delete" => \A g \in Grants \cap w : Without(d.user[r.target], g)
    BY <1>1, <2>2, WrittenKeeps
  <2>4. db' = d /\ deleted' = DeletedAfter(0, r, w)
    BY <1>4, <1>5
  <2>5. NoResets /\ r.kind = "password" =>
          db.user[r.user].admin # Missing /\ db.user[r.user].ports # Missing
    BY <2>1 DEF TaskInv, Backed, Admitted
  <2>6. /\ r.kind = "delete" => deleted' = [deleted EXCEPT ![r.target] = @ \cup (w \cap Grants)]
        /\ r.kind = "create" => deleted' = [deleted EXCEPT ![r.target] = {}]
        /\ r.kind = "ports" => deleted' = [deleted EXCEPT ![r.target] = @ \ {"ports"}]
        /\ r.kind \notin {"delete", "create", "ports"} => deleted' = deleted
    BY <2>4 DEF DeletedAfter
  <2> HIDE DEF d, r
  <2>7. deleted' \in [Users -> SUBSET Grants]
    BY <1>1, <2>2, <2>6, RequestsAre
  <2>8. ASSUME NEW u \in Users
        PROVE  /\ db.user[u].admin # Missing => d.user[u].admin # Missing
               /\ db.user[u].ports # Missing => d.user[u].ports # Missing
               /\ \A g \in Grants : g \in deleted'[u] => Without(d.user[u], g)
               /\ NoResets /\ d.user[u].pw \in Passwords =>
                    d.user[u].admin # Missing /\ d.user[u].ports # Missing
    <3>1. Keeps(db.user[u], d.user[u], Given(r, u), Revives(r, u))
      BY <2>3
    <3>2. ASSUME NEW g \in Grants, g \in deleted'[u]
          PROVE  \/ g \in deleted[u] /\ g \notin Given(r, u)
                 \/ u = r.target /\ r.kind = "delete" /\ g \in Grants \cap w
      <4>1. CASE r.kind = "delete"
        BY <1>1, <2>6, <3>2, <4>1 DEF Given
      <4>2. CASE r.kind = "create"
        BY <1>1, <2>6, <3>2, <4>2 DEF Given
      <4>3. CASE r.kind = "ports"
        BY <1>1, <2>6, <3>2, <4>3 DEF Given
      <4>4. CASE r.kind \notin {"delete", "create", "ports"}
        BY <2>6, <3>2, <4>4 DEF Given
      <4> QED BY <4>1, <4>2, <4>3, <4>4
    <3>3. ASSUME NEW g \in Grants, g \in deleted'[u]
          PROVE  Without(d.user[u], g)
      <4>1. CASE g \in deleted[u] /\ g \notin Given(r, u)
        BY <1>2, <3>1, <4>1 DEF Keeps
      <4>2. CASE u = r.target /\ r.kind = "delete" /\ g \in Grants \cap w
        BY <2>3, <4>2
      <4> QED BY <3>2, <3>3, <4>1, <4>2
    <3>4. ASSUME NoResets, d.user[u].pw \in Passwords
          PROVE  d.user[u].admin # Missing /\ d.user[u].ports # Missing
      BY <1>3, <2>5, <3>1, <3>4 DEF Keeps, Revives
    <3> QED BY <3>1, <3>3, <3>4 DEF Keeps
  <2> QED BY <2>3, <2>4, <2>7, <2>8
<1>6. CASE stage[t] # 0
  <2> DEFINE n == stage[t]
             d == Seeded(db, n)
  <2>1. n \in 1 .. 3
    BY <1>6 DEF ControlTypes
  <2>2. d \in Shape /\ \A u \in Users : Keeps(db.user[u], d.user[u], GivenBySeed(n, u), FALSE)
    BY <1>1, <2>1, SeededKeeps
  <2>3. db' = d /\ deleted' = DeletedAfter(n, cur[t], w)
    BY <1>4, <1>6
  <2>4. deleted' = IF n = 3 THEN [deleted EXCEPT ![Admin] = {}] ELSE deleted
    BY <1>6, <2>3 DEF DeletedAfter
  <2> HIDE DEF d, n
  <2>5. deleted' \in [Users -> SUBSET Grants]
    BY <1>1, <2>4
  <2>6. ASSUME NEW u \in Users
        PROVE  /\ db.user[u].admin # Missing => d.user[u].admin # Missing
               /\ db.user[u].ports # Missing => d.user[u].ports # Missing
               /\ \A g \in Grants : g \in deleted'[u] => Without(d.user[u], g)
               /\ NoResets /\ d.user[u].pw \in Passwords =>
                    d.user[u].admin # Missing /\ d.user[u].ports # Missing
    <3>1. Keeps(db.user[u], d.user[u], GivenBySeed(n, u), FALSE)
      BY <2>2
    <3>2. \A g \in Grants : g \in deleted'[u] => g \in deleted[u] /\ g \notin GivenBySeed(n, u)
      BY <1>1, <2>4 DEF GivenBySeed
    <3>3. \A g \in Grants : g \in deleted'[u] => Without(d.user[u], g)
      BY <1>2, <3>1, <3>2 DEF Keeps
    <3>4. ASSUME NoResets, d.user[u].pw \in Passwords
          PROVE  d.user[u].admin # Missing /\ d.user[u].ports # Missing
      BY <1>3, <3>1, <3>4 DEF Keeps
    <3> QED BY <3>1, <3>3, <3>4 DEF Keeps
  <2> QED BY <2>2, <2>3, <2>5, <2>6
<1> QED BY <1>5, <1>6

LEMMA CommitsStep ==
  ASSUME SettingsInv, NEW t \in Tasks, Commits(t)
  PROVE  SettingsInv'
<1> DEFINE n == stage[t]
<1>1. /\ db' \in Shape /\ deleted' \in [Users -> SUBSET Grants]
      /\ \A u \in Users :
           /\ db.user[u].admin # Missing => db'.user[u].admin # Missing
           /\ db.user[u].ports # Missing => db'.user[u].ports # Missing
           /\ \A g \in Grants : g \in deleted'[u] => Without(db'.user[u], g)
           /\ NoResets /\ db'.user[u].pw \in Passwords =>
                db'.user[u].admin # Missing /\ db'.user[u].ports # Missing
  BY CommitKeeps
<1>2. /\ pc[t] = "commit" /\ readers = {} /\ readers' = {} /\ writer' = None
      /\ sole' = IF sole = t THEN t ELSE None
      /\ UNCHANGED <<formatted, pinLow, sent, crashes>>
  BY DEF Commits
<1>3. n \in 0 .. 3
  BY DEF SettingsInv, ControlTypes
<1>4. t = Main => n # 0
  BY <1>2 DEF SettingsInv, MainInv
<1>5. /\ ControlTypes'
      /\ \A v \in Tasks : v # t => pc'[v] = pc[v] /\ stage'[v] = stage[v]
      /\ \A v \in WebTasks : v # t => cur'[v] = cur[v] /\ got'[v] = got[v] /\ view'[v] = view[v]
      /\ n = 0 => pc'[t] = "idle" /\ stage'[t] = 0
      /\ n \in 1 .. 2 => pc'[t] = "begin" /\ stage'[t] = n + 1
      /\ n = 3 => stage'[t] = 0 /\ pc'[t] = IF t = Main THEN "pin" ELSE "restart"
      /\ n # 0 => cur' = cur /\ got' = got /\ view' = view
  <2>1. CASE n = 0
    <3>1. t \in WebTasks /\ Ends(t)
      BY <1>4, <2>1 DEF Commits, Goes, Tasks
    <3> QED BY <2>1, <3>1, EndsStep
  <2>2. CASE n # 0
    <3> DEFINE p == IF n < 3 THEN "begin" ELSE IF t = Main THEN "pin" ELSE "restart"
               k == (n + 1) % 4
    <3>1. /\ stage' = [stage EXCEPT ![t] = k] /\ pc' = [pc EXCEPT ![t] = p]
          /\ cur' = cur /\ got' = got /\ view' = view
      BY <2>2 DEF Commits, Goes, Goto, SettingsInv, ControlTypes
    <3>2. p \in Places /\ k \in 0 .. 3
      BY <1>3 DEF Places
    <3>3. n \in 1 .. 2 => p = "begin" /\ k = n + 1
      BY <1>3
    <3>4. n = 3 => k = 0 /\ p = IF t = Main THEN "pin" ELSE "restart"
      OBVIOUS
    <3> HIDE DEF p, k, n
    <3>5. ControlTypes'
      BY <3>1, <3>2 DEF SettingsInv, ControlTypes
    <3>6. pc'[t] = p /\ stage'[t] = k
          /\ \A v \in Tasks : v # t => pc'[v] = pc[v] /\ stage'[v] = stage[v]
      BY <3>1 DEF SettingsInv, ControlTypes
    <3> QED BY <2>2, <3>1, <3>3, <3>4, <3>5, <3>6
  <2> QED BY <2>1, <2>2
<1>6. t \in WebTasks => pc[Main] = "up" /\ pc'[Main] = "up" /\ stage'[Main] = stage[Main]
  BY <1>2, <1>5, WebIsUp, TasksAre DEF Up
<1> HIDE DEF n
<1>7. DataTypes'
  BY <1>1, <1>2, TasksAre DEF SettingsInv, DataTypes
<1>8. LockTypes'
  BY <1>2 DEF LockTypes
<1>9. ASSUME NEW v \in WebTasks PROVE TaskInv(v)'
  <2>1. TaskInv(v) /\ v \in Tasks
    BY TasksAre DEF SettingsInv
  <2>2. WebControl(v)'
    <3>1. CASE v # t
      BY <1>5, <2>1, <3>1 DEF TaskInv, WebControl
    <3>2. CASE v = t
      <4>1. WebControl(t) /\ t # Main
        BY <2>1, <3>2, TasksAre DEF TaskInv
      <4>2. CASE n = 0
        BY <1>5, <3>2, <4>2 DEF WebControl
      <4>3. CASE n \in 1 .. 2
        BY <1>2, <1>5, <3>2, <4>1, <4>3 DEF WebControl, n
      <4>4. CASE n = 3
        BY <1>2, <1>5, <3>2, <4>1, <4>4 DEF WebControl, n
      <4> QED BY <1>3, <4>2, <4>3, <4>4 DEF n
    <3> QED BY <3>1, <3>2
  <2>3. pc'[v] \notin {"authAdmin", "authPorts"}
    <3>1. CASE v # t
      BY <1>2, <1>5, <2>1, <3>1 DEF TaskInv, Authenticating
    <3>2. CASE v = t
      BY <1>3, <1>5, <3>2 DEF n
    <3> QED BY <3>1, <3>2
  <2>4. Authenticating(v)'
    BY <2>3 DEF Authenticating
  <2>5. pc'[v] \in Admitted => /\ pc[v] \in Admitted
                               /\ cur'[v] = cur[v] /\ got'[v] = got[v] /\ view'[v] = view[v]
    <3>1. CASE v # t
      BY <1>5, <2>1, <3>1
    <3>2. CASE v = t
      BY <1>2, <1>3, <1>5, <3>2 DEF Admitted, n
    <3> QED BY <3>1, <3>2
  <2>6. Credentials(v)'
    BY <2>1, <2>5 DEF TaskInv, Credentials
  <2>7. Backed(v)'
    <3> SUFFICES ASSUME NoResets, pc'[v] \in Admitted
                 PROVE  /\ db'.user[cur[v].user].admin # Missing
                        /\ db'.user[cur[v].user].ports # Missing
      BY <2>5 DEF Backed, NoResets
    <3>1. cur[v] \in Requests /\ cur[v].kind # "read"
      BY <2>1, <2>5 DEF TaskInv, WebControl, Admitted
    <3>2. cur[v].user \in Users
      BY <3>1, RequestsAre
    <3>3. db.user[cur[v].user].admin # Missing /\ db.user[cur[v].user].ports # Missing
      BY <2>1, <2>5 DEF TaskInv, Backed
    <3> QED BY <1>1, <3>2, <3>3
  <2> QED BY <2>2, <2>4, <2>6, <2>7 DEF TaskInv
<1>10. MainInv'
  <2>1. CASE t = Main
    <3>1. \A v \in WebTasks : pc[v] = "idle" /\ pc'[v] = "idle"
      BY <1>2, <1>5, <2>1, TasksAre DEF SettingsInv, MainInv
    <3>2. \A k \in 1 .. 3 : k < stage'[Main] => Seeded(db', k) = db'
      <4> SUFFICES ASSUME NEW k \in 1 .. 3, k < stage'[Main] PROVE Seeded(db', k) = db'
        OBVIOUS
      <4>1. n \in 1 .. 3 /\ k \in 1 .. n
        BY <1>3, <1>4, <1>5, <2>1 DEF n
      <4>2. db \in Shape /\ (k < n => Seeded(db, k) = db)
        BY <2>1 DEF SettingsInv, DataTypes, MainInv, n
      <4>3. db' = Seeded(db, n)
        BY <1>4, <2>1 DEF Commits, n
      <4>4. k = n \/ k < n
        BY <4>1
      <4> QED BY <4>1, <4>2, <4>3, <4>4, SeedsAgain
    <3>3. \/ pc'[Main] = "begin" /\ stage'[Main] # 0
          \/ pc'[Main] = "pin" /\ stage'[Main] = 0
      BY <1>3, <1>4, <1>5, <2>1 DEF n
    <3> QED BY <3>1, <3>2, <3>3 DEF MainInv
  <2>2. CASE t # Main
    <3>1. stage'[Main] = 0 /\ \A k \in 1 .. 3 : ~(k < 0)
      BY <1>6, <2>2 DEF SettingsInv, MainInv, Tasks
    <3> QED BY <1>6, <2>2, <3>1 DEF SettingsInv, MainInv, Tasks
  <2> QED BY <2>1, <2>2
<1>11. SeedInv'
  <2> SUFFICES ASSUME NEW v \in Tasks, sole' = v PROVE SeedOf(v)'
    BY DEF SeedInv
  <2>1. sole = t /\ v = t
    BY <1>2, TasksAre
  <2>2. SeedOf(t)
    BY <2>1 DEF SettingsInv, SeedInv
  <2>3. CASE n = 0
    BY <1>5, <2>1, <2>3 DEF SeedOf
  <2>4. CASE n \in 1 .. 2
    <3>1. db = SoFar(n) /\ db' = Seeded(db, n)
      BY <1>2, <2>2, <2>4 DEF SeedOf, Commits, n
    <3>2. db' = SoFar(n + 1)
      <4>1. CASE n = 1
        BY <3>1, <4>1, SeedsFromBlank
      <4>2. CASE n = 2
        BY <3>1, <4>2, SeedsFromBlank
      <4> QED BY <2>4, <4>1, <4>2
    <3> QED BY <1>5, <2>1, <2>4, <3>2 DEF SeedOf
  <2>5. CASE n = 3
    BY <1>5, <2>1, <2>5 DEF SeedOf
  <2> QED BY <1>3, <2>3, <2>4, <2>5 DEF n
<1>12. DeletedStayPowerless' /\ UsersAreWhole'
  <2>1. DeletedStayPowerless'
    BY <1>1 DEF DeletedStayPowerless, Without, Grants
  <2>2. UsersAreWhole'
    BY <1>1 DEF UsersAreWhole, NoResets
  <2> QED BY <2>1, <2>2
<1> QED BY <1>5, <1>7, <1>8, <1>9, <1>10, <1>11, <1>12 DEF SettingsInv

-----------------------------------------------------------------------------
(***************************************************************************)
(* Every step keeps the invariant.                                         *)
(***************************************************************************)
LEMMA StutterStep ==
  ASSUME SettingsInv, UNCHANGED vars
  PROVE  SettingsInv'
<1>1. UNCHANGED <<db, formatted, readers, writer, pc, stage, cur, got, pinLow, sent, crashes,
                  view, deleted, sole>>
  BY DEF vars, ekv, task, history
<1>2. DataTypes' /\ ControlTypes' /\ LockTypes' /\ MainInv' /\ SeedInv'
  BY <1>1 DEF SettingsInv, DataTypes, ControlTypes, LockTypes, MainInv, SeedInv, SeedOf
<1>3. \A t \in WebTasks : TaskInv(t)'
  BY <1>1 DEF SettingsInv, TaskInv, WebControl, Authenticating, Credentials, Backed
<1>4. DeletedStayPowerless' /\ UsersAreWhole'
  BY <1>1 DEF SettingsInv, DeletedStayPowerless, UsersAreWhole
<1> QED BY <1>2, <1>3, <1>4 DEF SettingsInv

LEMMA RestartStep ==
  ASSUME SettingsInv, PowerFails \/ \E t \in WebTasks : Restarts(t)
  PROVE  SettingsInv'
<1>1. crashes \in 0 .. MaxCrashes /\ MaxCrashes \in Nat
  BY DataAssumption DEF DataAssumption, SettingsInv, DataTypes
<1>2. PowersOn /\ crashes' \in 0 .. MaxCrashes
  BY <1>1 DEF PowerFails, Restarts
<1> QED BY <1>2, PowersOnStep

LEMMA TaskStep ==
  ASSUME SettingsInv, NEW t \in Tasks, Step(t)
  PROVE  SettingsInv'
<1>1. CASE Writes(t)
  BY <1>1, BeginsStep, CommitsStep, FormatStartsStep, FormatEndsStep DEF Writes
<1>2. CASE t = Main /\ (BootMounts \/ BootLooksAtPin)
  BY <1>2, BootStep
<1>3. CASE t \in WebTasks /\ WebStep(t)
  <2>1. CASE Auth(t)
    BY <1>3, <2>1, AuthPwStep, AuthAdminStep, AuthPortsStep, DeniedStep DEF Auth
  <2>2. CASE ReadOpens(t) \/ ReadEnds(t)
    BY <1>3, <2>2, ReadOpensStep, ReadEndsStep
  <2>3. CASE PasswordOpens(t) \/ PasswordChecks(t)
    BY <1>3, <2>3, PasswordOpensStep, PasswordChecksStep
  <2>4. CASE Restarts(t)
    BY <1>3, <2>4, RestartStep
  <2> QED BY <1>3, <2>1, <2>2, <2>3, <2>4 DEF WebStep
<1> QED BY <1>1, <1>2, <1>3 DEF Step, Tasks

LEMMA NextSettings == SettingsInv /\ [Next]_vars => SettingsInv'
<1> SUFFICES ASSUME SettingsInv, [Next]_vars PROVE SettingsInv'
  OBVIOUS
<1>1. CASE \E t \in WebTasks, r \in Requests : Receive(t, r)
  BY <1>1, ReceiveStep
<1>2. CASE \E t \in WebTasks : BodyArrives(t) \/ BodyRefused(t)
  BY <1>2, BodyArrivesStep, BodyRefusedStep
<1>3. CASE \E t \in Tasks : Step(t) \/ FormatFails(t)
  BY <1>3, TaskStep, FormatFailsStep
<1>4. CASE \E t \in WebTasks : WriteFails(t) \/ CommitFails(t)
  BY <1>4, FailsStep
<1>5. CASE PowerFails
  BY <1>5, RestartStep
<1>6. CASE UNCHANGED vars
  BY <1>6, StutterStep
<1> QED BY <1>1, <1>2, <1>3, <1>4, <1>5, <1>6 DEF Next

LEMMA SettingsHolds == Safety => []SettingsInv
  BY InitSettings, NextSettings, PTL DEF Safety

-----------------------------------------------------------------------------
(***************************************************************************)
(* Types, and who may hold what: the database holds whole keys only, the   *)
(* write transaction belongs to a task that commits and only tasks that    *)
(* read are readers, with any number of them.                              *)
(***************************************************************************)
THEOREM SettingsTypesHold == Safety => []TypeOK
<1>1. SettingsInv => TypeOK
  BY DEF SettingsInv, DataTypes, ControlTypes, LockTypes, TaskInv, WebControl, Shape, TypeOK
<1> QED BY <1>1, SettingsHolds, PTL

(***************************************************************************)
(* AuthUser and AdminUser never let a request in with a torn user: the     *)
(* hash, flag and mask they read with three awaits were one user's at the  *)
(* first of them, whatever others commit, delete or format meanwhile.      *)
(***************************************************************************)
THEOREM CredentialsHold == Safety => []CredentialsAreOneMoment
<1>1. SettingsInv => CredentialsAreOneMoment
  BY DEF SettingsInv, TaskInv, Credentials, CredentialsAreOneMoment
<1> QED BY <1>1, SettingsHolds, PTL

(***************************************************************************)
(* The admin flag a deletion took comes back only by a create and the mask *)
(* only by a create or a ports request, not by a password change that was  *)
(* under way, a deletion of which a write fails, or a seed of the admin.   *)
(***************************************************************************)
THEOREM TheDeletedStayPowerless == Safety => []DeletedStayPowerless
<1>1. SettingsInv => DeletedStayPowerless
  BY DEF SettingsInv
<1> QED BY <1>1, SettingsHolds, PTL

(***************************************************************************)
(* Where nobody uses the factory-reset endpoint, every user with a         *)
(* password has a flag and a mask, whichever writes of deletions fail.     *)
(***************************************************************************)
THEOREM UsersStayWhole == Safety => []UsersAreWhole
<1>1. SettingsInv => UsersAreWhole
  BY DEF SettingsInv
<1> QED BY <1>1, SettingsHolds, PTL

-----------------------------------------------------------------------------
(***************************************************************************)
(* The database changes in three kinds of steps only.                      *)
(***************************************************************************)
LEMMA OnlyWritersChange ==
  ASSUME [Next]_vars, db' # db
  PROVE  \E t \in Tasks : Commits(t) \/ FormatStarts(t) \/ FormatFails(t)
<1>1. ~PowerFails /\ \A t : ~Restarts(t)
  BY DEF PowerFails, Restarts, PowersOn
<1>2. ~UNCHANGED vars
  BY DEF vars, ekv
<1>3. ~BootMounts /\ ~BootLooksAtPin
  BY DEF BootMounts, BootLooksAtPin, ekv
<1>4. \A t, r : ~Receive(t, r)
  BY DEF Receive, ekv
<1>5. \A t : ~BodyArrives(t) /\ ~BodyRefused(t)
  BY DEF BodyArrives, BodyRefused, ekv
<1>6. \A t : ~Auth(t)
  BY DEF Auth, AuthPw, AuthAdmin, AuthPorts, Denied, ekv
<1>7. \A t : ~ReadOpens(t) /\ ~ReadEnds(t) /\ ~PasswordOpens(t) /\ ~PasswordChecks(t)
  BY DEF ReadOpens, ReadEnds, PasswordOpens, PasswordChecks
<1>8. \A t : ~WriteFails(t) /\ ~CommitFails(t) /\ ~Begins(t) /\ ~FormatEnds(t)
  BY DEF WriteFails, CommitFails, Begins, FormatEnds, ekv
<1> QED BY <1>1, <1>2, <1>3, <1>4, <1>5, <1>6, <1>7, <1>8 DEF Next, Step, WebStep, Writes

(***************************************************************************)
(* Where main is up, whoever writes is a web task that serves a request    *)
(* with the credentials of a user, an admin's for all but a change of that *)
(* user's own password, and it writes what that request asks for, or what  *)
(* a reset leaves and seeds: by no interleaving of requests can one be     *)
(* carried out with the right of another.                                  *)
(***************************************************************************)
THEOREM OnlyTheAuthorizedChange == Safety => ChangesAreAuthorized
<1> DEFINE Authorized(t, d) ==
             /\ ChangesTo(t, d)
             /\ view[t].pw = cur[t].pass
             /\ cur[t].kind # "password" => view[t].admin = TRUE
<1>1. ASSUME SettingsInv, [Next]_vars, Up, db' # db
      PROVE  \E t \in WebTasks : pc'[t] # pc[t] /\ Authorized(t, db')
  <2>1. PICK t \in Tasks : Commits(t) \/ FormatStarts(t) \/ FormatFails(t)
    BY <1>1, OnlyWritersChange
  <2>2. pc[t] \in {"commit", "format"} /\ t \in WebTasks
    BY <1>1, <2>1 DEF Commits, FormatStarts, FormatFails, Up, Tasks
  <2>3. TaskInv(t)
    BY <1>1, <2>2 DEF SettingsInv
  <2>4. /\ cur[t] \in Requests /\ cur[t].kind # "read"
        /\ got[t] = view[t] /\ view[t].pw = cur[t].pass
        /\ cur[t].kind \in AdminRequests => view[t].admin = TRUE
    BY <2>2, <2>3 DEF TaskInv, WebControl, Credentials, Admitted
  <2>5. cur[t].kind # "password" => view[t].admin = TRUE
    BY <2>4, RequestsAre DEF AdminRequests
  <2>6. pc \in [Tasks -> Places] /\ stage[t] \in 0 .. 3
    BY <1>1 DEF SettingsInv, ControlTypes
  <2>7. CASE FormatStarts(t) \/ FormatFails(t)
    <3>1. pc[t] = "format" /\ cur[t].kind = "reset"
      BY <2>2, <2>3, <2>7 DEF FormatStarts, FormatFails, TaskInv, WebControl
    <3>2. db' = Blank
      BY <1>1, <2>7 DEF FormatStarts, FormatFails
    <3>3. pc'[t] # pc[t]
      BY <2>6, <2>7 DEF FormatStarts, FormatFails, Goto
    <3>4. ChangesTo(t, db')
      BY <3>1, <3>2 DEF ChangesTo
    <3> QED BY <2>2, <2>4, <2>5, <3>3, <3>4
  <2>8. CASE Commits(t)
    <3>1. pc[t] = "commit" /\ (stage[t] = 0 <=> cur[t].kind # "reset")
      BY <2>3, <2>8 DEF Commits, TaskInv, WebControl
    <3>2. pc'[t] # pc[t]
      BY <2>6, <2>8 DEF Commits, Goes, Ends, Goto
    <3>3. ChangesTo(t, db')
      <4>1. CASE stage[t] = 0
        <5>1. \E through \in SUBSET UserKeys : db' = Written(db, cur[t], view[t].admin, through)
          BY <2>4, <2>8, <4>1 DEF Commits
        <5> QED BY <3>1, <4>1, <5>1 DEF ChangesTo
      <4>2. CASE stage[t] # 0
        <5>1. db' = Seeded(db, stage[t])
          BY <2>8, <4>2 DEF Commits
        <5> QED BY <3>1, <4>2, <5>1 DEF ChangesTo
      <4> QED BY <4>1, <4>2
    <3> QED BY <2>2, <2>4, <2>5, <3>2, <3>3
  <2> QED BY <2>1, <2>7, <2>8
<1>2. SettingsInv /\ [Next]_vars =>
        [Up /\ db' # db =>
          \E t \in WebTasks :
            /\ pc'[t] # pc[t]
            /\ ChangesTo(t, db')
            /\ view[t].pw = cur[t].pass
            /\ cur[t].kind # "password" => view[t].admin = TRUE]_vars
  BY <1>1
<1> QED BY <1>2, SettingsHolds, PTL DEF Safety, ChangesAreAuthorized

(***************************************************************************)
(* A seed ends with the step that commits its last stage.                  *)
(***************************************************************************)
LEMMA SeedsEndByCommit ==
  ASSUME SettingsInv, [Next]_vars, NEW t \in Tasks, SeedingEnds(t)
  PROVE  Commits(t)
<1>1. stage[t] = 3 /\ pc'[t] \in {"pin", "restart"}
  BY DEF SeedingEnds
<1>2. pc[t] \in {"begin", "commit"}
  BY <1>1 DEF SettingsInv, MainInv, TaskInv, WebControl, Tasks
<1>3. pc \in [Tasks -> Places]
  BY DEF SettingsInv, ControlTypes
<1>4. pc' # pc /\ pc'[t] # pc[t]
  BY <1>1, <1>2
<1>5. ~PowerFails /\ \A v : ~Restarts(v)
  BY <1>1 DEF PowerFails, Restarts, PowersOn
<1>6. ~UNCHANGED vars
  BY <1>4 DEF vars, task
<1>7. ASSUME NEW v \in Tasks, NEW p, Goto(v, p), v = t => p \notin {"pin", "restart"}
      PROVE  FALSE
  BY <1>1, <1>3, <1>4, <1>7 DEF Goto
<1>8. ~BootMounts /\ ~BootLooksAtPin
  <2>1. t # Main => ~BootMounts /\ ~BootLooksAtPin
    BY <1>7, TasksAre DEF BootMounts, BootLooksAtPin
  <2>2. t = Main => ~BootMounts /\ ~BootLooksAtPin
    BY <1>2 DEF BootMounts, BootLooksAtPin
  <2> QED BY <2>1, <2>2
<1>9. \A v \in WebTasks, r \in Requests : ~Receive(v, r)
  BY <1>7, TasksAre DEF Receive
<1>10. \A v \in WebTasks : ~BodyRefused(v) /\ ~ReadEnds(v) /\ ~Denied(v)
                               /\ ~WriteFails(v) /\ ~CommitFails(v)
  BY <1>7, TasksAre DEF BodyRefused, ReadEnds, Denied, WriteFails, CommitFails, Ends
<1>11. \A v \in WebTasks : ~BodyArrives(v)
  <2>1. \A r \in Requests : Handler(r) \in {"format", "check", "begin"}
    BY Zenon DEF Handler
  <2>2. \A v \in WebTasks : pc[v] = "body" => cur[v] \in Requests
    BY DEF SettingsInv, TaskInv, WebControl
  <2> QED BY <1>7, <2>1, <2>2, TasksAre DEF BodyArrives
<1>12. \A v \in WebTasks : ~AuthPw(v) /\ ~AuthAdmin(v) /\ ~AuthPorts(v)
  BY <1>7, TasksAre DEF AuthPw, AuthAdmin, AuthPorts
<1>13. \A v \in WebTasks : ~ReadOpens(v) /\ ~PasswordOpens(v) /\ ~PasswordChecks(v)
  BY <1>7, TasksAre DEF ReadOpens, PasswordOpens, PasswordChecks, Ends
<1>14. \A v \in Tasks : ~Begins(v) /\ ~FormatStarts(v) /\ ~FormatEnds(v) /\ ~FormatFails(v)
  BY <1>7 DEF Begins, FormatStarts, FormatEnds, FormatFails
<1>15. PICK v \in Tasks : Commits(v)
  BY <1>5, <1>6, <1>8, <1>9, <1>10, <1>11, <1>12, <1>13, <1>14
     DEF Next, Step, WebStep, Auth, Writes, Tasks
<1>16. \E p : Goto(v, p)
  BY <1>15 DEF Commits, Goes, Ends
<1>17. v = t
  BY <1>7, <1>16
<1> QED BY <1>15, <1>17

(***************************************************************************)
(* seed_defaults leaves exactly the defaults after a format that succeeded *)
(* unless another request commits in between; and whatever the format did, *)
(* main leaves nothing that seeding would still change.                    *)
(***************************************************************************)
THEOREM SeedsLeaveDefaults == Safety => SeedsDefaults
<1>1. ASSUME SettingsInv, [Next]_vars, NEW t \in Tasks, SeedingEnds(t)
      PROVE  /\ sole = t => db' = Defaults
             /\ t = Main => db' = SeededAgain(db')
  <2>1. Commits(t) /\ stage[t] = 3 /\ pc[t] = "commit"
    BY <1>1, SeedsEndByCommit DEF SeedingEnds, Commits
  <2>2. db' = Seeded(db, 3) /\ db \in Shape
    BY <1>1, <2>1 DEF Commits, SettingsInv, DataTypes
  <2>3. ASSUME sole = t PROVE db' = Defaults
    <3>1. db = SoFar(3)
      BY <1>1, <2>1, <2>3 DEF SettingsInv, SeedInv, SeedOf
    <3> QED BY <2>2, <3>1, SeedsFromBlank
  <2>4. ASSUME t = Main PROVE db' = SeededAgain(db')
    <3>1. Seeded(db, 1) = db /\ Seeded(db, 2) = db
      BY <1>1, <2>1, <2>4 DEF SettingsInv, MainInv
    <3>2. /\ Seeded(Seeded(db, 3), 1) = Seeded(db, 3)
          /\ Seeded(Seeded(db, 3), 2) = Seeded(db, 3)
          /\ Seeded(Seeded(db, 3), 3) = Seeded(db, 3)
      BY <2>2, <3>1, SeedsAgain
    <3> QED BY <2>2, <3>2, Zenon DEF SeededAgain
  <2> QED BY <2>3, <2>4
<1>2. SettingsInv /\ [Next]_vars =>
        [\A t \in Tasks :
           SeedingEnds(t) => /\ sole = t => db' = Defaults
                             /\ t = Main => db' = SeededAgain(db')]_vars
  BY <1>1
<1> QED BY <1>2, SettingsHolds, PTL DEF Safety, SeedsDefaults
=============================================================================
