-------------------------- MODULE MCSettingsService --------------------------
(***************************************************************************)
(* SettingsService for TLC: the admin and one more user, two passwords,    *)
(* two masks, one port, and a set of requests for each question.           *)
(***************************************************************************)
EXTENDS SettingsService, TLC

\* The web tasks run the same code; for runs that check no liveness.
Symmetry == Permutations(WebTasks)

R(kind, user, pass) == [kind |-> kind, user |-> user, pass |-> pass]

Read == R("read", "nobody", "none")

Rename(user, pass, port) ==
  [kind |-> "name", user |-> user, pass |-> pass, port |-> port, name |-> "renamed"]

ChangePassword(user, pass, new) ==
  [kind |-> "password", user |-> user, pass |-> pass, old |-> pass, new |-> new]

Create(user, pass, target, admin, ports, new) ==
  [kind |-> "create", user |-> user, pass |-> pass,
   target |-> target, admin |-> admin, ports |-> ports, new |-> new]

SetPorts(user, pass, target, ports) ==
  [kind |-> "ports", user |-> user, pass |-> pass, target |-> target, ports |-> ports]

Delete(user, pass, target) ==
  [kind |-> "delete", user |-> user, pass |-> pass, target |-> target]

FactoryReset(user, pass) == R("reset", user, pass)

\* Admins make bob an admin, make him an ordinary user, give him all ports and
\* delete him, while bob changes his password and renames a port.
Accounts ==
  { Create("admin", "adminpw", "bob", TRUE, "all", "bobpw"),
    Create("admin", "adminpw", "bob", FALSE, "none", "bobpw"),
    ChangePassword("bob", "bobpw", "adminpw"),
    SetPorts("admin", "adminpw", "bob", "all"),
    Delete("admin", "adminpw", "bob"),
    Rename("bob", "bobpw", 0) }

\* Admins reset the settings and recreate bob while bob authenticates and
\* changes his password, and somebody reads.
Resets ==
  { Create("admin", "adminpw", "bob", TRUE, "all", "bobpw"),
    Create("admin", "adminpw", "bob", FALSE, "none", "bobpw"),
    ChangePassword("bob", "bobpw", "adminpw"),
    FactoryReset("admin", "adminpw"),
    Read }

\* Nobody changes anything.
OnlyReads == { Read }
=============================================================================
