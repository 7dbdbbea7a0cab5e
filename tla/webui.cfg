\* Logins, first logins, changes and toggles that overlap, and late answers.
SPECIFICATION Spec
CONSTANTS
  admin = admin
  user = user
  default = default
  other = other
  Accounts <- TwoAccounts
  Users = {admin, user}
  Admin = admin
  Passwords = {default, other}
  DefaultPassword = default
  PortCount = 3
  Calls = {c1, c2}
  MaxTroubles = 2
  None = None
  Garbage = Garbage
INVARIANTS
  TypeOK
  CoveredWithoutCredentials
  OpenOnlyIfProven
