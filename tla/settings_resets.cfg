\* Authentication, changes and reads while the settings are reset, under fairness.
SPECIFICATION Spec
CONSTANTS
  WebTasks = {w1, w2}
  Main = Main
  Users = {"admin", "bob"}
  Admin = "admin"
  Passwords = {"adminpw", "bobpw"}
  AdminPassword = "adminpw"
  Zeroed = Zeroed
  Masks = {"all", "none"}
  NoPorts = "none"
  AllPorts = "all"
  PortIds = {0}
  Names = {"default", "renamed"}
  DefaultName = "default"
  Missing = Missing
  None = None
  Requests <- Resets
  MaxCrashes = 1
INVARIANTS
  CredentialsAreOneMoment
PROPERTIES
  SeedsDefaults
  RequestsEnd
  ComesUp
CHECK_DEADLOCK FALSE
