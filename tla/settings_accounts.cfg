\* Accounts created, changed, used and deleted at once.
SPECIFICATION Safety
CONSTANTS
  WebTasks = {w1, w2, w3}
  Main = Main
  Users = {"admin", "bob"}
  Admin = "admin"
  Passwords = {"adminpw", "bobpw"}
  AdminPassword = "adminpw"
  Zeroed = Zeroed
  Masks = {"all", "none"}
  NoPorts = "none"
  AllPorts = "all"
  PortIds = {0}
  Names = {"default", "renamed"}
  DefaultName = "default"
  Missing = Missing
  None = None
  Requests <- Accounts
  MaxCrashes = 1
SYMMETRY Symmetry
INVARIANTS
  TypeOK
  DeletedStayPowerless
  UsersAreWhole
PROPERTIES
  ChangesAreAuthorized
CHECK_DEADLOCK FALSE
