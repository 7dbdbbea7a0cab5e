\* Power fails during the first boot.
SPECIFICATION Safety
CONSTANTS
  WebTasks = {w1, w2}
  Main = Main
  Users = {"admin", "bob"}
  Admin = "admin"
  Passwords = {"adminpw", "bobpw"}
  AdminPassword = "adminpw"
  Zeroed = Zeroed
  Masks = {"all", "none"}
  NoPorts = "none"
  AllPorts = "all"
  PortIds = {0}
  Names = {"default", "renamed"}
  DefaultName = "default"
  Missing = Missing
  None = None
  Requests <- OnlyReads
  MaxCrashes = 1
INVARIANTS
  AdminIsSeeded
CHECK_DEADLOCK FALSE
