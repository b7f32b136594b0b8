\* A quick connect that is dispatched while a logout is under way.
SPECIFICATION AppSpec
CONSTANTS
  Op = {1, 2}
  NoOp = NoOp
  Server = {s1}
  NoServer = NoServer
  NoActive = NoActive
  TuiIsRoot = FALSE
  DiskWorks = TRUE
  CrashAllowed = FALSE
  Logout = {l1}
  MaxQuick = 1
SYMMETRY AppSymmetry
INVARIANT LogoutDropsTunnel
