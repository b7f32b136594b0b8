\* The whole program under the fairness of the event loop: two operations, a
\* logout and a crash.
SPECIFICATION AppFairSpec
CONSTANTS
  Op = {1, 2}
  NoOp = NoOp
  Server = {s1}
  NoServer = NoServer
  NoActive = NoActive
  TuiIsRoot = FALSE
  DiskWorks = TRUE
  CrashAllowed = TRUE
  Logout = {l1}
  MaxQuick = 0
PROPERTIES
  BusySettles
  PollersEnd
  QuitEnds
  LogoutEnds
