\* The script of a cancelled connect survives the disconnect.
SPECIFICATION Spec
CONSTANTS
  Op = {1, 2}
  NoOp = NoOp
  Server = {s1, s2}
  NoServer = NoServer
  NoActive = NoActive
  TuiIsRoot = FALSE
  DiskWorks = TRUE
  CrashAllowed = FALSE
SYMMETRY Symmetry
INVARIANT DisconnectIsTeardown
