\* A relaunch shows the saved server, whatever the link is.
SPECIFICATION Spec
CONSTANTS
  Op = {1, 2, 3}
  NoOp = NoOp
  Server = {s1, s2}
  NoServer = NoServer
  NoActive = NoActive
  TuiIsRoot = FALSE
  DiskWorks = TRUE
  CrashAllowed = FALSE
SYMMETRY Symmetry
INVARIANT AttachShowsTunnel
