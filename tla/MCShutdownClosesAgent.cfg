\* Agent clients that quitting leaves open.
SPECIFICATION Spec
CONSTANTS
  Op = {1, 2, 3}
  NoOp = NoOp
  Server = {s1, s2}
  NoServer = NoServer
  NoActive = NoActive
  TuiIsRoot = FALSE
  DiskWorks = TRUE
  CrashAllowed = FALSE
SYMMETRY Symmetry
INVARIANT ShutdownClosesAgent
