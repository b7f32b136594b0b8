\* Three operations on two servers, the program started again and again.
SPECIFICATION Spec
CONSTANTS
  Op = {1, 2, 3}
  NoOp = NoOp
  Server = {s1, s2}
  NoServer = NoServer
  NoActive = NoActive
  TuiIsRoot = FALSE
  DiskWorks = TRUE
  CrashAllowed = TRUE
SYMMETRY Symmetry
INVARIANTS
  TypeOK
  StatusConsistent
  BusyHasOwner
  KeyFileRemoved
  SavedIsShown
  TunnelMatches
  DisconnectTearsDown
  OneScriptAtATime
  WaitsAreServed
PROPERTIES
  LatestRequestWins
  OperationsAdvance
  TunnelIsTakenDown
  ImplementsTunnelView
