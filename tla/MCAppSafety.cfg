\* Three operations, a logout, a quick connect and the login form, by a user who may
\* kill what runs as root.
SPECIFICATION AppSpec
CONSTANTS
  Op = {1, 2, 3}
  NoOp = NoOp
  Server = {s1}
  NoServer = NoServer
  NoActive = NoActive
  TuiIsRoot = TRUE
  DiskWorks = TRUE
  CrashAllowed = FALSE
  Logout = {l1}
  MaxQuick = 1
SYMMETRY AppSymmetry
INVARIANTS
  AppTypeOK
  MainIsSignedIn
  FormIsUsable
  LogoutLostToLaterRequest
PROPERTIES
  ImplementsSignInView
