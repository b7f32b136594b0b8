SPECIFICATION MainFairSpec
CONSTANTS
  Push = {p1, p2}
  Port = {n1, n2}
  NoPort = NoPort
  Server = {s1, s2}
  NoServer = NoServer
  MaxQuick = 1
INVARIANTS
  MainTypeOK
  PanelIsCurrent
  ReportIsTrue
PROPERTIES
  ConfigIsTheUsers
  PanelCatchesUp
CHECK_DEADLOCK FALSE
