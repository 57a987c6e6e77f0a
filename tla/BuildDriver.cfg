SPECIFICATION FairSpec
CONSTANTS
  Projects <- MCProjects
  root = root
  a = a
  b = b
  c = c
  absent = absent
  Root = root
  Missing = Missing
  Workspaces <- MCWorkspaces
  MaxStack = 20
CHECK_DEADLOCK FALSE
INVARIANTS DriverInv ReportIsTrue CyclesAloneFail
PROPERTIES DriverEnds
