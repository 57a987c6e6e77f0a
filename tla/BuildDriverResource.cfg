SPECIFICATION Spec
CONSTANTS
  Projects = {root, a, b, c}
  root = root
  a = a
  b = b
  c = c
  absent = absent
  Root = root
  Missing = Missing
  Workspaces <- MCOneProject
  MaxStack = 20
CHECK_DEADLOCK FALSE
INVARIANTS CompiledMeansBuilt
