SPECIFICATION Spec
CONSTANTS
  f1 = f1
  f2 = f2
  f3 = f3
  Call = {c1, c2}
  Name = {"a", "b"}
  Data <- MCData
  Node <- MCNode
  Written = {f3}
  Root <- MCRoot
  Mounted <- MCMounted
  Path <- MCPath
  Depth = 3
  MaxCalls = 3
  NoValue = NoValue
SYMMETRY Slots
CHECK_DEADLOCK FALSE
INVARIANTS
  BuildsSucceed
