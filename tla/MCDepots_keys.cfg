SPECIFICATION Spec
CONSTANTS
  Depot = {d1, d2}
  Node = {n1}
  EmptyNode = EmptyNode
  Key <- Names
  NoRoot = NoRoot
  Title = {main, other}
  MainTitle = main
  NoTitle = NoTitle
  SystemMaxHistory = 2
  NoLimit = NoLimit
  Proc = {p1, p2}
  NoCall = NoCall
  NoRequest = NoRequest
SYMMETRY Slots
INVARIANT StoredRootsAccepted
