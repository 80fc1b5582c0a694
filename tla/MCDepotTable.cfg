SPECIFICATION TableSpec
CONSTANTS
  Depot = {d1}
  Key = {x, y, z}
  NoRoot = NoRoot
  Title = {main}
  NoTitle = NoTitle
  SystemMaxHistory = 2
  NoLimit = NoLimit
  Proc = {p1, p2}
  NoCall = NoCall
SYMMETRY Slots
INVARIANTS
  TableTypeOK
  StraysWereDepots
PROPERTIES
  UndisturbedCommitKeepsAll
