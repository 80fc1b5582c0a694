SPECIFICATION Spec
CONSTANTS
  Proc = {p1, p2}
  Profile = {main, work}
  Default = main
  NoProfile = NoProfile
  Token = {t1, t2}
  NoToken = NoToken
  Node = {n1}
  NoNode = NoNode
  MaxCommands = 4
SYMMETRY Symmetric
INVARIANTS
  TypeOK
  FilesAgree
  TornNodesExplained
CHECK_DEADLOCK FALSE
