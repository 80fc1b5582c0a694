SPECIFICATION Spec
CONSTANTS
  Ticket = {t1}
  Root = {x, y}
  NoRoot = NoRoot
  Agent = {a1, a2}
  User = user
  Proc = {p1, p2, p3}
  NoRequest = NoRequest
SYMMETRY Slots
INVARIANTS
  TypeOK
  CommitAnswersAgree
  RevocationsDurable
  DeletionsDurable
  LateUploadsBounded
PROPERTIES
  ImplementsLifecycle
