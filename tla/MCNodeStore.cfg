SPECIFICATION Spec
CONSTANTS
  leaf = leaf
  tail = tail
  file = file
  dict = dict
  big = big
  Realm = {r1}
  Node = {leaf, dict, big}
  Proc = {p1, p2}
  NoRequest = NoRequest
  Kind <- KindOf
  Children <- ChildrenOf
  Payload <- PayloadOf
  HeaderSize = 16
  HashSize = 16
  QuotaLimit <- Limited
  MaxCount = 2
SYMMETRY Slots
INVARIANTS
  TypeOK
  BlobsClosed
  RowsBacked
  ReadersSeeWholeNodes
  AnsweredPutsSurvive
  ParentsCounted
  OvershootBounded
