SPECIFICATION Spec
CONSTANTS
  leaf = leaf
  tail = tail
  file = file
  dict = dict
  big = big
  Realm = {r1, r2}
  Node = {tail, file}
  Proc = {p1, p2}
  NoRequest = NoRequest
  Kind <- KindOf
  Children <- ChildrenOf
  Payload <- PayloadOf
  HeaderSize = 16
  HashSize = 16
  QuotaLimit <- Unlimited
  MaxCount = 1
SYMMETRY SlotsAndRealms
INVARIANTS
  UsageLedger
PROPERTIES
  ImplementsContentStore
