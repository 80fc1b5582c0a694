SPECIFICATION Spec
CONSTANTS
  Client = {c1}
  Code = {k1, k2, k3}
  User = {u1, u2}
  Proc = {p1, p2, p3}
  NoRow = NoRow
  NoRequest = NoRequest
SYMMETRY Slots
INVARIANTS
  TypeOK
  KeysWereConfirmed
  CodesSpent
PROPERTIES
  LiveKeysStay
