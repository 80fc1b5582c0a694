SPECIFICATION FairSpec
CONSTANTS
  Flow = {f1, f2}
  Client = {c1, c2}
  NoClient = NoClient
  MaxKeys = 2
INVARIANTS
  TypeOK
PROPERTIES
  ConfirmedPairingsServe
  GrantedKeysKept
  RequestsEnd
