CONSTANTS
  orders = orders
  audit = audit
  Conns = {c1, c2}
  Scopes = {orders, audit}
  BackendOf <- OneBackend
  Namespaces = {n1}
  Sessions = {s1, s2}
  OpenKinds = {"find", "listIndexes"}
  MetaKinds = {"listIndexes"}
  MaxConns = 2
  ScopeLimit = 1
  GlobalLimit = 2
  Lifetime = 0
  MaxId = 2
  NoCursor = NoCursor
  NoReq = NoReq
SYMMETRY SessionSymmetry
SPECIFICATION Spec
INVARIANTS TypeOK OwnersOnly FilteredAsOpened AuthFirst WithinLimits
PROPERTIES RenewedOnlyBySuccess ForgottenForAReason
