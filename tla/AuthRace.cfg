SPECIFICATION Spec
CONSTANTS
  ann = ann
  Handlers = {h1, h2}
  Users = {ann}
  SessionIds = {1}
  TokenIds = {1, 2, 3}
  Requests <- RaceRequests
  Lifetime = 3
  Grace = 1
  Retention = 3
  CleanupLimit = 2
  Horizon = 3
  NoRow = NoRow
  NoToken = NoToken
  NoSession = NoSession
  NoRequest = NoRequest
  Never = Never
  Closed = Closed
SYMMETRY HandlerSymmetry
INVARIANTS TypeOK OneLiveToken RevocationIsComplete LogoutTakesEffect
PROPERTIES ReplayEndsSession ImplementsLogins
