SPECIFICATION Spec
CONSTANTS
  ann = ann
  Handlers = {h1}
  Users = {ann}
  SessionIds = {1, 2}
  TokenIds = {1, 2, 3}
  Requests <- AllRequests
  Lifetime = 3
  Grace = 1
  Retention = 1
  CleanupLimit = 1
  Horizon = 4
  NoRow = NoRow
  NoToken = NoToken
  NoSession = NoSession
  NoRequest = NoRequest
  Never = Never
  Closed = Closed
INVARIANT OneLiveToken
PROPERTY ImplementsLogins
