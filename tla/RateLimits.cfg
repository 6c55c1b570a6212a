SPECIFICATION Spec
CONSTANTS
  client = client
  pair = pair
  stranger = stranger
  Threads = {p1, p2}
  Keys <- MCKeys
  Limit <- MCLimit
  Window <- MCWindow
  MaxBuckets = 2
  CleanupInterval = 2
  Requests <- MCRequests
  Horizon = 3
  NoKey = NoKey
  NoRequest = NoRequest
SYMMETRY ThreadSymmetry
INVARIANTS BoundedMemory LimitHolds
PROPERTY RetryAfterSuffices
