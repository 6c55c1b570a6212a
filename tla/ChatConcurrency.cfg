SPECIFICATION RegistrySpec
CONSTANTS
  Turns = {p1, p2}
  Ids = {a, b}
  Objects = {1, 2, 3}
  TTL = 1
  MaxSessions = 2
  ClockLimit = 1
  NoId = NoId
  NoObject = NoObject
INVARIANT OneTurnPerSession
