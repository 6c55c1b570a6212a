SPECIFICATION RegistryFairSpec
CONSTANTS
  Turns = {p1, p2}
  Ids = {a, b, c}
  Objects = {1, 2, 3, 4}
  TTL = 1
  MaxSessions = 2
  ClockLimit = 2
  NoId = NoId
  NoObject = NoObject
INVARIANT RegistryOK
PROPERTIES ConversationsAreKept EveryMessageServed
