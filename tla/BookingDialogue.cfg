SPECIFICATION ChatSpec
CONSTANTS
  s1 = s1
  s2 = s2
  cut = cut
  perm = perm
  alice = alice
  bob = bob
  room = room
  Stylists = {s1, s2}
  Services = {cut, perm}
  Duration <- MCDuration
  Supported <- MCSupported
  Minute = 1
  DayLength = 6
  OpenAt = 1
  CloseAt = 5
  Clients = {chat}
  Chats = {chat}
  Owners = {alice, bob, room}
  Speakers = {alice}
  SessionId <- MCSessionId
  RowIds = {1, 2}
  Requests <- OtherRequests
  Messages <- MCMessages
  Readings <- MCReadings
  SlotInterval = 1
  MaxStylists = 1
  MaxSlots = 2
  StylistId <- MCStylistId
  Tagged = {s1}
  Horizon = 1
  NoRow = NoRow
  NoTx = NoTx
  NoRequest = NoRequest
  Keep = Keep
  Ambiguous = Ambiguous
  Unknown = Unknown
  Released = Released
  Unset = Unset
  NoCall = NoCall
  Nothing = Nothing
CONSTRAINT OneBookingPerChat
INVARIANT DialogueIsCoherent
PROPERTY OfferIsBookedAsShown
PROPERTY NoStylistIsAssigned
PROPERTY OffersAreTheBest
