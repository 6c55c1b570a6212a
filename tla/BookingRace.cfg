SPECIFICATION Spec
CONSTANTS
  s1 = s1
  s2 = s2
  cut = cut
  perm = perm
  alice = alice
  bob = bob
  Stylists = {s1, s2}
  Services = {cut, perm}
  Duration <- MCDuration
  Supported <- MCSupported
  Minute = 1
  DayLength = 6
  OpenAt = 1
  CloseAt = 5
  Clients = {c1, c2}
  Owners = {alice, bob}
  RowIds = {1, 2}
  Requests <- RaceRequests
  Horizon = 3
  NoRow = NoRow
  NoTx = NoTx
  NoRequest = NoRequest
  Keep = Keep
  Ambiguous = Ambiguous
  Unknown = Unknown
  Released = Released
INVARIANTS TypeOK NoDoubleBooking AppointmentsMirrorSchedules RetriesAreSafe AnswersAreDurable
PROPERTIES NoLostUpdate ImplementsSalonBook
