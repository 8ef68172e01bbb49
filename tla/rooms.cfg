SPECIFICATION Spec
CONSTANTS
  s1 = s1
  s2 = s2
  s3 = s3
  Socket = {s1, s2, s3}
  Code = {c1}
  c1 = c1
  Rom = {r1, r2}
  r1 = r1
  r2 = r2
  Payload = {offer}
  offer = offer
  NoCode = NoCode
  CableSeats = 2
  WirelessSeats = 3
  MaxSeats = 3
SYMMETRY Symmetry
VIEW StateView
CHECK_DEADLOCK FALSE
INVARIANTS
  MembershipCoherent
  StampsMutual
PROPERTIES
  SeatsNeverReused
  EveryChangeAnnounced
  DepartureAnnounced
  StartingMatchesRouting
  DeletedOnlyWhenEmpty
  NoPointlessMerge
  KeepsPromise
