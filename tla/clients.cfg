SPECIFICATION ClientSpec
CONSTANTS
  s1 = s1
  s2 = s2
  r1 = r1
  r2 = r2
  Socket = {s1, s2}
  Code = {c1}
  c1 = c1
  Rom = {r1, r2}
  Payload = {offer}
  offer = offer
  NoCode = NoCode
  CableSeats = 2
  WirelessSeats = 2
  MaxSeats = 2
  OwnRom <- MCOwnRom
  Library <- MCBoth
  Creator = s1
  Adapters = {TRUE, FALSE}
  Upsets = {"connection", "mesh", "session", "machine", "eject", "leave", "quit"}
  MaxUpsets = 1
  MaxPresses = 2
VIEW ClientView
CHECK_DEADLOCK FALSE
INVARIANTS
  ClientTypeOK
  MirrorFaithful
  ReadyKept
  NobodyLeftBehind
  OverMeansRunning
