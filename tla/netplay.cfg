SPECIFICATION Spec
CONSTANTS
  p1 = p1
  p2 = p2
  Player <- TwoPlayers
  Unplug = 1
  Horizon = 2
  MaxTicks = 2
  MaxFlight = 1
  MaxUpsets = 1
INVARIANTS
  WindowsFit
  DroppedIsReceived
  SkewBounded
  QuitIsReal
PROPERTIES
  TroubleEndsAll
  InputsGetThrough
CHECK_DEADLOCK FALSE
