SPECIFICATION PageSpec
CONSTANTS
  Members = 3
  Trickling = {}
  MaxMerges = 2
  Upsets = {"edge", "leave"}
  MaxUpsets = 1
  g1 = g1
  g2 = g2
  Game = {g1, g2}
  Name = {"a", "b"}
  DisplayName <- DisplayNames
  MaxMoments = 1
  MaxClicks = 4
  MaxFaults = 1
  Capacity = 5
  PushCapacity = 2
  Quantum = 1
  ReportEvery = 2
  SinkTarget = 3
  MinChunk = 1
  Prime = 2
  CoreTarget = 1
  Discard = 3
  MaxFrames = 8
  MaxReports = 2
  Plain = {"KeyZ"}
  Sides = {"ShiftLeft", "ShiftRight"}
  Button = {"A"}
  Players = 2
  Joypads = {0, 1, 768}
  MaxRows = 3
INVARIANTS
  MeshTypeOK
  BlameIsFair
  SameBoots
  PickIsReal
  RingIsFifo
  HeldIsDown
  TailReadable
PROPERTIES
  PruneOnlyGhosts
CHECK_DEADLOCK FALSE
