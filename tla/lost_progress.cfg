SPECIFICATION SavesSpec
CONSTANTS
  g1 = g1
  g2 = g2
  Game = {g1, g2}
  Name = {"a", "b"}
  DisplayName <- DisplayNames
  MaxMoments = 1
  MaxClicks = 3
  MaxFaults = 0
PROPERTIES
  NextPlayContinues
CHECK_DEADLOCK FALSE
