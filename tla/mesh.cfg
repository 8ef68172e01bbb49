SPECIFICATION MeshLive
CONSTANTS
  Members = 3
  Trickling = {1, 2}
  MaxMerges = 2
  Upsets = {"edge", "leave"}
  MaxUpsets = 1
CHECK_DEADLOCK FALSE
PROPERTIES
  UndisturbedLinks
  
