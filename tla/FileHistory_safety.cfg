SPECIFICATION Spec
CONSTANTS
  x = x  y = y
  Folders = {1, 2}
  Files = {3}
  Root = 0
  Names = {x, y}
  UploadPaths <- OnePath
  MaxDepth = 3
  MaxSets = 4
INVARIANTS
  TreeSound
  StatsExact
PROPERTIES
  VersionsStable
CHECK_DEADLOCK FALSE
