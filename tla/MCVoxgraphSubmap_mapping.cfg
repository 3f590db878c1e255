SPECIFICATION Spec
CONSTANTS
  MaxSubmaps = 2
  Extent = 2
  MaxClouds = 1
  PoseValues <- Around
  FinishMap = FALSE
  Shifts <- OneBlock
INVARIANTS
  TypeOK
  SharedSurfaceOverlaps
  BoxesFresh
