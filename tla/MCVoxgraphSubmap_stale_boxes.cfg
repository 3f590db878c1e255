SPECIFICATION Spec
CONSTANTS
  MaxSubmaps = 2
  Extent = 2
  MaxClouds = 2
  PoseValues <- Around
  FinishMap = TRUE
  Shifts <- NoShift
INVARIANTS
  SharedSurfaceOverlaps
