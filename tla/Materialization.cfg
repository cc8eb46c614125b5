SPECIFICATION Spec
CONSTANTS
  p1 = p1
  p2 = p2
  Events = {1, 2, 3}
  Timestamps <- MCTimestamps
  WindowSize = 2
  LateInterval = 1
  Processes = {p1, p2}
  MaxStamp = 2
SYMMETRY Symmetry
INVARIANTS
  TypeOK
  WatermarkCovers
  RowsMatchRebuild
