\* Every sweep script's grid, mapped row by row as its loop does.
CONSTANTS
  Designs <- MCDesigns
SPECIFICATION Spec
INVARIANT DistinctLevels
CHECK_DEADLOCK FALSE
