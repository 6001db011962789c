CONSTANTS
  Depths = {2}
  ForkDepth = 2
  MaxBlocks = 4
  MaxForks = 1
  MaxDisconnects = 1
  MaxFailures = 0
  Lagging = FALSE
SPECIFICATION Spec
INVARIANT BackfilledIsKept
CHECK_DEADLOCK FALSE
