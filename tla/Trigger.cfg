CONSTANTS
  Depths = {1, 2}
  ForkDepth = 1
  MaxBlocks = 3
  MaxForks = 1
  MaxDisconnects = 1
  MaxFailures = 1
  Lagging = TRUE
SPECIFICATION FairSpec
INVARIANTS ActivationIsKept BackfillMeetsStream
PROPERTIES TriggersWhenConfirmed ActivationTriggers
CHECK_DEADLOCK FALSE
