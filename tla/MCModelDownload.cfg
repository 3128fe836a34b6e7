SPECIFICATION MCSpec
CONSTANTS
  MaxCalls = 3
  Size = 2
  AnyStart = TRUE
CHECK_DEADLOCK FALSE
INVARIANT JunkPassHasModel
PROPERTIES JunkIsAnswered PrepEnds
