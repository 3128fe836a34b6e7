SPECIFICATION MCSpec
CONSTANTS
  MaxCalls = 2
  Size = 2
  AnyStart = FALSE
CHECK_DEADLOCK FALSE
INVARIANT PrepHasDownload
