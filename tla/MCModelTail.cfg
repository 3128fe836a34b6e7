\* The event that says that the model is there, left unread.
SPECIFICATION MCSpec
CONSTANTS
  MaxCalls = 1
  Size = 1
  AnyStart = FALSE
CHECK_DEADLOCK FALSE
PROPERTY WaitEnds
