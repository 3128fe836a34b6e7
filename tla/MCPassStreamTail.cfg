\* The end of a successful stream.
SPECIFICATION Spec
CONSTANTS
  p1 = p1
  p2 = p2
  m = m
  a = a
  b = b
  Calls <- OnePass
  Passes <- OnePass
  Recording <- OnePass
  Item <- OneItem
  Complete = Complete
  NoEvent = NoEvent
  MaxEvents = 1
INVARIANTS SuccessEndsWithComplete
CHECK_DEADLOCK FALSE
