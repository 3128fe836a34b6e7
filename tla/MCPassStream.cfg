\* Two passes that overlap, fail and are cancelled, with events to lose or swap.
SPECIFICATION FairSpec
CONSTANTS
  p1 = p1
  p2 = p2
  m = m
  a = a
  b = b
  Calls <- TwoPasses
  Passes <- TwoPasses
  Recording <- OnePass
  Item <- OneItem
  Complete = Complete
  NoEvent = NoEvent
  MaxEvents = 2
INVARIANTS OnePassAtATime StampedRunsAreWhole
PROPERTIES DeliversInOrder EveryCallReturns
CHECK_DEADLOCK FALSE
