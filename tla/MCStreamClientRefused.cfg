\* A pass that is cancelled and started again.
SPECIFICATION FairSpec
CONSTANTS
  MaxStreams = 2
  MaxEvents <- OneEach
INVARIANT NoPassRefused
CHECK_DEADLOCK FALSE
