\* Three passes, each of which may be cancelled while the one before winds down.
SPECIFICATION FairSpec
CONSTANTS
  MaxStreams = 3
  MaxEvents <- TwoInTheLast
INVARIANTS CancelFindsContext AppliesCurrentPass
PROPERTIES DoneMeansDone JoinEnds PassReports
CHECK_DEADLOCK FALSE
