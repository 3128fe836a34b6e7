SPECIFICATION MCSpec
CONSTANTS
  Radius = 25
  Features <- MCFeatures
  Difference <- MCDifference
  PeakRatio = 3
  PeakFloor = 12
  MinCells = 2
  MinFace = 5
  MinDuration = 1500
  VideoBlur = 100
  Motion = 4
  Libraries <- MCLibraries
  Requests <- MCRequests
  FaceModel = TRUE
  Checkpoint = 2
  MaxRuns = 2
  MaxLosses = 1
INVARIANTS ResumeShowsTheStream PreviewCountsTheRun WorkIsKept LeadersAreApart
CHECK_DEADLOCK FALSE
