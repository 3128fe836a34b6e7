\* Two batches, two threads; sliders and destinations moved while answers are due.
SPECIFICATION Spec
CONSTANTS
  bA = bA
  bB = bB
  some = some
  all = all
  Batches = {bA, bB}
  Settings = {0, 1}
  Default = 0
  Places = {"library", "stick"}
  Suggested = "photos-kept"
  KeepSets = {some, all}
  Workers = 2
  None = None
  MaxPasses = 3
  MaxTurns = 4
INVARIANTS PreviewFollowsSliders EstimateFollowsSummary
SYMMETRY Alike
CHECK_DEADLOCK FALSE
