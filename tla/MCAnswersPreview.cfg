\* Violated (README.md).
SPECIFICATION Spec
CONSTANTS
  bA = bA
  bB = bB
  some = some
  all = all
  Batches = {bA, bB}
  Settings = {0, 1}
  Default = 0
  Places = {"library", "stick"}
  Suggested = "photos-kept"
  KeepSets = {some, all}
  Workers = 2
  None = None
  MaxPasses = 2
  MaxTurns = 4
INVARIANT PreviewIsOfThisBatch
CHECK_DEADLOCK FALSE
