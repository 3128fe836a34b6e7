\* One pass over two batches: runs, cancels, failures, choices, trips edited.
SPECIFICATION Spec
CONSTANTS
  p1 = p1
  p2 = p2
  p3 = p3
  p4 = p4
  kA = kA
  kB = kB
  NoPhoto = NoPhoto
  NoKey = NoKey
  Photos = {p1, p2, p3}
  Videos = {}
  GroupIds <- Nums
  Keys <- TwoKeys
  Place <- InOrder
  Lookalikes = {{p1, p2, p3}}
  Layouts <- TwoLayouts
  Steps = {"duplicates"}
  Workers = 2
  Faults = TRUE
  Resumes = FALSE
  MaxRuns = 2
  MaxChoices = 1
INVARIANTS ChoicesWin GroupsDisjoint RunAllForgetsNone DoneMeansCovered
