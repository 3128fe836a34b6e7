\* Two pairs of similar photos and a batch run again.
SPECIFICATION Spec
CONSTANTS
  p1 = p1
  p2 = p2
  p3 = p3
  p4 = p4
  kA = kA
  kB = kB
  NoPhoto = NoPhoto
  NoKey = NoKey
  Photos = {p1, p2, p3, p4}
  Videos = {}
  GroupIds <- Nums
  Keys <- TwoKeys
  Place <- InOrder
  Lookalikes = {{p1, p2}, {p3, p4}}
  Layouts <- TwoPairs
  Steps = {"duplicates"}
  Workers = 2
  Faults = FALSE
  Resumes = FALSE
  MaxRuns = 3
  MaxChoices = 2
INVARIANTS GroupKeepsOne
