\* Every pass, over every layout; the app is closed and the session resumed.
SPECIFICATION Spec
CONSTANTS
  p1 = p1
  p2 = p2
  p3 = p3
  p4 = p4
  kA = kA
  kB = kB
  NoPhoto = NoPhoto
  NoKey = NoKey
  Photos = {p1, p2, p3}
  Videos = {p3}
  GroupIds <- Nums
  Keys <- TwoKeys
  Place <- InOrder
  Lookalikes = {{p1, p2, p3}}
  Layouts <- ThreeLayouts
  Steps = {"quality", "duplicates", "junk", "video"}
  Workers = 2
  Faults = FALSE
  Resumes = TRUE
  MaxRuns = 2
  MaxChoices = 0
INVARIANT ShownIsStored
