\* One folder, two workers, failing statements and crashes.
SPECIFICATION Spec
CONSTANTS
  f1 = f1
  f2 = f2
  i1 = i1
  i2 = i2
  s1 = s1
  s2 = s2
  keep = keep
  remove = remove
  Pass = Pass
  Nobody = Nobody
  NoFolder = NoFolder
  NoChoice = NoChoice
  Folders <- OneFolder
  Images <- Photos
  Savers <- TwoSavers
  Choices <- OneChoice
  Overlap = FALSE
  Faults = TRUE
INVARIANTS TransactionsHaveOwners DecisionsWhole StampVouchesForRows IndexWholeUnlessStopped
SYMMETRY Alike
