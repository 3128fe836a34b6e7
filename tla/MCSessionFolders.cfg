\* Two folders opened in turn, also while a save is under way;  nothing fails.
SPECIFICATION Spec
CONSTANTS
  f1 = f1
  f2 = f2
  i1 = i1
  i2 = i2
  s1 = s1
  s2 = s2
  keep = keep
  remove = remove
  Pass = Pass
  Nobody = Nobody
  NoFolder = NoFolder
  NoChoice = NoChoice
  Folders <- TwoFolders
  Images <- OnePhoto
  Savers <- OneSaver
  Choices <- OneChoice
  Overlap = TRUE
  Faults = FALSE
INVARIANTS SessionIsConnected DecisionsStayInFolder
SYMMETRY Alike
