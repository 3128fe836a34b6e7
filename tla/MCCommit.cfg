\* Commits that fail, stop, die and are run again over what is left.
SPECIFICATION Spec
CONSTANTS
  a = a
  b = b
  c = c
  lost = lost
  main = main
  jpg = jpg
  xmp = xmp
  raw = raw
  none = none
  outside = outside
  Photos <- AllPhotos
  Known <- InSession
  Place <- InOrder
  Home <- Folders_
  Stem <- Stems
  Ext <- Exts
  Siblings <- Related
  Size <- Sizes
  BytesOf <- Contents
  Main = main
  Keeps <- KeepSome
  Plans <- SomePlans
  NoDir = none
  Outside = outside
  Folded <- LowerCase
  Before <- Library
  Merge = TRUE
  Faults = TRUE
  MaxRuns = 3
INVARIANTS CountedIsThere SiblingsFollow RecommitHeals
PROPERTIES WholeFilesStay
CHECK_DEADLOCK FALSE
