\* A commit that dies between a photo and its related files, and the next one.
SPECIFICATION Spec
CONSTANTS
  a = a
  b = b
  c = c
  lost = lost
  main = main
  jpg = jpg
  xmp = xmp
  raw = raw
  none = none
  outside = outside
  Photos <- AllPhotos
  Known <- InSession
  Place <- InOrder
  Home <- Folders_
  Stem <- Stems
  Ext <- Exts
  Siblings <- Related
  Size <- Sizes
  BytesOf <- Contents
  Main = main
  Keeps <- KeepSome
  Plans <- SomePlans
  NoDir = none
  Outside = outside
  Folded <- LowerCase
  Before <- Library
  Merge = TRUE
  Faults = TRUE
  MaxRuns = 3
INVARIANT RelatedFilesKept
CHECK_DEADLOCK FALSE
