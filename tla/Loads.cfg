SPECIFICATION LoadsSpec
CONSTANTS
  Content <- MCContent
  Junk = Junk
  Missing = Missing
  Locked = Locked
  Nowhere = Nowhere
  Disks <- MCDisks
  MaxBad = 2
  WindowSlices = 2
  Workers = {w1, w2}
  Sets <- MCSets
  Unindexed = Unindexed
  BatchPackets = 2
  Whole = Whole
  Early = Early
  Late = Late
  HeadSlices = 2
  MaxUnread = 1
  CheckSlices <- MCCheckSlices
  CheckDisks <- MCCheckDisks
  CheckRows <- MCCheckRows
INVARIANTS
  SameAsSequential
  LoadedIsSequential
  FaultsAreRefused
  ChecksDecide
PROPERTIES
  LoadsReturn
CHECK_DEADLOCK FALSE
