SPECIFICATION SessionSpec
CONSTANTS
  Content <- MCContent
  Junk = Junk
  Missing = Missing
  Locked = Locked
  Nowhere = Nowhere
  Disks <- MCDisks
  MaxBad = 1
  WindowSlices = 1
  Workers = {w1, w2}
  Sets <- MCSets
  Unindexed = Unindexed
  BatchPackets = 1
INVARIANTS
  SessionIsSequential
  NobodyIsLeft
  RepairStartsFromScan
PROPERTIES
  SessionReturns
CHECK_DEADLOCK FALSE
