SPECIFICATION FairSpec
CONSTANTS
  SliceBytes = 3
  WindowSlices = 2
  SearchLimits = {0, 1, 2, 4}
  Sizes = {0, 5, 9, 10}
  MaxKnown = 10
INVARIANTS
  StreamedIsWhole
  InPlaceAreFound
PROPERTIES
  Terminates
CHECK_DEADLOCK FALSE
