SPECIFICATION Spec
CONSTANTS
  SliceBytes = 3
  WindowSlices = 4
  SearchLimits = {2}
  Sizes = {18}
  MaxKnown = 3
INVARIANTS
  LimitedIsWhole
CHECK_DEADLOCK FALSE
