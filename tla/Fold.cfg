SPECIFICATION FoldSpec
CONSTANTS
  NumInputs = 5
  NumRows = 2
  NumRanges = 2
  BatchLimit = 2
  NumWorkers = 3
  MayRefuse = {1, 2, 3, 4, 5}
  PureInputs = 6
  PureRows = 5
  PureGoroutines = 3
  PureRefuse = {0, 2, 4, 5}
INVARIANTS
  NoBankRace
  OneFolderPerRange
  NoneLeft
  PureGoroutinesBehave
PROPERTIES
  InputsInOrder
  KeepsPromise
  PureKeepsPromise
  CallReturns
CHECK_DEADLOCK FALSE
