SPECIFICATION Spec
CONSTANTS
  NumFiles = 2
  Contents <- MCContents
  Missing = Missing
  Before <- MCBefore
  Asked = {0, 1, 4, 5}
  Index = Index
  Blank = Blank
  Broken = Broken
  MaxCalls = 2
  MaxFaults = 1
  MaxChanges = 1
INVARIANTS
  BlocksMatchIndex
  CreateProtects
  RerunReplaces
  
CHECK_DEADLOCK FALSE
