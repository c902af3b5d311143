SPECIFICATION Spec
CONSTANTS
  NumFiles = 2
  K = 3
  Content <- Content23
  Orig <- Orig23Dup
  Junk <- MCJunk
  Nil <- MCNil
  NoFile = NoFile
  Nowhere = Nowhere
  Disks <- Disks23
  MaxParity = 2
  Workers = 1
  Chunks = 2
  CanPatch = TRUE
  Reuse = FALSE
  Faults = {"silent", "rename"}
  MaxFaults = 2
  MaxAttempts = 2
INVARIANTS
  ReportedArePristine
  SuccessMeansWhole
