SPECIFICATION Spec
CONSTANTS
  NumFiles = 2
  K = 2
  Content <- MCContent
  Orig <- Orig22
  Junk <- MCJunk
  Nil <- MCNil
  NoFile = NoFile
  Nowhere = Nowhere
  Disks <- AllDisks
  MaxParity = 2
  Workers = 2
  Chunks = 1
  CanPatch = TRUE
  Reuse = TRUE
  Faults = {"rename"}
  MaxFaults = 1
  MaxAttempts = 2
PROPERTIES
  ReplacedOnlyByPristine
