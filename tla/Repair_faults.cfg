SPECIFICATION Spec
CONSTANTS
  NumFiles = 2
  K = 2
  Content <- MCContent
  Orig <- Orig22
  Junk <- MCJunk
  Nil <- MCNil
  NoFile = NoFile
  Nowhere = Nowhere
  Disks <- AllDisks
  MaxParity = 2
  Workers = 2
  Chunks = 2
  CanPatch = TRUE
  Reuse = FALSE
  Faults = {"open", "read", "write", "rename", "crash"}
  MaxFaults = 2
  MaxAttempts = 2
INVARIANTS
  NoStrayTemps
  
PROPERTIES
  ReplacedOnlyByPristine
  StaysRecoverable
  
  CommitIsQuiet
