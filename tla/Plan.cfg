SPECIFICATION PlanRunSpec
CONSTANTS
  NumInputs = 3
  NumRows = 1
  MaxWorkers = 3
  Stripe = 2
  MaxLength = 5
  MaxCalls = 2
  MayRefuse = {0, 1, 2}
  MayExhaust = TRUE
  FieldBits = 4
  Modulus = 19
  Generator = 3
  NaiveCount = 3
  TileLog = 1
  TaskLimit = 2
  RegionRows = 8
  MaxContexts = 3
  Masks <- MCMasks
  Jobs <- TransformJobs
  Programs <- programs
  Vectors <- unitVectors
  RowPlus <- Plus
  RowTimes <- Times
  DeepMissing = 2
  Codings <- MCCodings
  Repairs <- MCRepairs
  Slices = {2, 256, 258, 1024, 20000}
  Builds <- MCBuilds
  TransformMissing = 3
  TransformCells = 15
  TransformBudget = 50
  LagrangeMissing = 2
  DefaultBudget = 1000000
INVARIANTS
  EachOnce
  ProgramsCompute
  RunsInOrder
  RestoresTheLost
  ChunkFits
PROPERTIES
  PlanKeepsPromise
  RefusedIffUndetermined
  Returns
CHECK_DEADLOCK FALSE
