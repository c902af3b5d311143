--------------------------- MODULE ReconstructionPlan ---------------------------
(***************************************************************************)
(* The two ways to rebuild lost data in rsec16: a Coder's ReconstructData   *)
(* (coder.go) and a PAR2ReconstructionPlan (par2_plan.go), which chooses    *)
(* between the additive transform, the Lagrange matrix and row reduction,   *)
(* sizes its chunks to a memory budget, and folds.  Every row is followed   *)
(* for one symbol; who computes what when is in FoldInputsGF16,             *)
(* FoldInputsPureGo and TransformFold.                                      *)
(***************************************************************************)
EXTENDS Par2Transform, ChunkSizes

CONSTANTS
  Codings,           \* [code, dataShards, parityShards, lost, gone]: what a Coder is given
  Repairs,           \* [dataShards, available, missing, exponents, workers, budget]: what a plan is given
  TransformMissing, TransformCells, TransformBudget,  \* 1024, 8 << 20 and 64 << 20 in the code
  LagrangeMissing,   \* 128 in the code
  DefaultBudget      \* 512 << 20 in the code

VARIABLES
  planState,   \* "none", "open", "refused", "closed"; "coder" when a Coder has answered
  problem,     \* the Repair or Coding at hand
  method, plan, \* how the plan rebuilds, and with what
  stored,      \* the symbol of every data shard before the loss
  rebuilt,     \* the lost shards as the call rebuilt them; empty when it did not
  answer       \* the error of the last call; what ChunkSize answered is ChunkSizes' variable sized
planVariables == <<planState, problem, method, plan, stored, rebuilt, sized, answer>>

Fresh ==
  /\ planState = "none" /\ problem = <<>> /\ method = "none" /\ plan = <<>>
  /\ stored = <<>> /\ rebuilt = <<>> /\ sized = Unsized /\ answer = "none"

\* A plan answers one call here: what a call leaves behind for the next is in TransformFold.
Unused == rebuilt = <<>> /\ sized = Unsized

\* Data of which one shard is not zero: a linear map that rebuilds these rebuilds all.
OneShard(n, k) == [x \in 0..(n - 1) |-> IF x = k THEN 1 ELSE 0]

-----------------------------------------------------------------------------
\* A Coder: parity is generated, shards are lost, and ReconstructData is called.
ParityMatrixOf(c) ==
  IF c.code = "cauchy" THEN CauchyParityMatrix(c.dataShards, c.parityShards)
  ELSE VandermondeParityMatrix(c.dataShards, c.parityShards)
TooManyShards(c) ==
  IF c.code = "cauchy" THEN c.dataShards + c.parityShards > Order - 1
  ELSE c.dataShards > Len(generators) \/ c.parityShards > Order - 1
Without(shards, rows) == [x \in DOMAIN shards \ rows |-> shards[x]]

RefuseCoder(c) ==
  /\ planState = "none" /\ TooManyShards(c)
  /\ planState' = "coder" /\ problem' = c /\ answer' = "too many"
  /\ UNCHANGED <<method, plan, stored, rebuilt, sized>>

Reconstructed(c, matrix, data) ==
  ReconstructData(matrix, c.dataShards, Without(data, c.lost), Without(GenerateParity(matrix, data), c.gone))
Reconstruct(c, k) ==
  /\ planState = "none" /\ ~TooManyShards(c)
  /\ stored' = OneShard(c.dataShards, k)
  /\ \E r \in {Reconstructed(c, ParityMatrixOf(c), stored')} :
       answer' = r.err /\ rebuilt' = IF r.err = "none" THEN Worked(r.data) ELSE <<>>
  /\ planState' = "coder" /\ problem' = c
  /\ UNCHANGED <<method, plan, sized>>

-----------------------------------------------------------------------------
\* NewPAR2ReconstructionPlan.
Valid(p) ==
  /\ p.dataShards \in 1..Len(generators)
  /\ Len(p.available) + Len(p.missing) = p.dataShards
  /\ p.missing # <<>> /\ Len(p.exponents) = Len(p.missing)
  /\ ToSet(p.available \o p.missing) = 0..(p.dataShards - 1)
  /\ ToSet(p.exponents) \subseteq 0..(Order - 1)
Budget(p) == IF p.budget = 0 THEN DefaultBudget ELSE p.budget

\* The shape of the exponents is not looked at for the Lagrange matrix.
MethodBySize(p) == IF Len(p.missing) >= LagrangeMissing THEN "lagrange" ELSE "matrix"
Method(p) ==
  CASE /\ Consecutive(p.exponents) /\ Len(p.missing) >= TransformMissing
       /\ p.dataShards * Len(p.missing) >= TransformCells /\ Budget(p) >= TransformBudget -> "transform"
    [] OTHER -> IF Consecutive(p.exponents) /\ Len(p.missing) >= LagrangeMissing THEN "lagrange" ELSE "matrix"

RowsOf(p) == VandermondeRows(p.dataShards, p.exponents)
AllRows(p) == [x \in DOMAIN p.exponents |-> x - 1]
Solution(p) ==
  CASE Method(p) = "transform" -> Solved(NewPAR2Transform(p.available, p.missing, p.exponents))
    [] Method(p) = "lagrange" -> Solved(Par2LagrangeMatrix(p.dataShards, p.available, p.missing, p.exponents))
    [] Method(p) = "matrix" -> ReconstructionMatrix(RowsOf(p), p.dataShards, p.available, p.missing, AllRows(p))

Opened(solution) ==
  IF solution.ok
  THEN /\ planState' = "open" /\ answer' = "none"
       /\ plan' = IF method' = "transform" THEN solution.m ELSE [matrix |-> solution.m]
  ELSE planState' = "refused" /\ answer' = "singular" /\ UNCHANGED plan
NewPlan(p) ==
  /\ planState = "none"
  /\ problem' = p
  /\ IF Valid(p) THEN method' = Method(p) /\ \E solution \in {Solution(p)} : Opened(solution)
     ELSE planState' = "refused" /\ answer' = "invalid" /\ UNCHANGED <<method, plan>>
  /\ UNCHANGED <<stored, rebuilt, sized>>

\* Fold: the survivors' symbols and those of the chosen recovery blocks become those
\* of the missing rows.
Folded(p, data) ==
  LET survivors == FromZero([x \in DOMAIN p.available |-> data[p.available[x]]])
      recovery == GenerateParity(RowsOf(p), data)
      column == survivors @@ [x \in Len(p.available)..(p.dataShards - 1) |-> recovery[x - Len(p.available)]]
  IN  IF method = "transform" THEN FoldRange(plan, survivors, recovery) ELSE ApplyMatrix(plan.matrix, column)
AtRows(missing, rows) ==
  Worked([row \in ToSet(missing) |-> rows[(CHOOSE x \in DOMAIN missing : missing[x] = row) - 1]])
Fold(k) ==
  /\ planState = "open" /\ Unused /\ k < problem.dataShards
  /\ stored' = OneShard(problem.dataShards, k)
  /\ rebuilt' = AtRows(problem.missing, Folded(problem, stored'))
  /\ answer' = "none"
  /\ UNCHANGED <<planState, problem, method, plan, sized>>

\* After Close, Fold and ChunkSize refuse.
ClosePlan ==
  /\ planState = "open"
  /\ planState' = "closed"
  /\ UNCHANGED <<problem, method, plan, stored, rebuilt, sized, answer>>
UseClosed ==
  /\ planState = "closed"
  /\ answer' = "closed" /\ rebuilt' = <<>> /\ sized' = Unsized
  /\ UNCHANGED <<planState, problem, method, plan, stored>>

-----------------------------------------------------------------------------
\* ChunkSize, of the plan that was opened.
DimensionsOf(p) ==
  [transform |-> method = "transform", inputs |-> p.dataShards, outputs |-> Len(p.missing),
   degree |-> IF method = "transform" THEN plan.degree ELSE 0,
   workers |-> Max({1, p.workers}), budget |-> Budget(p)]
ChunkSizeOf(slice, build) ==
  /\ planState = "open" /\ Unused
  /\ AskChunkSize(DimensionsOf(problem), slice, build)
  /\ answer' = "none"
  /\ UNCHANGED <<planState, problem, method, plan, stored, rebuilt>>

PlanStep ==
  \/ \E c \in Codings : RefuseCoder(c) \/ \E k \in 0..(c.dataShards - 1) : Reconstruct(c, k)
  \/ \E p \in Repairs : NewPlan(p)
  \/ \E k \in Elements : Fold(k)
  \/ \E slice \in Slices, build \in Builds : ChunkSizeOf(slice, build)
  \/ ClosePlan \/ UseClosed

-----------------------------------------------------------------------------
\* Every method rebuilds exactly what was lost, whichever rows are missing and
\* whichever recovery blocks replace them (coder.go:255-260, par2_plan.go:132-134).
RestoresTheLost == \A row \in DOMAIN rebuilt : rebuilt[row] = stored[row]

\* Recovery rows determine the missing ones when no two contents of these look alike
\* to them; it is enough to tell content apart from zero, up to a factor.
Contents(k) == {v \in [0..(k - 1) -> Elements] : \E x \in 0..(k - 1) : v[x] = 1 /\ \A y \in 0..(x - 1) : v[y] = 0}
Determined(m, k) == \A v \in Contents(k) : \E r \in DOMAIN m : ApplyMatrix(m, v)[r] # 0

\* Whether a plan and a Coder are right to answer as they do.
PlanIsRight(p, err) ==
  /\ err = "singular" <=> ~Determined(UnknownSide(RowsOf(p), p.missing, AllRows(p)), Len(p.missing))
  /\ Consecutive(p.exponents) => err # "singular"
CoderIsRight(c, err) ==
  LET k == Cardinality(c.lost)
      present == Ascending((0..(c.parityShards - 1)) \ c.gone)
      used == SubSeq(present, 1, k)
  IN  /\ err = "not enough" <=> Len(present) < k
      /\ Len(present) >= k =>
           (err = "singular" <=> ~Determined(UnknownSide(ParityMatrixOf(c), Ascending(c.lost), used), k))
      /\ c.code = "cauchy" => err # "singular"

\* A repair is refused for a singular matrix exactly when its recovery blocks do not
\* determine what is missing, for which they must be at least as many (coder.go:225-230,
\* 264-270); a Coder over a Cauchy matrix, and a plan over consecutive blocks, never are.
RefusedIffUndetermined ==
  [][planState = "none" =>
       /\ (planState' \in {"open", "refused"} /\ answer' # "invalid") => PlanIsRight(problem', answer')
       /\ (planState' = "coder" /\ answer' # "too many") => CoderIsRight(problem', answer')]_planVariables
===============================================================================
