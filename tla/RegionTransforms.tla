--------------------------- MODULE RegionTransforms ---------------------------
(***************************************************************************)
(* The region programs that RegionRun runs: those of the transforms of      *)
(* AdditiveBasis, over vectors that tell linear maps apart.                 *)
(***************************************************************************)
EXTENDS RegionPrograms, RegionRun

CONSTANT Masks   \* sets of rows a pruned transform is asked for

TransformJobs ==
  [kind : {"toNovel", "fromNovel", "fft", "inverse fft", "derivative"}, mask : {RowIds}]
    \cup [kind : {"pruned", "pruned inverse"}, mask : Masks]

ProgramOf(j) ==
  CASE j.kind = "toNovel" -> ConversionProgram(RegionRows, FALSE)
    [] j.kind = "fromNovel" -> ConversionProgram(RegionRows, TRUE)
    [] j.kind = "fft" -> FftProgram(RegionRows, FALSE)
    [] j.kind = "inverse fft" -> FftProgram(RegionRows, TRUE)
    [] j.kind = "derivative" -> DerivativeProgram(RegionRows)
    [] j.kind = "pruned" -> PrunedFFT(RegionRows, FALSE, j.mask)
    [] j.kind = "pruned inverse" -> PrunedFFT(RegionRows, TRUE, j.mask)
programs == Worked([j \in TransformJobs |-> ProgramOf(j)])

\* The input of a pruned inverse transform is zero outside its mask.
UnitVector(k) == [r \in RowIds |-> IF r = k THEN 1 ELSE 0]
unitVectors ==
  [j \in TransformJobs |-> {UnitVector(k) : k \in IF j.kind = "pruned inverse" THEN j.mask ELSE RowIds}]

\* What the scalar code makes of the same vector (additive.go).
Scalar(j, v) ==
  CASE j.kind = "toNovel" -> ToNovel(v)
    [] j.kind = "fromNovel" -> FromNovel(v)
    [] j.kind \in {"fft", "pruned"} -> Fft(v, FALSE)
    [] j.kind \in {"inverse fft", "pruned inverse"} -> Fft(v, TRUE)
    [] j.kind = "derivative" -> Differentiate(v)

-----------------------------------------------------------------------------
\* The tasks of a pass are independent, and whatever the interleaving of the goroutines
\* of a pass, a program leaves in the rows what the scalar transform computes, a pruned
\* one in the rows it was asked for ("Each pass consists of independent tasks",
\* additive_regions.go:11-13; additive_pruned.go:5-6).
ProgramsCompute ==
  verdict = "ok" =>
    /\ Independent(program)
    /\ LET expected == Scalar(job, given) IN
       \A r \in RowIds : (job.kind = "pruned" => r \in job.mask) => region[r] = expected[r]
===============================================================================
