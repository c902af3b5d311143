------------------------------ MODULE ChunkSizes ------------------------------
(***************************************************************************)
(* FoldChunkSize and PAR2ReconstructionPlan.ChunkSize (rsec16/par2_plan.go  *)
(* 70-135): the byte range that a plan folds at a time, chosen so that the  *)
(* buffers of a fold fit a memory budget, and the bytes of those buffers.   *)
(***************************************************************************)
EXTENDS Integers, FiniteSetsExt

CONSTANTS
  Slices, Builds   \* slice sizes, and [accelerated, stride]: the builds of gf16

\* ChunkSize refuses other slices (par2_plan.go:96-98).
ASSUME SizingAssumption ==
  /\ \A slice \in Slices : slice \in Nat \ {0} /\ slice % 2 = 0
  /\ \A build \in Builds : build.accelerated \in BOOLEAN /\ build.stride \in 1..4096

VARIABLE sized   \* what ChunkSize was asked and answered
Unsized == [slice |-> 0]

\* What a plan folds: its inputs and outputs, the degree of its transform if it has
\* one, its workers and its budget.
Dimensions ==
  [transform : BOOLEAN, inputs : Nat \ {0}, outputs : Nat \ {0}, degree : Nat, workers : Nat \ {0}, budget : Nat \ {0}]

StripeBytes == 256
PageBytes == 4096

\* The bytes a prepared buffer takes, in whole strides.
BufSize(bytes, build) == ((bytes + build.stride - 1) \div build.stride) * build.stride
Even(x) == x - (x % 2)

\* The staging buffers of the SIMD fold are not counted.
FoldBuffersPlain(outputs, build) == outputs + 2
FoldBuffers(outputs, build) == IF build.accelerated THEN 2 * outputs + 49 ELSE outputs + 2
FoldShare(d, build) == d.budget \div FoldBuffers(d.outputs, build)
FoldChunkSize(d, slice, build) ==
  LET share == FoldShare(d, build)
      per == IF build.accelerated THEN share - Min({4096, share \div 8}) ELSE share
  IN  IF d.outputs = 0 THEN slice ELSE Min({slice, Max({2, Even(per)})})

\* Rows of a workspace: two halves, and the raw, finished and scratch buffers.
WorkspaceRows(d) == 2 * d.degree + 3
RangeBytes(d, bytes, build) == WorkspaceRows(d) * BufSize(bytes, build) + d.outputs * bytes

\* The first candidate that fits, each a stride shorter than the one before.
Shorter(first, build) == {Max({2, first - k * (build.stride + (build.stride % 2))}) : k \in 0..first}
Narrowed(d, first, build) ==
  Max({c \in Shorter(first, build) : RangeBytes(d, c, build) <= d.budget \/ c <= 2})

TransformWorkers(d, slice, build) ==
  LET each == WorkspaceRows(d) * BufSize(StripeBytes, build) + (d.inputs + d.outputs) * StripeBytes
  IN  Min({d.workers, 1 + (slice - 1) \div StripeBytes, Max({1, d.budget \div each})})
TransformChunk(d, slice, build) ==
  LET workers == TransformWorkers(d, slice, build)
      share == (d.budget - workers * WorkspaceRows(d) * BufSize(StripeBytes, build)) \div (d.inputs + d.outputs)
      paged == IF share < slice /\ share >= PageBytes THEN share - (share % PageBytes) ELSE share
      first == Min({slice, Max({2, Even((d.budget \div (WorkspaceRows(d) + d.outputs)) - 128)})})
  IN  IF workers > 1 /\ slice > StripeBytes THEN Min({slice, Max({2, Even(paged)})})
      ELSE Narrowed(d, first, build)

Sized(d, slice, build) ==
  [slice |-> slice, build |-> build, dims |-> d,
   workers |-> IF d.transform THEN TransformWorkers(d, slice, build) ELSE d.workers,
   chunk |-> IF d.transform THEN TransformChunk(d, slice, build) ELSE FoldChunkSize(d, slice, build)]
AskChunkSize(d, slice, build) == sized' = Sized(d, slice, build)

\* A plan may be closed, or another one asked.
SizingSpec ==
  /\ sized = Unsized
  /\ [][\/ sized' = Unsized
        \/ \E d \in Dimensions, slice \in Slices, build \in Builds : AskChunkSize(d, slice, build)]_sized

-----------------------------------------------------------------------------
\* The bytes that folding takes with a matrix: with SIMD the rows, an accumulator for
\* each, two banks of inputs, a lane's buffer each and a row of zeros; without it the
\* rows and two inputs.
InputStaging == 8388608
FoldBatch == 16
MatrixFoldBytes(s, bytes) ==
  LET d == s.dims
      batch == Min({FoldBatch, d.inputs, Max({1, InputStaging \div (3 * bytes), d.outputs})})
      lanes == Min({batch, s.workers})
  IN  IF s.build.accelerated
      THEN (d.outputs + 2 * batch) * BufSize(bytes, s.build) + (d.outputs + lanes + 1) * bytes
      ELSE (d.outputs + 2) * bytes

\* With a transform: by several workers the bank, the rows and a workspace each; by
\* one a workspace and the rows.
TransformFoldBytes(s, bytes) ==
  IF s.workers > 1 /\ bytes > StripeBytes
  THEN s.workers * (WorkspaceRows(s.dims) * BufSize(StripeBytes, s.build)) + (s.dims.inputs + s.dims.outputs) * bytes
  ELSE RangeBytes(s.dims, bytes, s.build)
FoldBytes(s, bytes) == IF s.dims.transform THEN TransformFoldBytes(s, bytes) ELSE MatrixFoldBytes(s, bytes)

\* What a fold may take: a stride more for each buffer of the SIMD fold where the share
\* of a buffer is so small that the eighth kept back for its alignment is less.
Allowed(s) ==
  IF ~s.dims.transform /\ s.build.accelerated /\ FoldShare(s.dims, s.build) < 8 * s.build.stride
  THEN s.dims.budget + FoldBuffers(s.dims.outputs, s.build) * s.build.stride
  ELSE s.dims.budget

\* "memoryBudget covers bulk folding buffers" (par2_plan.go:22): a chunk is a whole
\* number of words, at most a slice, and no call on a chunk, nor on the shorter one that
\* ends a slice, takes more than the budget, unless the budget is too small for a minimal
\* chunk or for whole strides ("permits minimum alignment overhead for very small
\* values", par2_plan.go:75-76).
ChunkFits ==
  sized # Unsized =>
    LET chunk == sized.chunk  last == sized.slice % chunk
    IN  /\ chunk \in 2..sized.slice /\ chunk % 2 = 0
        /\ \/ chunk = 2
           \/ /\ FoldBytes(sized, chunk) <= Allowed(sized)
              /\ last = 0 \/ FoldBytes(sized, last) <= Allowed(sized)
===============================================================================
