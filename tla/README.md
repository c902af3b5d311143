# A verification project for gopar-turbo

TLA+ models of the concurrent and failure-prone parts of gopar-turbo, a PAR2
library in Go: what `Repair` and `Verify` do to files, the pipelines that
search, load and reconstruct data, and the algebra that the reconstruction rests
on. TLC checks the models on small instances, and
TLAPS proves the main results for every instance. `PROJECT.json` names, for
every definition that stands for code, the lines it stands for.

## The system

PAR2 protects a *recovery set* of files. Every file is cut into slices of equal
size; an index file holds checksums of the slices, and *volumes* hold recovery
blocks, sums of the slices with coefficients from a Vandermonde matrix over
GF(2^16). Any n lost slices can be computed from n recovery blocks and the
slices that are left.

| Component | Source | State | Operations |
|---|---|---|---|
| Data scan | `par2/decoder.go` 476-850, `par2/windowscan.go` | per slice: present, foundAt, locations; per file: missing, hash mismatch, wrong size | `LoadFileData`: a pool scans windows or whole files, records matches under `scanMu` |
| Misaligned search | `scanBuffer`, `fillFileIntegrityInfos`, `par2/crc32.go` | cursor, rolling CRC, slide, the window and its carry | looks for slices at every byte offset |
| Recovery volumes | `par2/decoder.go` 852-1152, `par2/volume.go`, `packet.go` | parityPresent, parityLocations | `LoadParityData`, `LoadParityPresence`: a pool checks packets in batches |
| Repair | `par2/decoder.go` 1157-1763, `par2/reconstruct.go` | temporary files, writers, cached readers, preserved shards, the scan's infos | preserve, stage, reconstruct, write, rename, check |
| Streaming fold | `rsec16/fold.go` | two input banks, accumulators, channels | `FoldInputs`, `FoldInputsParallel` |
| Reconstruction plans | `rsec16/par2_plan.go`, `par2_lagrange.go` | matrix or transform, memory budget | choose a method, `ChunkSize`, `Fold`, `Close` |
| Additive transform | `rsec16/par2_transform.go`, `additive*.go` | workspace, children, input bank; rows and programs | calls with stripes claimed by workers, region programs |
| Coder and fields | `rsec16/coder.go`, `cauchy.go`, `vandermonde.go`, `matrix.go`, `gf2p16`, `gf2` | matrices, tables | row reduction, parity and reconstruction matrices |
| Encoder, index file | `par2/encoder.go`, `create.go`, `file.go`, packet codecs | recovery set, parity shards | hash, encode, write index then volumes |
| Sessions | `par2/repair.go`, `verify.go` | a Decoder | scan and parity load at once, then repair or count |
| File access | `fileIO`, `clone_*.go`, `memfs` | open files | open, stage, commit, clone |
| gf16 bindings | `gf16` | contexts, buffer sets | native kernels |

How they interact. A session makes a decoder from the index file, runs the data
scan and the parity load concurrently, and calls `Decoder.Repair`. Repair reads
what the scan recorded (a slice may have been found anywhere, in any file), asks a
reconstruction plan for chunks of the missing slices, gives the plan a callback
that reads survivors and recovery blocks through a reader cache, and receives the
rebuilt ranges in a sink that writes them into staged files. All fan-outs use
goroutines with unbuffered channels and wait groups; a mutex guards match
recording (`scanMu`), packet bookkeeping (`mu`) and the reader cache.

What is hard: files are rewritten in place of the ones survivors are read from;
every step of a repair may fail for one file and not for others; the process may
die between two renames; scanners of different files record matches of the same
slices; the fold overlaps reading, preparing and folding in two banks; a transform
plan keeps its bank, its children and their workspaces from one call to the next, of
another length; the tasks of a region program write rows without a lock; a sequential
outcome (error, event order, chosen location) is promised of parallel code.
`PROJECT.json` lists these under "hazards", each with the properties that would
catch it.

What makes each component correct: a repair only ever replaces a file by the
complete original, leaves no temporary file, reports what is whole, and never
loses what was recoverable; the scans and the parity load give what one goroutine
would have given; the fold returns the whole sum or an error, and none of its
goroutines outlive it, in every call of a plan; a plan rebuilds exactly what was lost by
whichever method, and refuses exactly what its blocks do not determine; a chunk fits the
memory budget; every fan-out returns; what a create leaves on disk, whole or not,
never makes a decoder take a block for what it is not.

## The modules

`Repair` (with `MCRepair` for its constants) follows one or more calls of
`Decoder.Repair` on one disk. A file is a function from slice positions to
contents, with one position past the described end; `LoadFileData` and `BeginRepair`
are the scan's outcome and the entry; `PreserveShards`, `OpenPatch`, `OpenWrite`,
`CopyShard`, `Register`, `EndCopy` the staging, with one goroutine per file;
`Fold`, `WriteRow`, `EndWrite` one round per byte range; `CloseReaders`, `Commit`,
`EndCommit` the renames, one goroutine each; `CheckWritten` and `VerifyParity` the
checks. `OpenFails`, `CopyFails` and the failing branches of the other actions
inject input/output errors, a write may leave junk silently, and `NewDecoder` starts
again after a crash at any point. Byte ranges are counted but not told apart: a
slice is complete after the last one, unless a silent fault spoiled one of its writes.

`FoldInputs` states what a fold promises: rows become whole, a refused input leads
to an error and success needs all rows whole. `FoldInputsGF16` (SIMD back end) and
`FoldInputsPureGo` implement it (`MCFold` runs the former under both contracts, `FoldInputs`
and `FoldInputsParallel`, and the latter beside them): each instantiates it with the rows that hold the
complete sum, and `KeepsPromise` is its specification. In `FoldInputsGF16` an
accumulator range is the *sequence* of products added to it, so a product lost,
repeated or taken from the wrong column is visible. `NoBankRace` and
`OneFolderPerRange` are the absence of data races in the Go sense.

`FileScan` is the search through one file, at byte granularity: `Advance` is one
round of the loop of `scanBuffer`, `ReadWindow` and `EndWindow` the windows of
`fillFileIntegrityInfos`. The same `Advance` over the whole file (`Whole`) is
`fillShardInfos`, and streaming is compared with it. A limit of 1 behaves as the
default policy without the misaligned search.

`LoadFileData` is the pool of the data scan, by windows
(default) or by whole files (misaligned search): `Send` is the rendezvous on the
unbuffered channel, `ScanSlice` one critical section under `scanMu`, `JudgeFile` the
verdict a worker derives while others are scanning, `Finish` the report in file
order. What is found at a place is given; `FileScan` is how it is found. `ScannedLocations`,
`ScannedFlags` and `ScannedHits` are what one goroutine finds.

`LoadParityData` is the pool of the parity load in both
modes: `ReadBatch`, then `HandlePacket` for each packet under the lock, and
`Finish`, which replays the sorted events (`Sorting`) and picks the error.

`CheckWritten` is `checkWrittenFiles`, which `Repair` takes in one step: `Open` compares sizes,
`Receive`, `Look` and `Compare` are a worker of either pool, `StartSlices` the barrier between
the windows and the listed slices, `Finish` the end, empty files included. `Wrongs` is what
`Repair` relies on. The 16 KiB head may reach into several slices here; in `Repair` it lies in
the first. `MCLoads` holds both loads, as `Session` declares them, and this check: a behaviour is one of the three.

`Session` (with `MCSession`) is `repair` and `verify`: the steps of `LoadFileData` on a
goroutine of its own, the steps of `LoadParityData` on the session's, `SendScanErr` and
`Join` at the two ends of the channel. `RepairStartsFromScan` ties it to `Repair`, whose
action `LoadFileData` is a whole scan in one step.

`Create` (with `MCCreate`) is `par2.Create` and its `Encoder`: `LoadFile` reads one data
file, `EndLoad` sorts the recovery set, `ComputeParityData` makes the blocks, `StartWrite`
and `EndWrite` truncate and fill the index file and then one volume after the other, and
`Fail` stops a write, or the program, at any point and leaves what a half-written file
may hold. Data files change at any time (`Change`), and a second call finds what the
first has left. `Opens`, `Loads`, `Own` and `Blocks` are what a decoder makes of the files;
a recovery block is known by its exponent and the slices it was computed from.

The reconstruction is split by the layers of the code.

- `GaloisField` builds the tables of `gf2p16/t.go` from a generator, for a field of
  2^`FieldBits` elements; `FieldAssumption` compares them with multiplication and
  remainder of polynomials (`gf2.Poly64`). `Matrices` is row reduction (`Echelon`,
  `Reduced`) and `RowReduceForInverse`. `AdditiveBasis` is the Cantor basis and the scalar
  transforms of `additive.go` (`ToNovel`, `FromNovel`, `Fft`, `Differentiate`), locators
  and products.
- `Coder` has both coding matrices, the reconstruction matrix with its two ways of
  solving (the small system first, from `DeepMissing` rows on), the Lagrange matrix and
  the Coder's operations. `Par2Transform` builds the cosets of a transposed
  Vandermonde system and folds one symbol through them (`FoldRange`).
- `ReconstructionPlan` is `PAR2ReconstructionPlan` on one symbol per row: `NewPlan` validates
  and picks a method, `Fold` rebuilds, `ChunkSizeOf` asks for a chunk, `ClosePlan` and
  `UseClosed`; `RefuseCoder` and `Reconstruct` are a Coder's. A method is linear, so it is
  enough to rebuild data of which one shard is not zero.
- `ChunkSizes` is `FoldChunkSize` and `ChunkSize`: the range that a plan folds at a time, from its
  dimensions (`Dimensions`), a slice size, a memory budget and a build of gf16 (with SIMD or not, and its
  stride). The loop that narrows one worker's range a stride at a time is the greatest candidate that fits
  (`Narrowed`), so nothing in the module is recursive. `FoldBytes` adds up what a fold allocates,
  independently of how the chunk was chosen.
- `RegionOperations` says what an operation, a task, a pass and a program do to rows when they come one
  after the other, over any arithmetic (`RowPlus`, `RowTimes`). `RegionRun` is `runRegionProgram` for any
  programs: goroutines that take every n-th task of a pass (`NextTask`) and apply one operation at a time, a barrier,
  and contexts of another layout that refuse. `RegionPrograms` builds the code's programs (passes of tasks of
  operations: the tiling by `TileLog`, the cutting by `TaskLimit`, the pruned programs of
  `additive_pruned.go`), and `RegionTransforms` runs them: what is left in the rows is compared with the scalar
  transform of `AdditiveBasis` (`ProgramsCompute`).
- `PlanFolds` states what a plan promises over its life: each call is a `FoldInputs` of its
  own, and nothing of an earlier call counts. `TransformFold` implements it:
  `CallParallel` reads all inputs into the bank (`ReadInput`), spawns workers (`Spawn`) that
  claim stripes from an atomic counter (`Claim`), sum and finish them (`SumStripe`,
  `FinishStripe`), and joins them; `CallDirect` folds in the plan's own workspace; `Prepare`
  says what of an earlier call is kept. A byte is known by the number of the call it belongs
  to, so a byte left by an earlier call is visible. `ChunkSize` changes the number of workers
  between calls, and inputs and workspaces may be refused.

`MCPlan` holds `ReconstructionPlan`, `RegionTransforms` and `TransformFold` together: a behaviour is a plan or a
Coder, a region program, or the calls of a transform plan (`side`).

Operators whose names end like another's with a suffix (`Limit`, `LimitAtEnd`) and
that nothing uses are plausible mistakes: each is put in the place of the original
to see that the named property notices.

## The runs

| Run | Question | Bounds |
|---|---|---|
| `Repair_faults` | Two errors or crashes over two calls, from every damage: what is on disk, what is recoverable, what is left behind; without faults, a repair fails only for want of blocks; renames with readers closed; return | 2 files of 2 slices, all damages of `AllDisks` (intact, damaged, truncated, extended, missing, swapped, stray copies), 2 byte ranges, 2 workers, up to 2 blocks |
| `Repair_silent` | Silent write corruption: what is reported is whole | 2 files of 3 slices, so that a clone is checked in part; 2 byte ranges, so that a slice is spoiled in one of them; up to 2 faults, silent or of a rename |
| `Repair_doublecheck`, `Repair_possible`, `Repair_reuse` | statements of comments that the code breaks | as `Repair_faults` |
| `Fold` | No races, the invariant, the order of the inputs, the promise, return, no goroutine left; under both contracts and without SIMD | 5 inputs in batches of 2 (a full, a full and a short batch: both banks are reused), 3 workers, 2 rows, 2 ranges, any input refused; without SIMD 6 inputs, 5 rows on 3 goroutines |
| `Scan` | Streaming equals scanning whole; damage in place; the scan ends | slices of 3 bytes, windows of 2 slices, files up to 11 bytes (several windows, a partial last slice), every set of known offsets, limits from none to above a slice |
| `Scan_limited` | The search limit across windows | limit 2 |
| `Loads` | Outcome of the pools, of the scan by windows and by files, and of the parity load in both modes, equals the sequential one; the first file's error is returned; what cannot be read or must not be taken is refused; the recorded events are heard in order; a written file passes its check exactly when nothing is wrong with it; return | 2 files sharing a content, 42 disks, 2 workers, 2 unreadable windows; 3 volumes of up to 3 packets in batches of 2, 2 workers, 2 unreadable batches; written files of 5, 3 and no slices, 9 disks, 8 lists of slices, windows and heads of 2 slices, 1 unreadable slice |
| `Session` | Scan and load at once: the outcome depends on no schedule, nobody is left, a repair starts from a whole scan | 2 files, 2 volumes, 2 workers each, an unreadable window and batch |
| `Create` | What a decoder makes of a set after calls that succeed, fail, crash or meet changing data | 2 calls, one fault, one change of a data file; up to 5 blocks (volumes of 1, 2 and a clipped 2); 2 files of up to 2 parts, two contents differing only beyond the first 16 KiB |
| `Plan` | Region programs consist of independent tasks, compute their scalar transforms and leave what their operations leave in order, under every interleaving; every method rebuilds what was lost, refuses what is not determined and stays in its budget; the calls of a transform plan keep their promise, read and fold everything once, and return | field of 16 elements (modulus 19, generator 3) with the thresholds scaled to it: transform from 3 missing rows, Lagrange and the small system from 2, products term by term up to 3 coefficients, tiles of 2 rows, tasks of 2 operations; region programs over 8 rows on up to 3 contexts; losses of up to 3 of 5 rows and some of 4 and 8, blocks consecutive and with gaps; slices from 2 to 20000 bytes, with and without SIMD; 2 calls of up to 5 bytes with stripes of 2, 3 inputs, 3 workers |

The bounds are the smallest at which the cases happen: two files so that slices can
sit in each other's file, two slices so that a file can be damaged in part, two
workers and more tasks than workers so that tasks interleave and the sender waits,
three batches so that each bank is filled again after it was folded. Stripes of 2 in a
range of 5 give two full stripes and a cut one, and two calls of different lengths and numbers
of workers meet every combination of what is kept and what is made anew. In a field of 16
elements, with rows chosen among 8 generators, there are singular Vandermonde submatrices, cosets
with and without lost rows, and transforms of every depth up to 4; the thresholds are scaled
so that each method is chosen on both sides of its conditions. Chunk sizes are taken with the code's own
constants for stripes, pages, banks and strides.

Runs with an expected violation check one sentence of a comment that the code does
not keep; `PROJECT.json` quotes them under "findings": a second `Repair` on the same
decoder, after a failed rename, can overwrite a good file; the double check may read
an intact file's slice from a file that was rewritten; with nothing missing and no
recovery block, repair is "possible" and fails; the search limit starts anew where a
window ends.

Other places where a comment says more than the code does, met while modelling and
without a run of their own: when one rename fails, files already renamed stay replaced
("a failed repair leaves the originals untouched", `decoder.go:1267`) and are not in the
returned list ("present even if an error is returned", `decoder.go:1260`, 1472); the
events of a failing parity load are not those of a sequential one (`decoder.go:920`,
1119-1127); verdict events of the misaligned scan come in the order the workers finish
(`decoder.go:690`, 657-668); of several main packets in a volume the one handled last, on whichever worker,
decides whether the volume is refused (`decoder.go:980`), not the last in the sequential order of line 922
(`FaultsAreRefused` has the hypothesis `Coherent`, that they agree, and without it TLC finds a volume that disagrees with
itself, whose main packets cannot all hash to the set ID they carry, which nothing checks, `file.go:72`); a fold without inputs leaves its rows alone ("every row of
out is fully overwritten", `fold.go:32`, 50); swapped or over-long files have all their
slices somewhere, so the counts of a verification say that no repair is needed
(`verify.go:47`) where `Repair` rewrites them; "duplicates are byte-identical by packet
hash" (`decoder.go:998`) is no longer so when a set is created again, with fewer blocks,
after data beyond a file's first 16 KiB changed: the set ID is the same, a volume of the
first call may stay, and nothing tells its blocks from the new ones. `BlocksMatchIndex`
has to exclude that case (`LookAlike`), and without the exclusion TLC finds it.

Deadlock is not checked, because every model ends; that nothing blocks before the
end is the liveness property `Returns` (`Terminates`, `CallReturns`, `LoadsReturn`, `SessionReturns`). `Repair` is the
exception: there deadlock is checked too. `Create` states no liveness: it is one loop.

Fairness. Goroutines that can run do run: the models assume weak fairness of the
steps of each goroutine, which is what the Go scheduler gives. `Repair` assumes it of
the code's steps together (`Step`), not of faults, crashes or new calls. Nothing
assumes that a mutex or a channel prefers anyone. `PlanRunSpec` assumes it of the call's own
steps and of each worker of a transform plan, not of the caller: a call that was started returns.
The region programs and the plans' algebra state safety only.

## What is proved

`FoldProofs`, about both back ends of the fold. With SIMD, for every number of inputs, rows,
ranges and workers, every batch limit and either contract (`FoldAssumption`): `FoldInvariance` shows that
`FoldInv` is inductive. It says what
a bank holds while it is read (`ReadHolds`), who has which unit of which batch
(`WorkHolds`), and that every accumulator range is the sum of the batches before
this one, plus this batch where its unit is done, plus the products the unit has
added (`SumHolds`). `BanksNeverRace` and `RangesHaveOneFolder` are parts or consequences of it, and
`PipelineImplementsFold` uses it in a step-by-step refinement proof: the rows are
returned only after the last unit, so they are whole. It assumes at least one input: with none, rows
are returned as they came. Two results need more than `FoldInv`. `NoWorkerOutlivesFold` needs that the caller
gets past the join only with every worker gone (`WorkersLeave`). `InputsAreAskedInOrder`, for calls of
`FoldInputs`, needs `OrderHolds`: the slots that are still to be read are the last ones of the batch, the input
asked for last is the one before them (or the first of them, once it is asked for), and the next batch goes on
from there, unless a read failed; then nothing is asked for any more.

Without SIMD, for every number of inputs, rows and goroutines, one of each at
least: `PureInvariance` shows that `PureInv` is inductive. One input is read
ahead, into the buffer that is not being folded (`PureReadHolds`), and a row holds the sum of the
inputs before, and of this one once no goroutine has the row left (`PureSumHolds`). That a row is
in exactly one goroutine's stride is modular arithmetic. From it follow `PureFoldIsQuiet`
(`PureGoroutinesBehave`) and `PureFoldKeepsPromise`, the refinement of `FoldInputs` (`PureKeepsPromise`).
`EachFold` says that a behaviour of `MCFold`, which the run checks, is a behaviour of both
specifications, so every theorem holds of what is run.

`RepairProofs`, for every number of files, slices, workers, byte ranges and
every disk, with any number of read, write, open and rename errors, crashes and silently spoiled
writes: `RepairInvariance` shows that `RepairInv` is inductive. What a temporary file holds at each
stage (`StagedHolds`) needs that every rewritten file has a writer (`WritersHold`), that what is read is
still what the scan saw (`ScanHolds`), and of a clone, which lists the slices it was given, that the
missing ones are among them from the first range on (`RangesHold`). With silent corruption a temporary file holds what it should
*where no write spoiled it* (`Intact`, `Unspoiled`); what is unspoiled includes
every slice of a clone that was never written, which is why checking the listed slices of a clone
is enough. The theorems assume one `Repair` per decoder; `Repair_reuse` shows that this is needed. Only
`OnlyPristineReplaces`, that a path only ever changes to its complete original content, and
`RepairableStays` also assume that no write is silently corrupted: a spoiled file is renamed before it is checked,
and both are false of it. `RepairInv` is proved of every instance, and no run checks it again.

`PlanProofs` has three parts. The calls of a transform plan, for every number of inputs, rows, workers, calls, and every
stripe and range: `TransformInvariance` shows that `TransformInv` is inductive. Between calls only
what the workspaces hold matters; in a call, the inputs below the cursor have been asked for
once (`AskedHolds`), the bank is long enough and holds them (`BankHolds`), the rows hold
nothing of the call before its stripes (`CallHolds`), an error is on its way exactly when something was
refused (`RefusedHolds`), and of the stripes (`StripesHold`): those claimed are apart and below the counter, a byte
below the counter is whole or some worker's unless a worker failed, and a worker that exited
without an error saw the counter past the end. From it follow `FoldsEachOnce` (`EachOnce`)
and `PlanImplementsFolds`, the refinement of `PlanFolds` (`PlanKeepsPromise`): while a worker
has a stripe no row is whole, and when all have exited without an error every byte is. The
assumptions are `TransformAssumption`: a row, a worker and a byte per stripe at least,
no more recovery rows than inputs. Type correctness of `TransformFold` is `TransformTypeCorrect`;
no run needs to check it again.

The region programs, for any programs, rows, number of contexts and arithmetic (`RegionAssumption`): `RunInvariance` shows that
`RunInv` is inductive, and `RunsAreSequential` (`RunsInOrder`) that a run without an error leaves
what the program leaves when all its operations come one after the other. The hypothesis is `Independent`: within a
pass no task writes a row that another touches. The `Plan` run checks it of each of the code's programs
(it is a conjunct of `ProgramsCompute`). The invariant says that the rows a task writes are as if that task
ran alone from the beginning of the pass, as far as it has got, and that the other rows are as they were
(`RowsHold`); that every task is taken by exactly one goroutine, and taken before the barrier, is
arithmetic of strides (`ShareHolds`, `OneTakes`). A run in order is a recursive function, and its
existence is proved first.

The chunk sizes, for every plan, slice, budget and build of gf16 (`SizingAssumption`: slices are even, a stride is at most a
page): `ChunksFit` (`ChunkFits`) says that a chunk is whole words within the slice, and that no call on it, nor
on the shorter range that ends a slice, takes more than the budget, unless the chunk is already the least one.
With SIMD this needs a qualification, which the code's comment makes too ("permits minimum
alignment overhead for very small values", `par2_plan.go:75-76`): an eighth of a buffer's share is kept back
for rounding up to whole strides, so when a share is less than eight strides a fold may take a stride more
for each buffer (`Allowed`), and no more than that.

The second part of `RepairProofs` holds for every *kind of fault*, silent corruption included:
`QuietInv` says who has a writer, an open reader and work left at each stage of `Repair`.
`RenamesAreQuiet` (`CommitIsQuiet`) and `ErrorsLeaveNothing` follow for a decoder used again
as well. `TempsAreCleared` (`NoStrayTemps`) needs one `Repair` per decoder, and
`LeftoversHold`: a temporary file a crash has left belongs to a file that is still damaged on disk, so
the next scan finds it damaged, and a repair that succeeds stages it again and publishes it.

Its third part puts the two together, again under every kind of fault and with one `Repair` per
decoder. `OutcomeHolds` (`OutcomeInvariance`) says that what has been renamed is whole where no write spoiled it, and
that a file that passes the check of what was written is whole; `SuccessIsWhole` and `ReportsAreTrue` follow. `FailureHolds`
says that an error has a fault behind it and that until the first rename the scan misses exactly what the disk
has lost; `FailureHasCause` (`NoSpuriousFailure`) follows, since a check of whole files finds
nothing. `RepairableStays` (`StaysRecoverable`) is a fact about one rename: a whole file
in the place of one that holds nothing of others loses no slice.

`CreateProofs`, for any files, contents (`CreateAssumption`), number of calls, faults and blocks asked
for, and any order of the file IDs that is one (`OrderAssumption`): `CreateInvariance` shows that `CreateInv` is
inductive. It says what the running call has loaded (`CallsHold`, `ShardsHold`), which volumes it has written and
which it is about to (`VolumesHold`), and of every file on disk that it is blank, broken or
what some call wrote from one reading of the data (`FilesHold`, `SetHolds`). From it follow all that the run `Create`
checks: `BlocksAreOfTheirSet`, `CreateLeavesProtection`, `CallingAgainReplaces` and
`CreateFailsOverData`. That every block is in exactly one volume is a fact about
powers of two cut at the end, and that two readings of the same files give the same blocks needs that
sorting by rank is one-to-one.

`FileScanProofs`, for every file, slice size, window and search limit (`ScanAssumption`):
`SlicesInPlaceAreFound` (`InPlaceAreFound`), because the cursor cannot pass the start of a slice that is in place;
and `StreamingIsWhole` (`StreamedIsWhole`), because from any point of the streamed search the
search of the whole file, started at the same byte, ends in what is still to come (`LeadsToWhole`). The second is about the
recursive function `Whole`, whose existence is proved first.

`SessionProofs`, for every set of files and disk, any windows, set of volumes, packets, batches, unreadable
windows and batches, and any number of workers, in both modes of either pool (`LoadAssumption`,
`ParityAssumption`), has three parts.

- The data scan: `ScanInvariant` shows that `ScanInv` is inductive. What a scan found is right at the
  end only because nothing got lost on the way, so the invariant speaks of every place of every file:
  it waits in a task that was not sent, or a worker has it still to compare (`Unscanned`), or what the disk
  holds there is recorded (`FoundHolds`); likewise it is still to be counted (`Uncounted`) or is in the file's
  counts, once (`CountsHold`). Once needs `TasksApart`: no two tasks, sent or not, are about the same
  window. `FlagsHold` says that a file nobody works on has the verdict of a sequential scan, although
  it is derived while others record matches: its own slices at their own places are all in by then.
  `ErrorsHold` says that every unreadable window was met or is still to come. When the
  last worker has exited nothing waits, and `ScanIsSequential` (`SameAsSequential`) follows, with the error
  that is returned (`FirstErrorWins`). That the windows cover a file and do not overlap
  is proved of the sequence that is sent (`WindowTasks`).
- The load of the volumes: `LoadInvariant` shows the same of `LoadInv`, where a packet is in a batch not
  yet sent, in a worker's hands, passed over because its volume has failed, or heard (`HeardHolds`); blocks, their locations and the main packets are
  those of what was heard so far, and a location is the first volume heard so far that has the block
  (`RecordsHold`). `LoadIsSequential` follows, where what is heard is in order because events sorted by rank are
  when none is there twice, and `LoadRefusesFaults` (`FaultsAreRefused`) for volumes whose main packets agree with each other.
- The session: the two invariants hold when the steps are interleaved (`SessionInvariant`), since neither pool
  touches the other's state. With `Joined`, which says who has sent and received what on the channel of the
  scan's error, and `TwinsAgree`, which says that slices of the same content are recorded alike,
  `SessionAnswersForItsFiles`, `SessionLeavesNobody` and `SessionStartsRepair` follow: the three safety
  properties the run `Session` checks. `RepairStartsFromScan` is what `Repair` takes for granted of a scan, so the two
  models are joined at a proved seam.

`CheckWrittenProofs`, for any files, state of the disk, windows, head, lists of slices, unreadable slices and
workers (`CheckAssumption`): `WrittenChecksDecide` (`ChecksDecide`). The property speaks of the end only; `CheckInv`
carries it there. An error is true of its file from the step that records it (`ErrorsAreTrue`), and a file without
one has no task behind it that found something (`NothingIsMissed`): each of its tasks is in the channel, with a
worker, or would find nothing. A worker may give up a window without looking, but only of a file that has an error
already. The files of the second pool join in at `StartSlices`. At the end nothing is
outstanding (`TasksAreOfFiles`), and it is left to show that the tasks of a file look at everything in
`Wrongs`: its windows cover it (`WindowsCover`), the listed slices are the ones `Repair` relies on, and one task
looks at the head, the first window or the head's own.

`SequenceLemmas` holds what these proofs share: the least and the greatest element of a set of numbers and
induction over a set (from the library's theorem that the numbers are well founded), flattened sequences, sorting by
rank, the elements of a set in a row, products and quotients, and cutting a number into pieces.

Only model-checked: liveness under fairness (`Returns`, `CallReturns`, `LoadsReturn`, `SessionReturns`,
`Terminates`), which is out of the prover's reach; the algebra of the reconstruction
(`RestoresTheLost`, `RefusedIffUndetermined`) and, of the region programs, that the code's programs consist of independent
tasks and leave what the scalar transform computes (`ProgramsCompute`): these compute with recursive
operators, by induction over data, which the prover cannot follow.

## What is not modelled

Field arithmetic is modelled over 16 elements instead of 65536: the algorithms are the same with
other tables, and what depends on the width alone (the carryless multiplication of
`gf2p16`, slices of bytes read as little-endian words, SIMD kernels, native contexts, registered and
pinned buffers, the vendored C code) is not modelled. Applying a matrix to shards, in
`gf2p16/matrix.go` and `rsec16/apply_gf16.go`, is taken as the product it computes. In `Repair`, the folds and the
creation of a set a sum stands for itself; in all of them a checksum identifies its content
(CRC32, MD5), except that `Create` tells the MD5 of a file's first 16 KiB from that of the file.

Packet parsing and the index file's structure are sequential code that the tests cover, and are taken as what they
encode.
Counts of shards the coder refuses when a set is created, and paths given twice to `Create`, are left out.
The clone system calls and memory probes are platform calls without state of the program.
Benchmarks, the table of exit codes, and the in-memory file system of the tests, whose commits are not
atomic, are not part of what the library promises.

## The plan

What is left, most useful first:

1. The loops of `applyMatrix` and of `apply_gf16.go` as implementations of the product, with
   their parallel split of rows.
