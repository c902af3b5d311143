---------------------------- MODULE FoldInputsGF16 ----------------------------
(***************************************************************************)
(* rsec16.foldInputsGF16 (rsec16/fold.go, 74-286): the fold pipeline of the *)
(* SIMD backend.  The calling goroutine hands the units of one batch to     *)
(* long-lived workers while a second goroutine reads and prepares the next  *)
(* batch into the other of two banks.                                       *)
(*                                                                          *)
(* A prepared input is its index; an accumulator range is the sequence of   *)
(* <<column, input>> products added to it so far.  MulAddMulti reads the    *)
(* sources of its unit one after the other, each from whatever its bank     *)
(* slot holds at that moment.                                               *)
(***************************************************************************)
EXTENDS Naturals, Sequences, FiniteSets

CONSTANTS
  NumInputs, NumRows, NumRanges,
  BatchLimit,     \* min(foldBatchSize, max(1, inputStagingTarget/sliceSize/3, len(out)))
  NumWorkers,     \* numGoroutines
  MayRefuse       \* inputs for which next may return an error

Rows    == 1..NumRows
Ranges  == 1..NumRanges
Workers == 1..NumWorkers
Banks   == {0, 1}
Lesser(a, b) == IF a < b THEN a ELSE b
BatchSize == Lesser(BatchLimit, NumInputs)
Slots     == 1..BatchSize
NumLanes  == Lesser(BatchSize, NumWorkers)   \* FoldInputs reads with the first one only
Lanes     == 1..NumLanes

ASSUME FoldAssumption ==
  /\ NumInputs \in Nat /\ NumRows \in Nat \ {0} /\ NumRanges \in Nat \ {0}
  /\ BatchLimit \in Nat \ {0} /\ NumWorkers \in Nat \ {0}
  /\ MayRefuse \subseteq 1..NumInputs

VARIABLES
  parallel,          \* FoldInputsParallel was called, not FoldInputs
  main,              \* where the calling goroutine is
  k, base, n,        \* bank being folded, inputs folded before it, inputs in it
  row, range,        \* next unit to hand out
  pending,           \* batchDone: units handed out and not yet done
  foldErr,
  bank,              \* what each bank slot holds
  worker, unit,      \* what each worker does; its unit, and how far it is
  acc,               \* the accumulators
  \* readBank, run by the caller for the first batch and by a goroutine after
  nextJ, loading, call,
  todo,              \* slots each loader lane still has to fill
  holding, raw,      \* lanes whose scratch buffer is filled, and its content
  failed,            \* slots whose input was refused
  ready, result,     \* the return values of the call, when it has returned
  out, outcome,
  asked, refused     \* history: last input asked for; next returned an error

loopVars == <<k, base, n, row, range, foldErr>>
workVars == <<worker, unit, acc>>
readVars == <<nextJ, call, todo, holding, raw, failed, asked, refused>>
callVars == <<loading, ready, result>>
vars == <<parallel, main, loopVars, pending, bank, workVars, readVars, callVars, out, outcome>>

\* The products of inputs 1..j, each with the coefficient of its own column.
SumOf(j) == [c \in 1..j |-> <<c, c>>]
Sum(j)   == [r \in Ranges |-> SumOf(j)]
Stale    == [r \in Ranges |-> <<<<0, 0>>>>]   \* what a caller's row held before

-----------------------------------------------------------------------------
Init ==
  /\ parallel \in BOOLEAN
  /\ main = "called" /\ outcome = "running" /\ loading = FALSE
  /\ k = 0 /\ base = 0 /\ n = 0 /\ row = 1 /\ range = 1 /\ foldErr = FALSE
  /\ pending = {} /\ bank = [b \in Banks |-> [s \in Slots |-> 0]]
  /\ worker = [w \in Workers |-> "idle"]
  /\ unit = [w \in Workers |-> [row |-> 1, range |-> 1, bank |-> 0, base |-> 0, n |-> 0, next |-> 1]]
  /\ acc = [i \in Rows |-> Sum(0)] /\ out = [i \in Rows |-> Stale]
  /\ nextJ = 0 /\ call = [bank |-> 0, base |-> 0, n |-> 0] /\ todo = [l \in Lanes |-> {}]
  /\ holding = {} /\ raw = [l \in Lanes |-> 0] /\ failed = {}
  /\ ready = FALSE /\ result = [base |-> 0, n |-> 0, err |-> FALSE]
  /\ asked = 0 /\ refused = FALSE

\* The prefetch starts on the bank that is about to be folded.
BatchSameBank(b, c) == [bank |-> 1 - b, base |-> c, n |-> Lesser(BatchSize, NumInputs - c)]
\* The last slot of a batch is left out.
StrideShort(l, m) == {s \in 1..m : s # m /\ IF parallel THEN (s - 1) % NumLanes = l - 1 ELSE l = 1}

\* The batch a readBank takes on when it starts with c inputs behind it, and
\* the slots each of its lanes fills.
Batch(b, c) == [bank |-> b, base |-> c, n |-> Lesser(BatchSize, NumInputs - c)]
Stride(l, m) == {s \in 1..m : IF parallel THEN (s - 1) % NumLanes = l - 1 ELSE l = 1}

\* foldInputs: with no input the call is over.  Otherwise the caller itself reads
\* the first batch.
Enter ==
  /\ main = "called"
  /\ IF NumInputs = 0
     THEN main' = "returned" /\ outcome' = "ok" /\ UNCHANGED <<loading, call, todo>>
     ELSE /\ main' = "first" /\ loading' = TRUE /\ call' = Batch(0, 0)
          /\ todo' = [l \in Lanes |-> Stride(l, BatchSize)]
          /\ UNCHANGED outcome
  /\ UNCHANGED <<loopVars, pending, bank, workVars, nextJ, holding, raw, failed, asked, refused,
                 ready, result, out>>

First(l, s) == s \in todo[l] /\ \A t \in todo[l] : s <= t

\* loadOne calls next: the input of the lane's first slot is read into the
\* lane's own scratch buffer, or refused.  A sequential readBank stops there.
AskNext(l) ==
  /\ loading /\ l \notin holding
  /\ parallel \/ failed = {}
  /\ \E s \in todo[l] :
       /\ First(l, s)
       /\ asked' = call.base + s
       /\ \/ /\ raw' = [raw EXCEPT ![l] = call.base + s]
             /\ holding' = holding \cup {l}
             /\ UNCHANGED <<todo, failed, refused>>
          \/ /\ call.base + s \in MayRefuse
             /\ failed' = failed \cup {s} /\ refused' = TRUE
             /\ todo' = [todo EXCEPT ![l] = @ \ {s}]
             /\ UNCHANGED <<raw, holding>>
  /\ UNCHANGED <<main, loopVars, pending, bank, workVars, nextJ, call, callVars, out, outcome>>

\* loadOne prepares what the lane read into the bank's slot.
PrepareSlot(l) ==
  /\ loading /\ l \in holding
  /\ \E s \in todo[l] :
       /\ First(l, s)
       /\ bank' = [bank EXCEPT ![call.bank][s] = raw[l]]
       /\ todo' = [todo EXCEPT ![l] = @ \ {s}]
  /\ holding' = holding \ {l}
  /\ UNCHANGED <<main, loopVars, pending, workVars, nextJ, call, raw, failed, asked, refused,
                 callVars, out, outcome>>

\* The batch that was read is not counted.
AdvancedNever == nextJ
Advanced == IF failed = {} THEN nextJ + call.n ELSE nextJ

\* readBank returns; the prefetching goroutine sends what it returned.
EndRead ==
  /\ loading /\ holding = {}
  /\ \/ \A l \in Lanes : todo[l] = {}
     \/ ~parallel /\ failed # {}
  /\ loading' = FALSE /\ ready' = TRUE
  /\ result' = [base |-> call.base, n |-> IF failed = {} THEN call.n ELSE 0, err |-> failed # {}]
  /\ nextJ' = Advanced
  /\ UNCHANGED <<main, loopVars, pending, bank, workVars, call, todo, holding, raw, failed,
                 asked, refused, out, outcome>>

\* The caller has a batch in bank b: it starts the read of the other bank and
\* hands out units, or leaves the loop.
TakeBatch(b) ==
  /\ ready /\ ready' = FALSE
  /\ k' = b /\ base' = result.base /\ n' = result.n /\ foldErr' = result.err
  /\ row' = 1 /\ range' = 1
  /\ IF ~result.err /\ result.n > 0
     THEN /\ main' = "dispatch" /\ loading' = TRUE
          /\ call' = Batch(1 - b, nextJ) /\ failed' = {}
          /\ todo' = [l \in Lanes |-> Stride(l, Batch(1 - b, nextJ).n)]
     ELSE main' = "close" /\ UNCHANGED <<loading, call, failed, todo>>
  /\ UNCHANGED <<pending, bank, workVars, nextJ, holding, raw, asked, refused, result, out, outcome>>

FirstBatch == main = "first" /\ TakeBatch(0)
NextBatch  == main = "receive" /\ TakeBatch(1 - k)

\* units <- foldUnit: the channel is unbuffered, an idle worker takes the unit
\* at once.  Units are handed out range by range.
Dispatch(w) ==
  /\ main = "dispatch" /\ range <= NumRanges /\ worker[w] = "idle"
  /\ pending' = pending \cup {<<row, range>>}
  /\ worker' = [worker EXCEPT ![w] = "busy"]
  /\ unit' = [unit EXCEPT ![w] = [row |-> row, range |-> range, bank |-> k, base |-> base,
                                  n |-> n, next |-> 1]]
  /\ IF row < NumRows THEN row' = row + 1 /\ range' = range
                      ELSE row' = 1 /\ range' = range + 1
  /\ UNCHANGED <<main, k, base, n, foldErr, bank, acc, readVars, callVars, out, outcome>>

\* MulAddMulti folds the next source of its unit into the unit's range.
MulAdd(w) ==
  /\ worker[w] = "busy"
  /\ LET u == unit[w] IN
       /\ u.next <= u.n
       /\ acc' = [acc EXCEPT ![u.row][u.range] =
                    Append(@, <<u.base + u.next, bank[u.bank][u.next]>>)]
       /\ unit' = [unit EXCEPT ![w].next = @ + 1]
  /\ UNCHANGED <<main, loopVars, pending, bank, worker, readVars, callVars, out, outcome>>

UnitDone(w) ==
  /\ worker[w] = "busy" /\ unit[w].next > unit[w].n
  /\ pending' = pending \ {<<unit[w].row, unit[w].range>>}
  /\ worker' = [worker EXCEPT ![w] = "idle"]
  /\ UNCHANGED <<main, loopVars, bank, unit, acc, readVars, callVars, out, outcome>>

\* The barrier is left out: a batch counts as folded once it is handed out.
BarrierSkipped ==
  /\ main = "dispatch" /\ range > NumRanges
  /\ main' = "receive"
  /\ UNCHANGED <<loopVars, pending, bank, workVars, readVars, callVars, out, outcome>>

\* batchDone.Wait
Barrier ==
  /\ main = "dispatch" /\ range > NumRanges /\ pending = {}
  /\ main' = "receive"
  /\ UNCHANGED <<loopVars, pending, bank, workVars, readVars, callVars, out, outcome>>

\* The error path leaves the channel open.
WorkerExitUnlessError(w) ==
  /\ main = "close" /\ worker[w] = "idle" /\ ~foldErr
  /\ worker' = [worker EXCEPT ![w] = "gone"]
  /\ UNCHANGED <<main, loopVars, pending, bank, unit, acc, readVars, callVars, out, outcome>>

\* close(units): an idle worker leaves.
WorkerExit(w) ==
  /\ main = "close" /\ worker[w] = "idle"
  /\ worker' = [worker EXCEPT ![w] = "gone"]
  /\ UNCHANGED <<main, loopVars, pending, bank, unit, acc, readVars, callVars, out, outcome>>

\* The error path does not wait for the workers.
JoinUnlessError ==
  /\ main = "close"
  /\ foldErr \/ (\A w \in Workers : worker[w] = "gone")
  /\ IF foldErr THEN main' = "returned" /\ outcome' = "error"
                ELSE main' = "finish" /\ UNCHANGED outcome
  /\ UNCHANGED <<loopVars, pending, bank, workVars, readVars, callVars, out>>

\* workers.Wait
Join ==
  /\ main = "close" /\ \A w \in Workers : worker[w] = "gone"
  /\ IF foldErr THEN main' = "returned" /\ outcome' = "error"
                ELSE main' = "finish" /\ UNCHANGED outcome
  /\ UNCHANGED <<loopVars, pending, bank, workVars, readVars, callVars, out>>

\* A goroutine per row; the call returns when all of them are done.
Finish(i) ==
  /\ main = "finish" /\ out[i] = Stale
  /\ out' = [out EXCEPT ![i] = acc[i]]
  /\ UNCHANGED <<main, loopVars, pending, bank, workVars, readVars, callVars, outcome>>

Return ==
  /\ main = "finish" /\ \A i \in Rows : out[i] # Stale
  /\ main' = "returned" /\ outcome' = "ok"
  /\ UNCHANGED <<loopVars, pending, bank, workVars, readVars, callVars, out>>

Next ==
  /\ UNCHANGED parallel
  /\ \/ \E l \in Lanes : AskNext(l) \/ PrepareSlot(l)
     \/ \E w \in Workers : Dispatch(w) \/ MulAdd(w) \/ UnitDone(w) \/ WorkerExit(w)
     \/ \E i \in Rows : Finish(i)
     \/ Enter \/ EndRead \/ FirstBatch \/ NextBatch \/ Barrier \/ Join \/ Return

Spec == Init /\ [][Next]_vars
\* Every goroutine is eventually scheduled, and next returns.
FairSpec == Spec /\ WF_vars(Next)

-----------------------------------------------------------------------------
Calls   == [bank : Banks, base : 0..NumInputs, n : 0..BatchSize]
Results == [base : 0..NumInputs, n : 0..BatchSize, err : BOOLEAN]
Units   == [row : Rows, range : Ranges, bank : Banks, base : 0..NumInputs, n : 0..BatchSize,
            next : 1..(BatchSize + 1)]
Product == (0..NumInputs) \X (0..NumInputs)

\* Type correctness of the pipeline state.
TypeOK ==
  /\ parallel \in BOOLEAN
  /\ main \in {"called", "first", "dispatch", "receive", "close", "finish", "returned"}
  /\ k \in Banks /\ base \in 0..NumInputs /\ n \in 0..BatchSize
  /\ row \in Rows /\ range \in 1..(NumRanges + 1) /\ foldErr \in BOOLEAN
  /\ pending \subseteq Rows \X Ranges
  /\ bank \in [Banks -> [Slots -> 0..NumInputs]]
  /\ worker \in [Workers -> {"idle", "busy", "gone"}] /\ unit \in [Workers -> Units]
  /\ acc \in [Rows -> [Ranges -> Seq(Product)]] /\ out \in [Rows -> [Ranges -> Seq(Product)]]
  /\ nextJ \in 0..NumInputs /\ loading \in BOOLEAN /\ call \in Calls
  /\ todo \in [Lanes -> SUBSET Slots] /\ holding \subseteq Lanes
  /\ raw \in [Lanes -> 0..NumInputs] /\ failed \subseteq Slots
  /\ ready \in BOOLEAN /\ result \in Results
  /\ outcome \in {"running", "ok", "error"} /\ asked \in 0..NumInputs /\ refused \in BOOLEAN

\* No worker folds from the bank a readBank is filling ("The two banks are
\* disjoint buffers, so the overlap is safe", fold.go:234-235).
NoBankRace ==
  loading => \A w \in Workers : worker[w] = "busy" => unit[w].bank # call.bank

\* An accumulator range is never folded by two workers at once: a product
\* added by one would be lost to the other's read-modify-write.
OneFolderPerRange ==
  \A v, w \in Workers : v # w /\ worker[v] = "busy" /\ worker[w] = "busy" =>
    <<unit[v].row, unit[v].range>> # <<unit[w].row, unit[w].range>>

\* FoldInputs, unlike FoldInputsParallel, asks for its inputs one at a time and in ascending
\* order, across the batches that different goroutines read (fold.go:21-24).
InOrder == asked' # asked => asked' = asked + 1
InputsInOrder == [][~parallel => InOrder]_vars

\* No goroutine of the call outlives it, whether it succeeds or fails half way.
NoneLeft ==
  main = "returned" /\ NumInputs # 0 =>
    /\ ~loading /\ ~ready
    /\ \A w \in Workers : worker[w] = "gone"

\* The call returns, whichever reads fail and whoever waits for whom.
Returns == <>(main = "returned")

\* The pipeline implements the promise of FoldInputs: success means that every
\* row holds each input exactly once under its own coefficient, failure that an
\* input was refused, and rows do not change after the return.
Promise == INSTANCE FoldInputs WITH whole <- {i \in Rows : out[i] = Sum(NumInputs)}
KeepsPromise == Promise!SumSpec

-----------------------------------------------------------------------------
\* The inductive invariant of the pipeline.

InLoop == main \in {"first", "dispatch", "receive"}
Dispatched(i, r) == r < range \/ (r = range /\ i < row)

\* A batch being read takes up where the batch being folded ends, in the other
\* bank; each of its slots is filled, refused or still to do.
ReadHolds ==
  /\ loading => /\ ~ready /\ call.base = nextJ /\ call.n = Lesser(BatchSize, NumInputs - nextJ)
                /\ \A l \in Lanes : todo[l] \subseteq 1..call.n
                /\ \A s \in 1..call.n : \/ s \in failed
                                        \/ \E l \in Lanes : s \in todo[l]
                                        \/ bank[call.bank][s] = call.base + s
                /\ \A l \in holding : \A s \in todo[l] : First(l, s) => raw[l] = call.base + s
  /\ ~loading => holding = {}
  /\ ready => /\ result.err => result.n = 0
              /\ ~result.err => /\ nextJ = result.base + result.n
                                /\ result.n = Lesser(BatchSize, NumInputs - result.base)
              /\ \A s \in 1..result.n : bank[call.bank][s] = result.base + s
  /\ InLoop => /\ loading => call.base = base + n
               /\ ready => result.base = base + n
               /\ call.bank = IF main = "first" THEN 0 ELSE 1 - k
  /\ InLoop <=> loading \/ ready
  /\ refused <=> foldErr \/ (loading /\ failed # {}) \/ (ready /\ result.err)

\* The bank being folded holds its batch, and every busy worker owns a unit of it.
WorkHolds ==
  /\ main \in {"dispatch", "receive"} =>
       /\ n > 0 /\ base + n <= NumInputs
       /\ \A s \in 1..n : bank[k][s] = base + s
  /\ main # "dispatch" => pending = {}
  /\ \A w \in Workers : worker[w] = "busy" =>
       LET u == unit[w] IN
         /\ main = "dispatch" /\ <<u.row, u.range>> \in pending /\ Dispatched(u.row, u.range)
         /\ u.bank = k /\ u.base = base /\ u.n = n /\ u.next <= n + 1
         /\ acc[u.row][u.range] = SumOf(base + u.next - 1)
  /\ OneFolderPerRange

\* Every accumulator range holds the inputs folded so far, each exactly once.
SumHolds ==
  /\ main \in {"called", "first"} => base = 0 /\ n = 0 /\ ~foldErr
  /\ main = "called" => nextJ = 0 /\ failed = {}
  /\ \A i \in Rows, r \in Ranges :
       /\ main \in {"called", "first"} => acc[i][r] = SumOf(0)
       /\ main = "dispatch" => /\ ~Dispatched(i, r) => acc[i][r] = SumOf(base)
                               /\ Dispatched(i, r) /\ <<i, r>> \notin pending =>
                                    acc[i][r] = SumOf(base + n)
       /\ main = "receive" => acc[i][r] = SumOf(base + n)
       /\ main \in {"close", "finish"} /\ ~foldErr => acc[i][r] = SumOf(NumInputs)
  /\ main \in {"dispatch", "receive", "finish"} => ~foldErr
  /\ \A i \in Rows : \/ out[i] = Stale
                     \/ main \in {"finish", "returned"} /\ out[i] = Sum(NumInputs)
  /\ outcome = "running" <=> main # "returned"
  /\ main = "returned" => /\ outcome = "ok" /\ NumInputs # 0 => ~foldErr /\ \A i \in Rows : out[i] # Stale
                          /\ outcome = "error" => foldErr

\* What the proofs in FoldProofs carry from step to step.
FoldInv == TypeOK /\ ReadHolds /\ WorkHolds /\ SumHolds

\* A sequential read has a single lane, whose slots are the last ones of its batch, and the
\* input asked for last is the one before them.
OrderHolds == ~parallel =>
  /\ loading =>
       /\ NumInputs # 0
       /\ \A l \in Lanes : l # 1 => todo[l] = {}
       /\ \A s \in todo[1] : s..call.n \subseteq todo[1]
       /\ failed = {} =>
            /\ todo[1] = {} => asked = call.base + call.n
            /\ \A s \in todo[1] : First(1, s) =>
                 asked = IF 1 \in holding THEN call.base + s ELSE call.base + s - 1
  /\ ready /\ ~result.err => asked = nextJ
  /\ main = "called" => asked = 0

\* The rows are finished once every worker has left.
WorkersLeave == main \in {"finish", "returned"} /\ NumInputs # 0 => \A w \in Workers : worker[w] = "gone"
===============================================================================
