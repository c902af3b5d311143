----------------------------- MODULE TransformFold -----------------------------
(***************************************************************************)
(* par2Transform.fold and foldRange (rsec16/par2_transform.go 111-327), the *)
(* plan that PAR2ReconstructionPlan uses for deep repairs, over calls of    *)
(* different lengths.  A short call folds in the plan's own workspace and   *)
(* reads as it goes; a long one reads every input into a bank and lets      *)
(* workers claim stripes of it from an atomic counter, each folding in the  *)
(* workspace of its own child.  Bank, children and workspaces outlive the   *)
(* call.                                                                    *)
(*                                                                          *)
(* A byte is known by the call it was read or folded for: 0 is a byte of no *)
(* call, Moments one that holds the power sums foldRange keeps in out.      *)
(***************************************************************************)
EXTENDS Naturals, FiniteSets

CONSTANTS
  NumInputs,   \* survivors and recovery rows
  NumRows,     \* missing rows, and recovery rows
  MaxWorkers,  \* the plan's workers
  Stripe,      \* transformStripeSize
  MaxLength,   \* bound on the byte range of a call
  MaxCalls,    \* bound on the calls of Fold
  MayRefuse,   \* inputs next may refuse
  MayExhaust   \* whether a workspace may fail to be allocated

ASSUME TransformAssumption ==
  /\ NumInputs \in Nat /\ NumRows \in Nat \ {0} /\ NumRows <= NumInputs
  /\ MaxWorkers \in Nat \ {0} /\ Stripe \in Nat \ {0} /\ MaxLength \in Nat /\ MaxCalls \in Nat
  /\ MayRefuse \subseteq 0..(NumInputs - 1) /\ MayExhaust \in BOOLEAN

Moments == MaxCalls + 1
Inputs == 0..(NumInputs - 1)
Survivors == 0..(NumInputs - NumRows - 1)
Rows == 0..(NumRows - 1)
Bytes == 0..(MaxLength - 1)
Workers == 1..MaxWorkers

VARIABLES
  closed, workers,   \* the plan: closed, and transform.workers, which ChunkSize sets
  children,          \* how many children there are
  space, spaces,     \* bytes of the workspace, and of each child's; 0 without one
  bankLen, bank,     \* inputBank: bytes per input, and what they hold
  main, size, turn,  \* the call of Fold: where it is, its bytes, its number
  cursor, asked,     \* inputs asked for: the next one, and how often each was
  nextOffset,        \* the stripes' counter
  at, off, errs,     \* the goroutines: where each is, its stripe, those with an error
  out,               \* the caller's rows
  refused, outcome   \* an input was refused or a workspace not allocated; what Fold returned

planVars == <<closed, workers>>
keptVars == <<children, space, spaces, bankLen, bank>>
callVars == <<size, turn>>
readVars == <<cursor, asked>>
stripeVars == <<nextOffset, at, off, errs>>
resultVars == <<refused, outcome>>
vars == <<planVars, keptVars, main, callVars, readVars, stripeVars, out, resultVars>>

Lesser(a, b) == IF a < b THEN a ELSE b

Init ==
  /\ closed = FALSE /\ workers = MaxWorkers
  /\ children = 0 /\ space = 0 /\ spaces = [w \in Workers |-> 0]
  /\ bankLen = 0 /\ bank = [i \in Inputs |-> [o \in Bytes |-> 0]]
  /\ main = "idle" /\ size = 0 /\ turn = 0
  /\ cursor = 0 /\ asked = [i \in Inputs |-> 0]
  /\ nextOffset = 0 /\ at = [w \in Workers |-> "exited"] /\ off = [w \in Workers |-> 0] /\ errs = {}
  /\ out = [r \in Rows |-> [o \in Bytes |-> 0]]
  /\ refused = FALSE /\ outcome = "idle"

-----------------------------------------------------------------------------
\* ChunkSize settles how many workers the next folds use.
ChunkSize(n) ==
  /\ main = "idle" /\ ~closed
  /\ workers' = n
  /\ UNCHANGED <<closed, keptVars, main, callVars, readVars, stripeVars, out, resultVars>>

Close ==
  /\ main = "idle" /\ ~closed
  /\ closed' = TRUE
  /\ children' = 0 /\ space' = 0 /\ spaces' = [w \in Workers |-> 0] /\ bankLen' = 0
  /\ UNCHANGED <<workers, bank, main, callVars, readVars, stripeVars, out, resultVars>>

Parallel(n) == workers # 1 /\ n > Stripe

Begin(n) ==
  /\ main = "idle" /\ ~closed /\ turn < MaxCalls
  /\ size' = n /\ turn' = turn + 1
  /\ cursor' = 0 /\ asked' = [i \in Inputs |-> 0]
  /\ refused' = FALSE /\ outcome' = "running"
  /\ UNCHANGED <<planVars, stripeVars, out>>

\* A bank that is too short is kept as long as the workers are the same.
PrepareByWorkers(n) ==
  IF children # workers
  THEN /\ children' = workers /\ space' = 0 /\ spaces' = [w \in Workers |-> 0]
       /\ bankLen' = n /\ bank' = [i \in Inputs |-> [o \in Bytes |-> 0]]
  ELSE UNCHANGED keptVars

\* Children are made anew, and all workspaces dropped, when the number of workers
\* has changed; the bank when it is missing or too short.
Prepare(n) ==
  /\ IF children # workers
     THEN children' = workers /\ space' = 0 /\ spaces' = [w \in Workers |-> 0]
     ELSE UNCHANGED <<children, space, spaces>>
  /\ IF children # workers \/ bankLen < n
     THEN bankLen' = n /\ bank' = [i \in Inputs |-> [o \in Bytes |-> 0]]
     ELSE UNCHANGED <<bankLen, bank>>

CallParallel(n) ==
  /\ Begin(n) /\ Parallel(n)
  /\ Prepare(n)
  /\ main' = "read"

\* A workspace that is missing or too small is replaced; dropping it drops the
\* children and the bank as well.
CallDirect(n) ==
  /\ Begin(n) /\ ~Parallel(n)
  /\ IF space >= n
     THEN main' = "survivors" /\ UNCHANGED keptVars
     ELSE /\ main' = "allocate"
          /\ space' = 0 /\ children' = 0 /\ spaces' = [w \in Workers |-> 0] /\ bankLen' = 0
          /\ UNCHANGED bank

Return(result) == main' = "idle" /\ outcome' = result

\* The workspace may not be to be had: no input has been asked for.
Allocate ==
  /\ main = "allocate"
  /\ \/ main' = "survivors" /\ space' = size /\ UNCHANGED refused
     \/ MayExhaust /\ main' = "fail" /\ refused' = TRUE /\ UNCHANGED space
  /\ UNCHANGED <<planVars, children, spaces, bankLen, bank, callVars, readVars, stripeVars, out, outcome>>

ReturnFailed ==
  /\ main = "fail"
  /\ Return("error")
  /\ UNCHANGED <<planVars, keptVars, callVars, readVars, stripeVars, out, refused>>

-----------------------------------------------------------------------------
\* next refuses input i.
Refuse(i) ==
  /\ i \in MayRefuse
  /\ refused' = TRUE /\ main' = "fail"
  /\ asked' = [asked EXCEPT ![i] = @ + 1]
  /\ UNCHANGED <<planVars, callVars, cursor, stripeVars, out, outcome>>

\* What the bank holds of an input that was just read: its range of this call, and
\* no byte of an earlier one behind it.
ReadRange == [o \in Bytes |-> IF o < size THEN turn ELSE 0]

\* The inputs are read one after the other, by one goroutine.
ReadInput ==
  /\ main = "read" /\ cursor < NumInputs
  /\ \/ /\ bank' = [bank EXCEPT ![cursor] = ReadRange]
        /\ asked' = [asked EXCEPT ![cursor] = @ + 1] /\ cursor' = cursor + 1
        /\ UNCHANGED <<planVars, children, space, spaces, bankLen, main, callVars, stripeVars, out, resultVars>>
     \/ /\ Refuse(cursor)
        /\ bank' = [bank EXCEPT ![cursor] = [o \in Bytes |-> 0]]
        /\ UNCHANGED <<children, space, spaces, bankLen>>

\* Every input is in the bank: a goroutine per child.
Spawn ==
  /\ main = "read" /\ cursor = NumInputs
  /\ main' = "wait" /\ nextOffset' = 0 /\ errs' = {}
  /\ at' = [w \in Workers |-> IF w <= children THEN "claim" ELSE "exited"]
  /\ UNCHANGED <<planVars, keptVars, callVars, readVars, off, out, resultVars>>

\* One atomic addition claims a stripe.
Claim(w) ==
  /\ at[w] = "claim"
  /\ off' = [off EXCEPT ![w] = nextOffset]
  /\ nextOffset' = nextOffset + Stripe
  /\ at' = [at EXCEPT ![w] = IF nextOffset >= size THEN "exited" ELSE "stripe"]
  /\ UNCHANGED <<planVars, keptVars, main, callVars, readVars, errs, out, resultVars>>

\* The end of a stripe is the end of the range.
ExtentToEnd(w) == size - off[w]
Extent(w) == Lesser(Stripe, size - off[w])
InStripe(w, o) == off[w] <= o /\ o < off[w] + Extent(w)
Banked(o) == o < bankLen /\ \A i \in Inputs : bank[i][o] = turn

\* foldRange on a stripe: the power sums of the survivors go through the rows.
SumStripe(w) ==
  /\ at[w] = "stripe"
  /\ spaces' = [spaces EXCEPT ![w] = IF @ < Extent(w) THEN Extent(w) ELSE @]
  /\ out' = [r \in Rows |-> [o \in Bytes |-> IF InStripe(w, o) THEN Moments ELSE out[r][o]]]
  /\ at' = [at EXCEPT ![w] = "finish"]
  /\ UNCHANGED <<planVars, children, space, bankLen, bank, main, callVars, readVars, nextOffset, off, errs, resultVars>>

\* The goroutine of a child without a workspace is not counted out of the wait group.
StripeExhaustedUncounted(w) ==
  /\ at[w] = "stripe" /\ spaces[w] < Extent(w) /\ MayExhaust
  /\ spaces' = [spaces EXCEPT ![w] = 0]
  /\ errs' = errs \cup {w} /\ refused' = TRUE
  /\ at' = [at EXCEPT ![w] = "uncounted"]
  /\ UNCHANGED <<planVars, children, space, bankLen, bank, main, callVars, readVars, nextOffset, off, out, outcome>>

\* A child without a workspace stops claiming; the others go on.
StripeExhausted(w) ==
  /\ at[w] = "stripe" /\ spaces[w] < Extent(w) /\ MayExhaust
  /\ spaces' = [spaces EXCEPT ![w] = 0]
  /\ errs' = errs \cup {w} /\ refused' = TRUE
  /\ at' = [at EXCEPT ![w] = "exited"]
  /\ UNCHANGED <<planVars, children, space, bankLen, bank, main, callVars, readVars, nextOffset, off, out, outcome>>

\* The stripe of every row is written over the power sums.
FinishStripe(w) ==
  /\ at[w] = "finish"
  /\ out' = [r \in Rows |-> [o \in Bytes |-> IF ~InStripe(w, o) THEN out[r][o]
                                              ELSE IF Banked(o) THEN turn ELSE 0]]
  /\ at' = [at EXCEPT ![w] = "claim"]
  /\ UNCHANGED <<planVars, keptVars, main, callVars, readVars, nextOffset, off, errs, resultVars>>

\* wg.Wait, then the first worker's error.
Join ==
  /\ main = "wait" /\ \A w \in Workers : at[w] = "exited"
  /\ Return(IF errs = {} THEN "ok" ELSE "error")
  /\ UNCHANGED <<planVars, keptVars, callVars, readVars, stripeVars, out, refused>>

-----------------------------------------------------------------------------
\* foldRange in the plan's own workspace: the survivors in the order of their
\* cosets, any order here.
ReadSurvivor(i) ==
  /\ main = "survivors" /\ i \in Survivors /\ asked[i] = 0
  /\ \/ /\ asked' = [asked EXCEPT ![i] = @ + 1]
        /\ UNCHANGED <<planVars, main, callVars, cursor, stripeVars, out, resultVars>>
     \/ Refuse(i)
  /\ UNCHANGED keptVars

SumSurvivors ==
  /\ main = "survivors" /\ \A i \in Survivors : asked[i] # 0
  /\ main' = "recovery" /\ cursor' = NumInputs - NumRows
  /\ out' = [r \in Rows |-> [o \in Bytes |-> IF o < size THEN Moments ELSE out[r][o]]]
  /\ UNCHANGED <<planVars, keptVars, callVars, asked, stripeVars, resultVars>>

\* Then the recovery rows, in order.
ReadRecovery ==
  /\ main = "recovery" /\ cursor < NumInputs
  /\ \/ /\ asked' = [asked EXCEPT ![cursor] = @ + 1] /\ cursor' = cursor + 1
        /\ UNCHANGED <<planVars, main, callVars, stripeVars, out, resultVars>>
     \/ Refuse(cursor)
  /\ UNCHANGED keptVars

FinishDirect ==
  /\ main = "recovery" /\ cursor = NumInputs
  /\ main' = "direct"
  /\ out' = [r \in Rows |-> [o \in Bytes |-> IF o < size THEN turn ELSE out[r][o]]]
  /\ UNCHANGED <<planVars, keptVars, callVars, readVars, stripeVars, resultVars>>

ReturnDirect ==
  /\ main = "direct"
  /\ Return("ok")
  /\ UNCHANGED <<planVars, keptVars, callVars, readVars, stripeVars, out, refused>>

Worker(w) == Claim(w) \/ SumStripe(w) \/ StripeExhausted(w) \/ FinishStripe(w)
Step == \/ Allocate \/ ReturnFailed \/ ReadInput \/ Spawn \/ Join
        \/ (\E i \in Inputs : ReadSurvivor(i)) \/ SumSurvivors
        \/ ReadRecovery \/ FinishDirect \/ ReturnDirect
Caller == \/ Close
          \/ \E n \in Workers : ChunkSize(n)
          \/ \E n \in 1..MaxLength : CallParallel(n) \/ CallDirect(n)
Next == Caller \/ Step \/ \E w \in Workers : Worker(w)

Spec == Init /\ [][Next]_vars
FairSpec == Spec /\ WF_vars(Step) /\ \A w \in Workers : WF_vars(Worker(w))

-----------------------------------------------------------------------------
\* Type correctness.
TypeOK ==
  /\ closed \in BOOLEAN /\ workers \in Workers /\ children \in 0..MaxWorkers
  /\ space \in 0..MaxLength /\ spaces \in [Workers -> 0..MaxLength] /\ bankLen \in 0..MaxLength
  /\ bank \in [Inputs -> [Bytes -> 0..MaxCalls]]
  /\ main \in {"idle", "read", "wait", "allocate", "survivors", "recovery", "direct", "fail"}
  /\ size \in 0..MaxLength /\ turn \in 0..MaxCalls
  /\ cursor \in 0..NumInputs /\ asked \in [Inputs -> Nat]
  /\ nextOffset \in Nat /\ off \in [Workers -> Nat] /\ errs \subseteq Workers
  /\ at \in [Workers -> {"claim", "stripe", "finish", "exited"}]
  /\ out \in [Rows -> [Bytes -> 0..Moments]]
  /\ refused \in BOOLEAN /\ outcome \in {"idle", "running", "ok", "error"}

Active(w) == at[w] \in {"stripe", "finish"}

\* Whatever the order in which the workers claim, no two of them have a byte of a row
\* in common, and none has one that another has finished ("write disjoint ranges",
\* par2_transform.go:163-181).
StripesApart ==
  /\ \A v, w \in Workers : v # w /\ Active(v) /\ Active(w) =>
       ~\E o \in Bytes : InStripe(v, o) /\ InStripe(w, o)
  /\ \A w \in Workers : Active(w) =>
       \A r \in Rows, o \in Bytes : InStripe(w, o) => out[r][o] # turn
\* No input is read twice, and a call that succeeds has read them all.
ReadOnce ==
  /\ \A i \in Inputs : asked[i] <= 1
  /\ outcome = "ok" => \A i \in Inputs : asked[i] = 1

\* A call of a transform plan does everything once, workers or not: "Transform plans read
\* each input exactly once per byte range" (par2_plan.go:133-134), and fold each byte of
\* a row once, in one worker's stripe.
EachOnce == StripesApart /\ ReadOnce

\* The rows that hold the whole sum of the current call.
Whole == IF turn = 0 THEN {} ELSE {r \in Rows : \A o \in Bytes : o < size => out[r][o] = turn}

Promise == INSTANCE PlanFolds WITH whole <- Whole

\* Every call of the plan keeps the promise of a fold, whatever the calls before it
\* left in the bank, the children and the workspaces (par2_plan.go:132-157).
PlanKeepsPromise == Promise!PlanSpec

\* A call that was started returns.
Returns == main # "idle" ~> main = "idle"
===============================================================================
