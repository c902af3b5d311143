------------------------------- MODULE PlanProofs -------------------------------
(***************************************************************************)
(* Proofs about the folds of a transform plan, for any number of inputs,    *)
(* rows, workers, stripes and calls: TransformInv is inductive, every input *)
(* is read once and every byte folded in one worker's stripe, and the calls *)
(* keep the promise of PlanFolds.  And about the region programs it runs,   *)
(* for any program, rows, contexts and arithmetic: RunInv is inductive, and *)
(* the goroutines leave what the program leaves when run in order.  And     *)
(* about the size of a chunk, for any plan, slice, budget and build.        *)
(***************************************************************************)
EXTENDS TransformFold, RegionRun, ChunkSizes, SequenceLemmas

-----------------------------------------------------------------------------
\* What is true of a call and of the rows it is given.
CallHolds ==
  /\ main = "idle" <=> outcome # "running"
  /\ main # "idle" => size > 0 /\ turn > 0
  /\ main # "wait" => \A w \in Workers : at[w] = "exited"
  /\ \A r \in Rows, o \in Bytes : out[r][o] <= turn \/ out[r][o] = Moments
  /\ main \in {"read", "allocate", "survivors", "recovery", "fail"} =>
       \A r \in Rows, o \in Bytes : out[r][o] # turn
  /\ main = "direct" => \A r \in Rows, o \in Bytes : o < size => out[r][o] = turn

\* An input or a workspace was refused exactly when the call is going to say so.
RefusedHolds ==
  /\ main \in {"read", "allocate", "survivors", "recovery", "direct"} => ~refused
  /\ main = "fail" => refused
  /\ main = "wait" => (refused <=> errs # {})

\* The inputs below the cursor have been asked for once, the others not yet.
AskedHolds ==
  /\ \A i \in Inputs : asked[i] <= 1
  /\ main = "allocate" => \A i \in Inputs : asked[i] = 0
  /\ main = "read" => \A i \in Inputs : asked[i] = 1 <=> i < cursor
  /\ main = "survivors" => \A i \in Inputs : i \notin Survivors => asked[i] = 0
  /\ main = "recovery" => NumInputs - NumRows <= cursor /\ \A i \in Inputs : asked[i] = 1 <=> i < cursor
  /\ main \in {"wait", "direct"} \/ outcome = "ok" => \A i \in Inputs : asked[i] = 1

\* The bank is long enough for the call and holds what the call has read.
BankHolds ==
  /\ main \in {"read", "wait"} => children > 0 /\ size <= bankLen
  /\ main = "read" => \A i \in Inputs, o \in Bytes : i < cursor /\ o < size => bank[i][o] = turn
  /\ main = "wait" => \A i \in Inputs, o \in Bytes : o < size => bank[i][o] = turn

\* The stripes claimed so far are apart; their bytes are whole or some worker's, unless
\* a worker failed, and one that exited had no stripe left to claim.
StripesHold ==
  main = "wait" =>
    /\ \A w \in Workers : Active(w) => off[w] < size /\ off[w] + Stripe <= nextOffset
    /\ \A v, w \in Workers : v # w /\ Active(v) /\ Active(w) =>
         off[v] + Stripe <= off[w] \/ off[w] + Stripe <= off[v]
    /\ \A r \in Rows, o \in Bytes : out[r][o] = turn =>
         o < nextOffset /\ \A w \in Workers : Active(w) => ~InStripe(w, o)
    /\ \A o \in Bytes : errs = {} /\ o < size /\ o < nextOffset =>
         \/ \E w \in Workers : Active(w) /\ InStripe(w, o)
         \/ \A r \in Rows : out[r][o] = turn
    /\ \A w \in Workers : w <= children /\ at[w] = "exited" => w \in errs \/ nextOffset >= size

TransformInv == TypeOK /\ CallHolds /\ RefusedHolds /\ AskedHolds /\ BankHolds /\ StripesHold

-----------------------------------------------------------------------------
\* There are rows and workers, and stripes of some bytes.
LEMMA Sizes ==
  /\ NumInputs \in Nat /\ NumRows \in Nat \ {0} /\ NumRows <= NumInputs
  /\ MaxWorkers \in Nat \ {0} /\ Stripe \in Nat \ {0} /\ MaxLength \in Nat /\ MaxCalls \in Nat
  /\ \A i \in Inputs : i \in Nat /\ i < NumInputs
  /\ \A i \in Nat : i < NumInputs => i \in Inputs
  /\ \A o \in Bytes : o \in Nat /\ o < MaxLength
  /\ \A w \in Workers : w \in Nat \ {0} /\ w <= MaxWorkers
  /\ 1 \in Workers /\ 0 \in Rows
BY TransformAssumption DEF Inputs, Rows, Bytes, Workers

\* A bank or rows that hold nothing of any call, and children without a workspace.
LEMMA Blank ==
  /\ [w \in Workers |-> 0] \in [Workers -> 0..MaxLength]
  /\ [w \in Workers |-> 0] \in [Workers -> Nat]
  /\ [i \in Inputs |-> 0] \in [Inputs -> Nat]
  /\ [i \in Inputs |-> [o \in Bytes |-> 0]] \in [Inputs -> [Bytes -> 0..MaxCalls]]
  /\ [r \in Rows |-> [o \in Bytes |-> 0]] \in [Rows -> [Bytes -> 0..Moments]]
BY Sizes DEF Moments

\* A plan starts idle, with no stripe claimed.
LEMMA InitInv == Init => TransformInv
<1> SUFFICES ASSUME Init PROVE TransformInv
  OBVIOUS
<1> USE Sizes DEF Init
<1>1. TypeOK
  <2>1. closed \in BOOLEAN /\ workers \in Workers
    <3>1. MaxWorkers \in Workers
      BY DEF Workers
    <3> QED BY <3>1
  <2>5. /\ children \in 0..MaxWorkers /\ space \in 0..MaxLength
        /\ bankLen \in 0..MaxLength /\ size \in 0..MaxLength /\ turn \in 0..MaxCalls
        /\ cursor \in 0..NumInputs /\ nextOffset \in Nat
    OBVIOUS
  <2>4. errs \subseteq Workers
    OBVIOUS
  <2>2. /\ spaces \in [Workers -> 0..MaxLength] /\ off \in [Workers -> Nat] /\ asked \in [Inputs -> Nat]
        /\ bank \in [Inputs -> [Bytes -> 0..MaxCalls]] /\ out \in [Rows -> [Bytes -> 0..Moments]]
    BY Blank
  <2>3. at \in [Workers -> {"claim", "stripe", "finish", "exited"}]
    OBVIOUS
  <2> QED BY <2>1, <2>2, <2>3, <2>4, <2>5 DEF TypeOK
<1>2. CallHolds
  BY DEF CallHolds
<1>3. RefusedHolds /\ AskedHolds /\ BankHolds /\ StripesHold
  BY DEF RefusedHolds, AskedHolds, BankHolds, StripesHold
<1> QED BY <1>1, <1>2, <1>3 DEF TransformInv

\* A stripe within the range is cut at the end of the range.
LEMMA StripeIsCut ==
  ASSUME TypeOK, NEW w \in Workers, off[w] < size, NEW o \in Bytes
  PROVE  InStripe(w, o) <=> off[w] <= o /\ o < off[w] + Stripe /\ o < size
<1> off[w] \in Nat /\ size \in Nat /\ o \in Nat /\ Stripe \in Nat
  BY Sizes DEF TypeOK
<1> QED BY DEF InStripe, Extent, Lesser

\* Between calls nothing changes that a call relies on.
LEMMA BetweenInv ==
  ASSUME TransformInv, Close \/ \E n \in Workers : ChunkSize(n)
  PROVE  TransformInv'
<1> USE DEF TransformInv, planVars, keptVars, callVars, readVars, stripeVars, resultVars
<1>1. /\ main = "idle" /\ main' = main /\ turn' = turn /\ at' = at /\ out' = out /\ asked' = asked
      /\ outcome' = outcome /\ bank' = bank /\ size' = size /\ cursor' = cursor /\ nextOffset' = nextOffset
      /\ off' = off /\ errs' = errs /\ refused' = refused
  BY DEF Close, ChunkSize
<1>2. TypeOK'
  <2>1. CASE Close
    <3>1. /\ children' \in 0..MaxWorkers /\ space' \in 0..MaxLength /\ bankLen' \in 0..MaxLength
          /\ spaces' \in [Workers -> 0..MaxLength]
      BY <2>1, Sizes, Blank DEF Close
    <3>2. closed' \in BOOLEAN /\ workers' \in Workers
      BY <2>1 DEF Close, TypeOK
    <3> QED BY <1>1, <3>1, <3>2 DEF TypeOK
  <2>2. CASE \E n \in Workers : ChunkSize(n)
    <3>1. /\ closed' = closed /\ workers' \in Workers /\ children' = children /\ space' = space
          /\ spaces' = spaces /\ bankLen' = bankLen
      BY <2>2 DEF ChunkSize
    <3> QED BY <1>1, <3>1 DEF TypeOK
  <2> QED BY <2>1, <2>2
<1>3. CallHolds'
  BY <1>1 DEF CallHolds
<1>4. RefusedHolds' /\ AskedHolds' /\ BankHolds' /\ StripesHold'
  BY <1>1 DEF RefusedHolds, AskedHolds, BankHolds, StripesHold
<1> QED BY <1>2, <1>3, <1>4

\* A call starts with rows that hold nothing of it and with no input asked for.
LEMMA BeginInv ==
  ASSUME TransformInv, NEW c \in 1..MaxLength, Begin(c),
         main' \in {"read", "survivors", "allocate"}, at' = at,
         children' \in 0..MaxWorkers, space' \in 0..MaxLength, spaces' \in [Workers -> 0..MaxLength],
         bankLen' \in 0..MaxLength, bank' \in [Inputs -> [Bytes -> 0..MaxCalls]],
         main' = "read" => children' > 0 /\ c <= bankLen'
  PROVE  TransformInv'
<1> USE Sizes DEF TransformInv, Begin, planVars, stripeVars
<1>1. /\ closed' = closed /\ workers' = workers /\ nextOffset' = nextOffset /\ off' = off /\ errs' = errs
      /\ out' = out /\ refused' = FALSE /\ outcome' = "running" /\ cursor' = 0 /\ size' = c
      /\ turn' = turn + 1 /\ turn' \in 1..MaxCalls /\ turn \in Nat /\ MaxCalls \in Nat /\ size' \in 0..MaxLength
      /\ \A i \in Inputs : asked'[i] = 0
  BY DEF TypeOK
<1>2. TypeOK'
  <2>1. asked' \in [Inputs -> Nat] /\ cursor' \in 0..NumInputs /\ turn' \in 0..MaxCalls
    BY <1>1, Blank
  <2>2. main' \in {"idle", "read", "wait", "allocate", "survivors", "recovery", "direct", "fail"}
    OBVIOUS
  <2> QED BY <1>1, <2>1, <2>2 DEF TypeOK
<1>3. ASSUME NEW r \in Rows, NEW o \in Bytes
      PROVE  out'[r][o] \in 0..Moments /\ (out'[r][o] <= turn' \/ out'[r][o] = Moments) /\ out'[r][o] # turn'
  <2>1. out[r][o] \in 0..Moments /\ (out[r][o] <= turn \/ out[r][o] = Moments)
    BY DEF TypeOK, CallHolds
  <2> QED BY <1>1, <2>1 DEF Moments
<1>4. CallHolds'
  <2>1. \A w \in Workers : at'[w] = "exited"
    BY DEF CallHolds
  <2> QED BY <1>1, <1>3, <2>1 DEF CallHolds
<1>5. RefusedHolds' /\ AskedHolds' /\ StripesHold'
  BY <1>1 DEF RefusedHolds, AskedHolds, StripesHold
<1>6. BankHolds'
  BY <1>1 DEF BankHolds
<1> QED BY <1>2, <1>4, <1>5, <1>6

LEMMA CallInv ==
  ASSUME TransformInv, NEW c \in 1..MaxLength, CallParallel(c) \/ CallDirect(c)
  PROVE  TransformInv'
<1>1. CASE CallParallel(c)
  <2>1. Begin(c) /\ main' = "read" /\ at' = at /\ Prepare(c)
    BY <1>1 DEF CallParallel, Begin, stripeVars
  <2>2. /\ workers \in 1..MaxWorkers /\ children \in 0..MaxWorkers /\ space \in 0..MaxLength
        /\ bankLen \in 0..MaxLength /\ spaces \in [Workers -> 0..MaxLength]
        /\ bank \in [Inputs -> [Bytes -> 0..MaxCalls]]
    BY DEF TransformInv, TypeOK, Workers
  <2>3. children' = workers /\ children' \in 0..MaxWorkers /\ children' > 0
    BY <2>1, <2>2, Sizes DEF Prepare
  <2>4. space' \in 0..MaxLength /\ spaces' \in [Workers -> 0..MaxLength]
    <3>1. CASE children # workers
      BY <3>1, <2>1, Blank, Sizes DEF Prepare
    <3>2. CASE children = workers
      BY <3>2, <2>1, <2>2 DEF Prepare
    <3> QED BY <3>1, <3>2
  <2>5. bankLen' \in 0..MaxLength /\ c <= bankLen' /\ bank' \in [Inputs -> [Bytes -> 0..MaxCalls]]
    <3>1. CASE children # workers \/ bankLen < c
      BY <3>1, <2>1, Blank, Sizes DEF Prepare
    <3>2. CASE ~(children # workers \/ bankLen < c)
      BY <3>2, <2>1, <2>2, Sizes DEF Prepare
    <3> QED BY <3>1, <3>2
  <2> QED BY <2>1, <2>3, <2>4, <2>5, BeginInv
<1>2. CASE CallDirect(c)
  <2>1. Begin(c) /\ main' \in {"survivors", "allocate"} /\ at' = at
    BY <1>2 DEF CallDirect, Begin, stripeVars
  <2>2. /\ children \in 0..MaxWorkers /\ space \in 0..MaxLength /\ bankLen \in 0..MaxLength
        /\ spaces \in [Workers -> 0..MaxLength] /\ bank \in [Inputs -> [Bytes -> 0..MaxCalls]]
    BY DEF TransformInv, TypeOK
  <2>3. /\ children' \in 0..MaxWorkers /\ space' \in 0..MaxLength
        /\ spaces' \in [Workers -> 0..MaxLength] /\ bankLen' \in 0..MaxLength
        /\ bank' \in [Inputs -> [Bytes -> 0..MaxCalls]]
    <3>1. CASE space >= c
      BY <3>1, <1>2, <2>2 DEF CallDirect, keptVars
    <3>2. CASE ~(space >= c)
      BY <3>2, <1>2, <2>2, Blank, Sizes DEF CallDirect
    <3> QED BY <3>1, <3>2
  <2> QED BY <2>1, <2>3, BeginInv
<1> QED BY <1>1, <1>2

\* A call that fails before its stripes says so next.
LEMMA FailInv ==
  ASSUME TransformInv, Allocate \/ ReturnFailed
  PROVE  TransformInv'
<1> USE DEF TransformInv, planVars, keptVars, callVars, readVars, stripeVars, resultVars
<1>1. /\ closed' = closed /\ workers' = workers /\ children' = children /\ spaces' = spaces
      /\ bankLen' = bankLen /\ bank' = bank /\ size' = size /\ turn' = turn /\ cursor' = cursor /\ asked' = asked
      /\ nextOffset' = nextOffset /\ at' = at /\ off' = off /\ errs' = errs /\ out' = out
  BY DEF Allocate, ReturnFailed
<1>2. \/ main = "allocate" /\ main' = "survivors" /\ space' = size /\ refused' = refused /\ outcome' = outcome
      \/ main = "allocate" /\ main' = "fail" /\ space' = space /\ refused' = TRUE /\ outcome' = outcome
      \/ main = "fail" /\ main' = "idle" /\ space' = space /\ refused' = refused /\ outcome' = "error"
  BY DEF Allocate, ReturnFailed, Return
<1>3. TypeOK'
  BY <1>1, <1>2 DEF TypeOK
<1>4. CallHolds'
  BY <1>1, <1>2 DEF CallHolds
<1>5. RefusedHolds' /\ BankHolds' /\ StripesHold'
  BY <1>1, <1>2 DEF RefusedHolds, BankHolds, StripesHold
<1>6. AskedHolds'
  BY <1>1, <1>2 DEF AskedHolds
<1> QED BY <1>3, <1>4, <1>5, <1>6

-----------------------------------------------------------------------------
\* An input that is refused ends the call: no stripe and no row was touched for it.
LEMMA RefuseInv ==
  ASSUME TransformInv, NEW i \in Inputs, asked[i] = 0, Refuse(i),
         main \in {"read", "survivors", "recovery"},
         children' = children, space' = space, spaces' = spaces, bankLen' = bankLen,
         bank' \in [Inputs -> [Bytes -> 0..MaxCalls]]
  PROVE  TransformInv'
<1> USE DEF TransformInv, Refuse, planVars, callVars, stripeVars
<1>1. /\ closed' = closed /\ workers' = workers /\ size' = size /\ turn' = turn /\ cursor' = cursor
      /\ nextOffset' = nextOffset /\ at' = at /\ off' = off /\ errs' = errs /\ out' = out
      /\ outcome' = outcome /\ main' = "fail" /\ refused' = TRUE
  OBVIOUS
<1>2. asked' \in [Inputs -> Nat] /\ \A k \in Inputs : asked'[k] <= 1
  BY DEF TypeOK, AskedHolds
<1>3. TypeOK'
  BY <1>1, <1>2 DEF TypeOK
<1>4. CallHolds'
  BY <1>1 DEF CallHolds
<1>5. RefusedHolds' /\ BankHolds' /\ StripesHold'
  BY <1>1 DEF RefusedHolds, BankHolds, StripesHold
<1>6. AskedHolds'
  BY <1>1, <1>2 DEF AskedHolds, CallHolds
<1> QED BY <1>3, <1>4, <1>5, <1>6

\* Reading an input into the bank.
LEMMA ReadInputInv ==
  ASSUME TransformInv, ReadInput
  PROVE  TransformInv'
<1> USE DEF TransformInv
<1>1. /\ main = "read" /\ cursor \in Inputs /\ cursor \in Nat /\ asked[cursor] = 0 /\ NumInputs \in Nat
      /\ cursor < NumInputs
  <2>1. main = "read" /\ cursor \in Nat /\ cursor < NumInputs /\ NumInputs \in Nat
    BY Sizes DEF ReadInput, TypeOK
  <2>2. cursor \in Inputs
    BY <2>1, Sizes
  <2>3. asked[cursor] \in Nat /\ asked[cursor] <= 1 /\ asked[cursor] # 1
    BY <2>1, <2>2 DEF TypeOK, AskedHolds
  <2> QED BY <2>1, <2>2, <2>3
<1>2. CASE Refuse(cursor) /\ bank' = [bank EXCEPT ![cursor] = [o \in Bytes |-> 0]]
           /\ UNCHANGED <<children, space, spaces, bankLen>>
  <2>1. bank' \in [Inputs -> [Bytes -> 0..MaxCalls]]
    <3>1. [o \in Bytes |-> 0] \in [Bytes -> 0..MaxCalls]
      BY Sizes
    <3> QED BY <1>2, <3>1 DEF TypeOK
  <2> QED BY <1>1, <1>2, <2>1, RefuseInv
<1>3. CASE /\ bank' = [bank EXCEPT ![cursor] = ReadRange]
           /\ asked' = [asked EXCEPT ![cursor] = @ + 1] /\ cursor' = cursor + 1
           /\ UNCHANGED <<planVars, children, space, spaces, bankLen, main, callVars, stripeVars, out, resultVars>>
  <2> USE DEF planVars, callVars, stripeVars, resultVars
  <2>1. /\ closed' = closed /\ workers' = workers /\ children' = children /\ space' = space /\ spaces' = spaces
        /\ bankLen' = bankLen /\ main' = main /\ size' = size /\ turn' = turn /\ nextOffset' = nextOffset
        /\ at' = at /\ off' = off /\ errs' = errs /\ out' = out /\ refused' = refused /\ outcome' = outcome
        /\ cursor' = cursor + 1
    BY <1>3
  <2>2. /\ asked' \in [Inputs -> Nat] /\ asked'[cursor] = 1
        /\ \A i \in Inputs : i # cursor => asked'[i] = asked[i]
    BY <1>1, <1>3 DEF TypeOK
  <2>3. /\ bank' \in [Inputs -> [Bytes -> 0..MaxCalls]] /\ bank'[cursor] = ReadRange
        /\ \A i \in Inputs : i # cursor => bank'[i] = bank[i]
    <3>1. ReadRange \in [Bytes -> 0..MaxCalls]
      BY Sizes DEF ReadRange, TypeOK
    <3> QED BY <1>1, <1>3, <3>1 DEF TypeOK
  <2>4. cursor' \in 0..NumInputs
    BY <1>1, <2>1
  <2>5. TypeOK'
    BY <2>1, <2>2, <2>3, <2>4 DEF TypeOK
  <2>6. CallHolds'
    BY <2>1 DEF CallHolds
  <2>7. RefusedHolds' /\ StripesHold'
    BY <1>1, <2>1 DEF RefusedHolds, StripesHold
  <2>8. AskedHolds'
    <3>1. \A i \in Inputs : i < cursor + 1 <=> i < cursor \/ i = cursor
      BY <1>1, Sizes
    <3>2. \A i \in Inputs : asked'[i] <= 1 /\ (asked'[i] = 1 <=> i < cursor')
      BY <1>1, <2>1, <2>2, <3>1 DEF AskedHolds
    <3> QED BY <1>1, <2>1, <3>2 DEF AskedHolds, CallHolds
  <2>9. BankHolds'
    <3>1. \A i \in Inputs : i < cursor + 1 => i < cursor \/ i = cursor
      BY <1>1, Sizes
    <3>2. \A o \in Bytes : o < size => bank'[cursor][o] = turn
      BY <2>3 DEF ReadRange
    <3>3. ASSUME NEW i \in Inputs, NEW o \in Bytes, i < cursor', o < size' PROVE bank'[i][o] = turn'
      <4>1. CASE i = cursor
        BY <4>1, <2>1, <3>2, <3>3
      <4>2. CASE i # cursor
        BY <4>2, <1>1, <2>1, <2>3, <3>1, <3>3 DEF BankHolds
      <4> QED BY <4>1, <4>2
    <3> QED BY <1>1, <2>1, <3>3 DEF BankHolds
  <2> QED BY <2>5, <2>6, <2>7, <2>8, <2>9
<1> QED BY <1>1, <1>2, <1>3 DEF ReadInput

\* The goroutines start with every input in the bank and every stripe to be claimed.
LEMMA SpawnInv ==
  ASSUME TransformInv, Spawn
  PROVE  TransformInv'
<1> USE DEF TransformInv, Spawn, planVars, keptVars, callVars, readVars, resultVars
<1>1. /\ closed' = closed /\ workers' = workers /\ children' = children /\ space' = space /\ spaces' = spaces
      /\ bankLen' = bankLen /\ bank' = bank /\ size' = size /\ turn' = turn /\ cursor' = cursor /\ asked' = asked
      /\ off' = off /\ out' = out /\ refused' = refused /\ outcome' = outcome
      /\ main = "read" /\ main' = "wait" /\ cursor = NumInputs /\ nextOffset' = 0 /\ errs' = {}
  OBVIOUS
<1>2. /\ at' \in [Workers -> {"claim", "stripe", "finish", "exited"}]
      /\ \A w \in Workers : ~Active(w)' /\ (w <= children => at'[w] = "claim")
  BY DEF Active
<1>3. TypeOK'
  BY <1>1, <1>2 DEF TypeOK
<1>4. CallHolds'
  BY <1>1 DEF CallHolds
<1>5. RefusedHolds'
  BY <1>1 DEF RefusedHolds
<1>6. AskedHolds'
  BY <1>1, Sizes DEF AskedHolds, CallHolds
<1>7. BankHolds'
  BY <1>1, Sizes DEF BankHolds
<1>8. StripesHold'
  <2>1. \A r \in Rows, o \in Bytes : out'[r][o] # turn'
    BY <1>1 DEF CallHolds
  <2>2. \A o \in Bytes : ~(o < nextOffset')
    BY <1>1, Sizes
  <2> QED BY <1>1, <1>2, <2>1, <2>2 DEF StripesHold
<1> QED BY <1>3, <1>4, <1>5, <1>6, <1>7, <1>8

-----------------------------------------------------------------------------
\* A claim takes the bytes from the counter on, which nobody has.
LEMMA ClaimInv ==
  ASSUME TransformInv, NEW w \in Workers, Claim(w)
  PROVE  TransformInv'
<1> USE DEF TransformInv, Claim, planVars, keptVars, callVars, readVars, resultVars
<1>1. /\ closed' = closed /\ workers' = workers /\ children' = children /\ space' = space /\ spaces' = spaces
      /\ bankLen' = bankLen /\ bank' = bank /\ main' = main /\ size' = size /\ turn' = turn /\ cursor' = cursor
      /\ asked' = asked /\ errs' = errs /\ out' = out /\ refused' = refused /\ outcome' = outcome
      /\ main = "wait" /\ at[w] = "claim"
  BY DEF CallHolds
<1>2. /\ nextOffset \in Nat /\ nextOffset' \in Nat /\ nextOffset' = nextOffset + Stripe /\ size \in Nat
      /\ Stripe \in Nat \ {0}
  BY Sizes DEF TypeOK
<1>3. /\ off' \in [Workers -> Nat] /\ off'[w] = nextOffset
      /\ \A v \in Workers : v # w => off'[v] = off[v]
      /\ \A v \in Workers : off[v] \in Nat
  BY <1>2 DEF TypeOK
<1>4. /\ at' \in [Workers -> {"claim", "stripe", "finish", "exited"}]
      /\ at'[w] = IF nextOffset >= size THEN "exited" ELSE "stripe"
      /\ \A v \in Workers : v # w => at'[v] = at[v]
  BY DEF TypeOK
<1>5. /\ Active(w)' <=> nextOffset < size
      /\ ~Active(w)
      /\ \A v \in Workers : v # w => (Active(v)' <=> Active(v))
  BY <1>1, <1>2, <1>4 DEF Active
<1>6. ASSUME NEW v \in Workers, v # w, NEW o \in Bytes
      PROVE  InStripe(v, o)' <=> InStripe(v, o)
  BY <1>1, <1>3, <1>6 DEF InStripe, Extent, Lesser
<1>7. TypeOK'
  BY <1>1, <1>2, <1>3, <1>4 DEF TypeOK
<1>8. CallHolds' /\ RefusedHolds' /\ AskedHolds' /\ BankHolds'
  BY <1>1 DEF CallHolds, RefusedHolds, AskedHolds, BankHolds
<1>9. ASSUME Active(w)', NEW o \in Bytes
      PROVE  InStripe(w, o)' <=> nextOffset <= o /\ o < nextOffset + Stripe /\ o < size
  <2>1. o \in Nat /\ off'[w] = nextOffset /\ size' = size /\ nextOffset < size
    BY <1>1, <1>3, <1>5, <1>9, Sizes
  <2> QED BY <1>2, <2>1 DEF InStripe, Extent, Lesser
<1>10. StripesHold'
  <2>1. ASSUME NEW v \in Workers, Active(v)'
        PROVE  off'[v] < size' /\ off'[v] + Stripe <= nextOffset'
    BY <1>1, <1>2, <1>3, <1>5, <2>1 DEF StripesHold
  <2>2. ASSUME NEW u \in Workers, NEW v \in Workers, u # v, Active(u)', Active(v)'
        PROVE  off'[u] + Stripe <= off'[v] \/ off'[v] + Stripe <= off'[u]
    BY <1>1, <1>2, <1>3, <1>5, <2>2 DEF StripesHold
  <2>3. ASSUME NEW r \in Rows, NEW o \in Bytes, out'[r][o] = turn'
        PROVE  o < nextOffset' /\ \A v \in Workers : Active(v)' => ~InStripe(v, o)'
    <3>1. o < nextOffset /\ \A v \in Workers : Active(v) => ~InStripe(v, o)
      BY <1>1, <2>3 DEF StripesHold
    <3>2. o \in Nat
      BY Sizes
    <3> QED BY <1>2, <1>5, <1>6, <1>9, <3>1, <3>2
  <2>4. ASSUME NEW o \in Bytes, errs' = {}, o < size', o < nextOffset'
        PROVE  \/ \E v \in Workers : Active(v)' /\ InStripe(v, o)'
               \/ \A r \in Rows : out'[r][o] = turn'
    <3>1. o \in Nat
      BY Sizes
    <3>2. CASE o < nextOffset
      <4>1. CASE \E v \in Workers : Active(v) /\ InStripe(v, o)
        <5>1. PICK v \in Workers : Active(v) /\ InStripe(v, o)
          BY <4>1
        <5>2. v # w
          BY <5>1, <1>5
        <5> QED BY <5>1, <5>2, <1>5, <1>6
      <4>2. CASE \A r \in Rows : out[r][o] = turn
        BY <4>2, <1>1
      <4> QED BY <3>2, <4>1, <4>2, <2>4, <1>1 DEF StripesHold
    <3>3. CASE ~(o < nextOffset)
      <4>1. nextOffset <= o /\ o < nextOffset + Stripe /\ o < size /\ nextOffset < size
        BY <3>1, <3>3, <1>1, <1>2, <2>4
      <4> QED BY <4>1, <1>5, <1>9
    <3> QED BY <3>2, <3>3
  <2>5. ASSUME NEW v \in Workers, v <= children', at'[v] = "exited"
        PROVE  v \in errs' \/ nextOffset' >= size'
    <3>1. CASE v = w
      BY <3>1, <1>1, <1>2, <1>4, <2>5
    <3>2. CASE v # w
      BY <3>2, <1>1, <1>2, <1>4, <2>5 DEF StripesHold
    <3> QED BY <3>1, <3>2
  <2> QED BY <2>1, <2>2, <2>3, <2>4, <2>5 DEF StripesHold
<1> QED BY <1>7, <1>8, <1>10

\* The power sums are no byte of the call, and only the stripe's bytes lose what they held.
LEMMA SumStripeInv ==
  ASSUME TransformInv, NEW w \in Workers, SumStripe(w)
  PROVE  TransformInv'
<1> USE DEF TransformInv, SumStripe, callVars, planVars, readVars, resultVars
<1>1. /\ closed' = closed /\ workers' = workers /\ children' = children /\ space' = space
      /\ bankLen' = bankLen /\ bank' = bank /\ main' = main /\ size' = size /\ turn' = turn /\ cursor' = cursor
      /\ asked' = asked /\ nextOffset' = nextOffset /\ off' = off /\ errs' = errs /\ refused' = refused
      /\ outcome' = outcome /\ main = "wait" /\ at[w] = "stripe"
  BY DEF CallHolds
<1>2. turn \in 0..MaxCalls /\ turn # Moments /\ MaxCalls \in Nat /\ Moments = MaxCalls + 1
  BY Sizes DEF TypeOK, Moments
<1>3. spaces' \in [Workers -> 0..MaxLength]
  <2>1. off[w] \in Nat /\ off[w] < size /\ size \in 0..MaxLength /\ Stripe \in Nat \ {0} /\ MaxLength \in Nat
    BY <1>1, Sizes DEF TypeOK, StripesHold, Active
  <2>2. Extent(w) \in 0..MaxLength
    BY <2>1 DEF Extent, Lesser
  <2> QED BY <2>2 DEF TypeOK
<1>4. /\ at' \in [Workers -> {"claim", "stripe", "finish", "exited"}]
      /\ at'[w] = "finish" /\ \A v \in Workers : v # w => at'[v] = at[v]
  BY DEF TypeOK
<1>5. /\ Active(w) /\ \A v \in Workers : Active(v)' <=> Active(v)
      /\ \A v \in Workers, o \in Bytes : InStripe(v, o)' <=> InStripe(v, o)
  BY <1>1, <1>4 DEF Active, InStripe, Extent
<1>6. ASSUME NEW r \in Rows, NEW o \in Bytes
      PROVE  /\ out'[r][o] \in 0..Moments
             /\ out'[r][o] = IF InStripe(w, o) THEN Moments ELSE out[r][o]
             /\ out'[r][o] <= turn \/ out'[r][o] = Moments
             /\ out'[r][o] = turn => out[r][o] = turn /\ ~InStripe(w, o)
  <2>1. out[r][o] \in 0..Moments /\ (out[r][o] <= turn \/ out[r][o] = Moments)
    BY DEF TypeOK, CallHolds
  <2>2. out'[r][o] = IF InStripe(w, o) THEN Moments ELSE out[r][o]
    OBVIOUS
  <2> QED BY <1>2, <2>1, <2>2
<1>7. out' \in [Rows -> [Bytes -> 0..Moments]]
  <2>1. \A r \in Rows : out'[r] \in [Bytes -> 0..Moments]
    BY <1>6
  <2> QED BY <2>1
<1>8. TypeOK'
  BY <1>1, <1>3, <1>4, <1>7 DEF TypeOK
<1>9. CallHolds'
  BY <1>1, <1>6 DEF CallHolds
<1>10. RefusedHolds' /\ AskedHolds' /\ BankHolds'
  BY <1>1 DEF RefusedHolds, AskedHolds, BankHolds
<1>11. StripesHold'
  <2>1. ASSUME NEW o \in Bytes, errs' = {}, o < size', o < nextOffset'
        PROVE  \/ \E v \in Workers : Active(v)' /\ InStripe(v, o)'
               \/ \A r \in Rows : out'[r][o] = turn'
    <3>1. CASE InStripe(w, o)
      BY <3>1, <1>5
    <3>2. CASE ~InStripe(w, o)
      BY <3>2, <1>1, <1>5, <1>6, <2>1 DEF StripesHold
    <3> QED BY <3>1, <3>2
  <2>2. ASSUME NEW r \in Rows, NEW o \in Bytes, out'[r][o] = turn'
        PROVE  o < nextOffset' /\ \A v \in Workers : Active(v)' => ~InStripe(v, o)'
    BY <1>1, <1>5, <1>6, <2>2 DEF StripesHold
  <2>3. \A v \in Workers : at'[v] = "exited" => at[v] = "exited"
    BY <1>4
  <2> QED BY <1>1, <1>5, <2>1, <2>2, <2>3 DEF StripesHold
<1> QED BY <1>8, <1>9, <1>10, <1>11

\* A worker without a workspace leaves its stripe undone, and an error.
LEMMA StripeExhaustedInv ==
  ASSUME TransformInv, NEW w \in Workers, StripeExhausted(w)
  PROVE  TransformInv'
<1> USE DEF TransformInv, StripeExhausted, callVars, planVars, readVars
<1>1. /\ closed' = closed /\ workers' = workers /\ children' = children /\ space' = space
      /\ bankLen' = bankLen /\ bank' = bank /\ main' = main /\ size' = size /\ turn' = turn /\ cursor' = cursor
      /\ asked' = asked /\ nextOffset' = nextOffset /\ off' = off /\ errs' = errs \cup {w} /\ refused' = TRUE
      /\ out' = out /\ outcome' = outcome /\ main = "wait" /\ at[w] = "stripe"
  BY DEF CallHolds
<1>2. /\ at' \in [Workers -> {"claim", "stripe", "finish", "exited"}]
      /\ at'[w] = "exited" /\ \A v \in Workers : v # w => at'[v] = at[v]
  BY DEF TypeOK
<1>3. /\ \A v \in Workers : Active(v)' => Active(v)
      /\ \A v \in Workers, o \in Bytes : InStripe(v, o)' <=> InStripe(v, o)
  BY <1>1, <1>2 DEF Active, InStripe, Extent
<1>4. errs' # {} /\ errs' \subseteq Workers
  BY <1>1 DEF TypeOK
<1>5. spaces' \in [Workers -> 0..MaxLength]
  BY Sizes DEF TypeOK
<1>6. TypeOK'
  BY <1>1, <1>2, <1>4, <1>5 DEF TypeOK
<1>7. CallHolds' /\ AskedHolds' /\ BankHolds'
  BY <1>1 DEF CallHolds, AskedHolds, BankHolds
<1>8. RefusedHolds'
  BY <1>1, <1>4 DEF RefusedHolds
<1>9. StripesHold'
  <2>1. \A v \in Workers : at'[v] = "exited" => v \in errs' \/ at[v] = "exited"
    BY <1>1, <1>2
  <2>2. \A v \in Workers : v \in errs => v \in errs'
    BY <1>1
  <2>3. \A v \in Workers : v <= children' /\ at'[v] = "exited" => v \in errs' \/ nextOffset' >= size'
    BY <1>1, <2>1, <2>2 DEF StripesHold
  <2> QED BY <1>1, <1>3, <1>4, <2>3 DEF StripesHold
<1> QED BY <1>6, <1>7, <1>8, <1>9

\* A stripe is whole once its worker has finished it, for the bank holds every input.
LEMMA FinishStripeInv ==
  ASSUME TransformInv, NEW w \in Workers, FinishStripe(w)
  PROVE  TransformInv'
<1> USE DEF TransformInv, FinishStripe, callVars, planVars, keptVars, readVars, resultVars
<1>1. /\ closed' = closed /\ workers' = workers /\ children' = children /\ space' = space /\ spaces' = spaces
      /\ bankLen' = bankLen /\ bank' = bank /\ main' = main /\ size' = size /\ turn' = turn /\ cursor' = cursor
      /\ asked' = asked /\ nextOffset' = nextOffset /\ off' = off /\ errs' = errs /\ refused' = refused
      /\ outcome' = outcome /\ main = "wait" /\ at[w] = "finish"
  BY DEF CallHolds
<1>2. turn \in 0..MaxCalls /\ MaxCalls \in Nat /\ Moments = MaxCalls + 1
  BY Sizes DEF TypeOK, Moments
<1>3. /\ at' \in [Workers -> {"claim", "stripe", "finish", "exited"}]
      /\ at'[w] = "claim" /\ \A v \in Workers : v # w => at'[v] = at[v]
  BY DEF TypeOK
<1>4. /\ Active(w) /\ ~Active(w)' /\ \A v \in Workers : v # w => (Active(v)' <=> Active(v))
      /\ \A v \in Workers, o \in Bytes : InStripe(v, o)' <=> InStripe(v, o)
  BY <1>1, <1>3 DEF Active, InStripe, Extent
<1>5. /\ off[w] < size /\ off[w] + Stripe <= nextOffset
      /\ \A v \in Workers : off[v] \in Nat
      /\ Stripe \in Nat \ {0} /\ size \in Nat /\ nextOffset \in Nat
  BY <1>1, <1>4, Sizes DEF TypeOK, StripesHold
<1>6. ASSUME NEW o \in Bytes, InStripe(w, o)
      PROVE  o \in Nat /\ off[w] <= o /\ o < off[w] + Stripe /\ o < size /\ Banked(o)
  <2>1. o \in Nat /\ off[w] <= o /\ o < off[w] + Stripe /\ o < size
    BY <1>5, <1>6, StripeIsCut, Sizes
  <2>2. o < bankLen
    BY <1>1, <2>1 DEF BankHolds, TypeOK
  <2>3. \A i \in Inputs : bank[i][o] = turn
    BY <1>1, <2>1 DEF BankHolds
  <2> QED BY <2>1, <2>2, <2>3 DEF Banked
<1>7. ASSUME NEW r \in Rows, NEW o \in Bytes
      PROVE  /\ out'[r][o] \in 0..Moments
             /\ out'[r][o] = IF InStripe(w, o) THEN turn ELSE out[r][o]
             /\ out'[r][o] <= turn \/ out'[r][o] = Moments
  <2>1. out[r][o] \in 0..Moments /\ (out[r][o] <= turn \/ out[r][o] = Moments)
    BY DEF TypeOK, CallHolds
  <2>2. out'[r][o] = IF ~InStripe(w, o) THEN out[r][o] ELSE IF Banked(o) THEN turn ELSE 0
    OBVIOUS
  <2>3. out'[r][o] = IF InStripe(w, o) THEN turn ELSE out[r][o]
    BY <1>6, <2>2
  <2> QED BY <1>2, <2>1, <2>3
<1>8. out' \in [Rows -> [Bytes -> 0..Moments]]
  <2>1. \A r \in Rows : out'[r] \in [Bytes -> 0..Moments]
    BY <1>7
  <2> QED BY <2>1
<1>9. TypeOK'
  BY <1>1, <1>3, <1>8 DEF TypeOK
<1>10. CallHolds'
  BY <1>1, <1>7 DEF CallHolds
<1>11. RefusedHolds' /\ AskedHolds' /\ BankHolds'
  BY <1>1 DEF RefusedHolds, AskedHolds, BankHolds
<1>12. StripesHold'
  <2>1. ASSUME NEW r \in Rows, NEW o \in Bytes, out'[r][o] = turn'
        PROVE  o < nextOffset' /\ \A v \in Workers : Active(v)' => ~InStripe(v, o)'
    <3>1. CASE InStripe(w, o)
      <4>1. o < nextOffset'
        BY <3>1, <1>1, <1>5, <1>6
      <4>2. ASSUME NEW v \in Workers, Active(v)' PROVE ~InStripe(v, o)'
        <5>1. v # w /\ Active(v)
          BY <4>2, <1>4
        <5>2. off[v] < size /\ (off[v] + Stripe <= off[w] \/ off[w] + Stripe <= off[v])
          BY <5>1, <1>1, <1>4 DEF StripesHold
        <5>3. InStripe(v, o) <=> off[v] <= o /\ o < off[v] + Stripe /\ o < size
          BY <5>2, StripeIsCut
        <5>4. ~InStripe(v, o)
          BY <3>1, <1>5, <1>6, <5>2, <5>3
        <5> QED BY <1>4, <5>4
      <4> QED BY <4>1, <4>2
    <3>2. CASE ~InStripe(w, o)
      <4>1. out[r][o] = turn
        BY <3>2, <1>1, <1>7, <2>1
      <4> QED BY <4>1, <1>1, <1>4 DEF StripesHold
    <3> QED BY <3>1, <3>2
  <2>2. ASSUME NEW o \in Bytes, errs' = {}, o < size', o < nextOffset'
        PROVE  \/ \E v \in Workers : Active(v)' /\ InStripe(v, o)'
               \/ \A r \in Rows : out'[r][o] = turn'
    <3>1. CASE InStripe(w, o)
      BY <3>1, <1>1, <1>7
    <3>2. CASE ~InStripe(w, o)
      <4>1. \/ \E v \in Workers : Active(v) /\ InStripe(v, o)
            \/ \A r \in Rows : out[r][o] = turn
        BY <1>1, <2>2 DEF StripesHold
      <4>2. CASE \E v \in Workers : Active(v) /\ InStripe(v, o)
        <5>1. PICK v \in Workers : Active(v) /\ InStripe(v, o)
          BY <4>2
        <5>2. v # w
          BY <5>1, <3>2
        <5> QED BY <5>1, <5>2, <1>4
      <4>3. CASE \A r \in Rows : out[r][o] = turn
        BY <4>3, <3>2, <1>1, <1>7
      <4> QED BY <4>1, <4>2, <4>3
    <3> QED BY <3>1, <3>2
  <2>3. \A v \in Workers : at'[v] = "exited" => at[v] = "exited"
    BY <1>3
  <2> QED BY <1>1, <1>4, <2>1, <2>2, <2>3 DEF StripesHold
<1> QED BY <1>9, <1>10, <1>11, <1>12

\* The call returns once every worker has exited.
LEMMA JoinInv ==
  ASSUME TransformInv, Join
  PROVE  TransformInv'
<1> USE DEF TransformInv, Join, Return, callVars, planVars, keptVars, readVars, stripeVars
<1>1. /\ closed' = closed /\ workers' = workers /\ children' = children /\ space' = space /\ spaces' = spaces
      /\ bankLen' = bankLen /\ bank' = bank /\ size' = size /\ turn' = turn /\ cursor' = cursor
      /\ asked' = asked /\ nextOffset' = nextOffset /\ off' = off /\ errs' = errs /\ refused' = refused
      /\ out' = out /\ at' = at /\ main = "wait" /\ main' = "idle" /\ outcome' \in {"ok", "error"}
      /\ \A w \in Workers : at[w] = "exited"
  OBVIOUS
<1>2. TypeOK'
  BY <1>1 DEF TypeOK
<1>3. CallHolds'
  BY <1>1 DEF CallHolds
<1>4. RefusedHolds' /\ AskedHolds' /\ BankHolds' /\ StripesHold'
  BY <1>1 DEF RefusedHolds, AskedHolds, BankHolds, StripesHold
<1> QED BY <1>2, <1>3, <1>4

-----------------------------------------------------------------------------
\* In the plan's own workspace the survivors come in any order.
LEMMA ReadSurvivorInv ==
  ASSUME TransformInv, NEW i \in Inputs, ReadSurvivor(i)
  PROVE  TransformInv'
<1> USE DEF TransformInv
<1>1. main = "survivors" /\ i \in Survivors /\ asked[i] = 0 /\ UNCHANGED keptVars
  BY DEF ReadSurvivor
<1>2. CASE Refuse(i)
  BY <1>1, <1>2, RefuseInv DEF keptVars, TypeOK
<1>3. CASE /\ asked' = [asked EXCEPT ![i] = @ + 1]
           /\ UNCHANGED <<planVars, main, callVars, cursor, stripeVars, out, resultVars>>
  <2>1. /\ closed' = closed /\ workers' = workers /\ children' = children /\ space' = space /\ spaces' = spaces
        /\ bankLen' = bankLen /\ bank' = bank /\ main' = main /\ size' = size /\ turn' = turn /\ cursor' = cursor
        /\ nextOffset' = nextOffset /\ at' = at /\ off' = off /\ errs' = errs /\ out' = out
        /\ refused' = refused /\ outcome' = outcome
    BY <1>1, <1>3 DEF planVars, keptVars, callVars, stripeVars, resultVars
  <2>2. /\ asked' \in [Inputs -> Nat] /\ asked'[i] = 1
        /\ \A k \in Inputs : k # i => asked'[k] = asked[k]
    BY <1>1, <1>3 DEF TypeOK
  <2>3. TypeOK'
    BY <2>1, <2>2 DEF TypeOK
  <2>4. CallHolds' /\ RefusedHolds' /\ BankHolds' /\ StripesHold'
    BY <1>1, <2>1 DEF CallHolds, RefusedHolds, BankHolds, StripesHold
  <2>5. AskedHolds'
    BY <1>1, <2>1, <2>2 DEF AskedHolds, CallHolds
  <2> QED BY <2>3, <2>4, <2>5
<1> QED BY <1>2, <1>3 DEF ReadSurvivor

\* All survivors read: their power sums are no byte of the call, and the recovery rows come next.
LEMMA SumSurvivorsInv ==
  ASSUME TransformInv, SumSurvivors
  PROVE  TransformInv'
<1> USE DEF TransformInv, SumSurvivors, planVars, keptVars, callVars, stripeVars, resultVars
<1>1. /\ closed' = closed /\ workers' = workers /\ children' = children /\ space' = space /\ spaces' = spaces
      /\ bankLen' = bankLen /\ bank' = bank /\ size' = size /\ turn' = turn /\ cursor' = NumInputs - NumRows
      /\ asked' = asked /\ nextOffset' = nextOffset /\ at' = at /\ off' = off /\ errs' = errs
      /\ refused' = refused /\ outcome' = outcome /\ main = "survivors" /\ main' = "recovery"
  OBVIOUS
<1>2. /\ turn \in 0..MaxCalls /\ MaxCalls \in Nat /\ Moments = MaxCalls + 1
      /\ cursor' \in 0..NumInputs /\ NumInputs \in Nat /\ NumRows \in Nat /\ NumRows <= NumInputs
  BY <1>1, Sizes DEF TypeOK, Moments
<1>3. ASSUME NEW r \in Rows, NEW o \in Bytes
      PROVE  /\ out'[r][o] \in 0..Moments
             /\ out'[r][o] <= turn \/ out'[r][o] = Moments
             /\ out'[r][o] # turn
  <2>1. out[r][o] \in 0..Moments /\ (out[r][o] <= turn \/ out[r][o] = Moments) /\ out[r][o] # turn
    BY <1>1 DEF TypeOK, CallHolds
  <2>2. out'[r][o] = IF o < size THEN Moments ELSE out[r][o]
    OBVIOUS
  <2> QED BY <1>2, <2>1, <2>2
<1>4. out' \in [Rows -> [Bytes -> 0..Moments]]
  <2>1. \A r \in Rows : out'[r] \in [Bytes -> 0..Moments]
    BY <1>3
  <2> QED BY <2>1
<1>5. TypeOK'
  BY <1>1, <1>2, <1>4 DEF TypeOK
<1>6. CallHolds'
  BY <1>1, <1>3 DEF CallHolds
<1>7. RefusedHolds' /\ BankHolds' /\ StripesHold'
  BY <1>1 DEF RefusedHolds, BankHolds, StripesHold
<1>8. AskedHolds'
  <2>1. \A i \in Inputs : asked[i] = 1 <=> i \in Survivors
    <3>1. \A i \in Inputs : asked[i] \in Nat /\ asked[i] <= 1 /\ (i \in Survivors => asked[i] # 0)
      BY DEF TypeOK, AskedHolds
    <3>2. \A i \in Inputs : i \notin Survivors => asked[i] = 0
      BY <1>1 DEF AskedHolds
    <3> QED BY <3>1, <3>2
  <2>2. \A i \in Inputs : i \in Survivors <=> i < cursor'
    BY <1>1, <1>2, Sizes DEF Survivors
  <2> QED BY <1>1, <1>2, <2>1, <2>2 DEF AskedHolds, CallHolds
<1> QED BY <1>5, <1>6, <1>7, <1>8

\* The recovery rows come in order.
LEMMA ReadRecoveryInv ==
  ASSUME TransformInv, ReadRecovery
  PROVE  TransformInv'
<1> USE DEF TransformInv
<1>1. main = "recovery" /\ cursor \in Inputs /\ asked[cursor] = 0 /\ UNCHANGED keptVars
  <2>1. main = "recovery" /\ cursor \in Nat /\ cursor < NumInputs /\ NumInputs \in Nat /\ UNCHANGED keptVars
    BY Sizes DEF ReadRecovery, TypeOK
  <2>2. cursor \in Inputs
    BY <2>1, Sizes
  <2>3. asked[cursor] \in Nat /\ asked[cursor] <= 1 /\ asked[cursor] # 1
    BY <2>1, <2>2 DEF TypeOK, AskedHolds
  <2> QED BY <2>1, <2>2, <2>3
<1>2. CASE Refuse(cursor)
  BY <1>1, <1>2, RefuseInv DEF keptVars, TypeOK
<1>3. CASE /\ asked' = [asked EXCEPT ![cursor] = @ + 1] /\ cursor' = cursor + 1
           /\ UNCHANGED <<planVars, main, callVars, stripeVars, out, resultVars>>
  <2>1. /\ closed' = closed /\ workers' = workers /\ children' = children /\ space' = space /\ spaces' = spaces
        /\ bankLen' = bankLen /\ bank' = bank /\ main' = main /\ size' = size /\ turn' = turn
        /\ nextOffset' = nextOffset /\ at' = at /\ off' = off /\ errs' = errs /\ out' = out
        /\ refused' = refused /\ outcome' = outcome /\ cursor' = cursor + 1
    BY <1>1, <1>3 DEF planVars, keptVars, callVars, stripeVars, resultVars
  <2>2. /\ asked' \in [Inputs -> Nat] /\ asked'[cursor] = 1
        /\ \A k \in Inputs : k # cursor => asked'[k] = asked[k]
    BY <1>1, <1>3 DEF TypeOK
  <2>3. cursor \in Nat /\ NumInputs \in Nat /\ NumRows \in Nat /\ cursor < NumInputs /\ NumInputs - NumRows <= cursor
    BY <1>1, Sizes DEF TypeOK, AskedHolds
  <2>4. TypeOK'
    <3>1. cursor' \in 0..NumInputs
      BY <2>1, <2>3
    <3> QED BY <2>1, <2>2, <3>1 DEF TypeOK
  <2>5. CallHolds' /\ RefusedHolds' /\ BankHolds' /\ StripesHold'
    BY <1>1, <2>1 DEF CallHolds, RefusedHolds, BankHolds, StripesHold
  <2>6. AskedHolds'
    <3>1. \A k \in Inputs : k < cursor + 1 <=> k < cursor \/ k = cursor
      BY <2>3, Sizes
    <3>2. \A k \in Inputs : asked'[k] <= 1 /\ (asked'[k] = 1 <=> k < cursor')
      BY <1>1, <2>1, <2>2, <3>1 DEF AskedHolds
    <3>3. NumInputs - NumRows <= cursor'
      BY <2>1, <2>3
    <3> QED BY <1>1, <2>1, <3>2, <3>3 DEF AskedHolds, CallHolds
  <2> QED BY <2>4, <2>5, <2>6
<1> QED BY <1>2, <1>3 DEF ReadRecovery

\* The rows are finished, and the call returns.
LEMMA DirectInv ==
  ASSUME TransformInv, FinishDirect \/ ReturnDirect
  PROVE  TransformInv'
<1> USE DEF TransformInv, planVars, keptVars, callVars, readVars, stripeVars, resultVars
<1>1. /\ closed' = closed /\ workers' = workers /\ children' = children /\ space' = space /\ spaces' = spaces
      /\ bankLen' = bankLen /\ bank' = bank /\ size' = size /\ turn' = turn /\ cursor' = cursor /\ asked' = asked
      /\ nextOffset' = nextOffset /\ at' = at /\ off' = off /\ errs' = errs /\ refused' = refused
  BY DEF FinishDirect, ReturnDirect
<1>2. CASE FinishDirect
  <2>1. main = "recovery" /\ main' = "direct" /\ cursor = NumInputs /\ outcome' = outcome
    BY <1>2 DEF FinishDirect
  <2>2. turn \in 0..MaxCalls /\ MaxCalls \in Nat /\ Moments = MaxCalls + 1
    BY Sizes DEF TypeOK, Moments
  <2>3. ASSUME NEW r \in Rows, NEW o \in Bytes
        PROVE  /\ out'[r][o] \in 0..Moments
               /\ out'[r][o] <= turn \/ out'[r][o] = Moments
               /\ o < size => out'[r][o] = turn
    <3>1. out[r][o] \in 0..Moments /\ (out[r][o] <= turn \/ out[r][o] = Moments)
      BY DEF TypeOK, CallHolds
    <3>2. out'[r][o] = IF o < size THEN turn ELSE out[r][o]
      BY <1>2 DEF FinishDirect
    <3> QED BY <2>2, <3>1, <3>2
  <2>4. out' \in [Rows -> [Bytes -> 0..Moments]]
    <3>1. \A r \in Rows : out'[r] \in [Bytes -> 0..Moments]
      BY <2>3, <1>2 DEF FinishDirect
    <3> QED BY <3>1, <1>2 DEF FinishDirect
  <2>5. TypeOK'
    BY <1>1, <2>1, <2>4 DEF TypeOK
  <2>6. CallHolds'
    BY <1>1, <2>1, <2>3 DEF CallHolds
  <2>7. RefusedHolds' /\ BankHolds' /\ StripesHold'
    BY <1>1, <2>1 DEF RefusedHolds, BankHolds, StripesHold
  <2>8. AskedHolds'
    BY <1>1, <2>1, Sizes DEF AskedHolds
  <2> QED BY <2>5, <2>6, <2>7, <2>8
<1>3. CASE ReturnDirect
  <2>1. main = "direct" /\ main' = "idle" /\ outcome' = "ok" /\ out' = out
    BY <1>3 DEF ReturnDirect, Return
  <2>2. TypeOK'
    BY <1>1, <2>1 DEF TypeOK
  <2>3. CallHolds'
    BY <1>1, <2>1 DEF CallHolds
  <2>4. RefusedHolds' /\ AskedHolds' /\ BankHolds' /\ StripesHold'
    BY <1>1, <2>1 DEF RefusedHolds, AskedHolds, BankHolds, StripesHold
  <2> QED BY <2>2, <2>3, <2>4
<1> QED BY <1>2, <1>3

-----------------------------------------------------------------------------
\* TransformInv is inductive: every action keeps it.
LEMMA StepInv == TransformInv /\ [Next]_vars => TransformInv'
<1> SUFFICES ASSUME TransformInv, [Next]_vars PROVE TransformInv'
  OBVIOUS
<1>1. CASE Caller
  <2>1. CASE Close \/ \E n \in Workers : ChunkSize(n)
    BY <2>1, BetweenInv
  <2>2. CASE \E n \in 1..MaxLength : CallParallel(n) \/ CallDirect(n)
    BY <2>2, CallInv
  <2> QED BY <1>1, <2>1, <2>2 DEF Caller
<1>2. CASE Step
  <2>1. CASE Allocate \/ ReturnFailed
    BY <2>1, FailInv
  <2>2. CASE ReadInput
    BY <2>2, ReadInputInv
  <2>3. CASE Spawn
    BY <2>3, SpawnInv
  <2>4. CASE Join
    BY <2>4, JoinInv
  <2>5. CASE \E i \in Inputs : ReadSurvivor(i)
    BY <2>5, ReadSurvivorInv
  <2>6. CASE SumSurvivors
    BY <2>6, SumSurvivorsInv
  <2>7. CASE ReadRecovery
    BY <2>7, ReadRecoveryInv
  <2>8. CASE FinishDirect \/ ReturnDirect
    BY <2>8, DirectInv
  <2> QED BY <1>2, <2>1, <2>2, <2>3, <2>4, <2>5, <2>6, <2>7, <2>8 DEF Step
<1>3. CASE \E w \in Workers : Worker(w)
  <2> SUFFICES ASSUME NEW w \in Workers, Worker(w) PROVE TransformInv'
    BY <1>3
  <2> QED BY ClaimInv, SumStripeInv, StripeExhaustedInv, FinishStripeInv DEF Worker
<1>4. CASE UNCHANGED vars
  <2>1. /\ UNCHANGED <<closed, workers, children, space, spaces, bankLen, bank, main, size, turn>>
        /\ UNCHANGED <<cursor, asked, nextOffset, at, off, errs, out, refused, outcome>>
    BY <1>4 DEF vars, planVars, keptVars, callVars, readVars, stripeVars, resultVars
  <2>2. TypeOK' /\ CallHolds'
    BY <2>1 DEF TransformInv, TypeOK, CallHolds
  <2>3. RefusedHolds' /\ AskedHolds' /\ BankHolds' /\ StripesHold'
    BY <2>1 DEF TransformInv, RefusedHolds, AskedHolds, BankHolds, StripesHold, Active, InStripe, Extent
  <2> QED BY <2>2, <2>3 DEF TransformInv
<1> QED BY <1>1, <1>2, <1>3, <1>4 DEF Next

\* Whatever calls of whatever lengths were made of a plan: a call's rows hold nothing of it
\* before it starts, its bank holds what it has read, and its stripes are apart
\* (par2_transform.go:111-197).
THEOREM TransformInvariance == Spec => []TransformInv
BY InitInv, StepInv, PTL DEF Spec

\* Type correctness.
THEOREM TransformTypeCorrect == Spec => []TypeOK
<1>1. TransformInv => TypeOK
  BY DEF TransformInv
<1> QED BY <1>1, TransformInvariance, PTL

\* However many workers claim stripes, no byte of a row is ever in the hands of two of them,
\* and no input is read twice in a call (par2_transform.go:163-181, par2_plan.go:133-134).
THEOREM FoldsEachOnce == Spec => []EachOnce
<1>1. TransformInv => EachOnce
  <2> SUFFICES ASSUME TransformInv PROVE EachOnce
    OBVIOUS
  <2>1. \A w \in Workers : Active(w) => main = "wait" /\ off[w] < size /\ off[w] \in Nat
    BY DEF TransformInv, TypeOK, CallHolds, StripesHold, Active
  <2>2. ASSUME NEW v \in Workers, NEW w \in Workers, v # w, Active(v), Active(w),
               NEW o \in Bytes, InStripe(v, o), InStripe(w, o)
        PROVE  FALSE
    <3>1. /\ o \in Nat /\ Stripe \in Nat /\ off[v] \in Nat /\ off[w] \in Nat
          /\ off[v] <= o /\ o < off[v] + Stripe /\ off[w] <= o /\ o < off[w] + Stripe
      BY <2>1, <2>2, StripeIsCut, Sizes DEF TransformInv
    <3>2. off[v] + Stripe <= off[w] \/ off[w] + Stripe <= off[v]
      BY <2>1, <2>2 DEF TransformInv, StripesHold
    <3> QED BY <3>1, <3>2
  <2>3. ASSUME NEW w \in Workers, Active(w), NEW r \in Rows, NEW o \in Bytes, InStripe(w, o)
        PROVE  out[r][o] # turn
    BY <2>1, <2>3 DEF TransformInv, StripesHold
  <2>4. StripesApart
    BY <2>2, <2>3 DEF StripesApart
  <2>5. ReadOnce
    BY DEF ReadOnce, TransformInv, AskedHolds
  <2> QED BY <2>4, <2>5 DEF EachOnce
<1> QED BY <1>1, TransformInvariance, PTL

-----------------------------------------------------------------------------
\* While a byte of some row is not the call's, no row is whole.
LEMMA NothingWhole ==
  ASSUME TypeOK, turn > 0, NEW o \in Bytes, o < size, \A r \in Rows : out[r][o] # turn
  PROVE  Whole = {}
BY DEF Whole, TypeOK

\* A call that has not got to its rows, or a worker's stripe, leaves such a byte.
LEMMA UnfinishedIsEmpty ==
  /\ TransformInv
  /\ main \in {"read", "allocate", "survivors", "recovery", "fail"} \/ \E w \in Workers : Active(w)
  => Whole = {}
<1> SUFFICES ASSUME TransformInv,
                    \/ main \in {"read", "allocate", "survivors", "recovery", "fail"}
                    \/ \E w \in Workers : Active(w)
             PROVE  Whole = {}
  OBVIOUS
<1> USE DEF TransformInv
<1>1. CASE main \in {"read", "allocate", "survivors", "recovery", "fail"}
  <2>1. size > 0 /\ size \in 0..MaxLength /\ MaxLength \in Nat /\ turn > 0
    BY <1>1, Sizes DEF TypeOK, CallHolds
  <2>2. 0 \in Bytes /\ 0 < size
    BY <2>1 DEF Bytes
  <2>3. \A r \in Rows : out[r][0] # turn
    BY <1>1, <2>2 DEF CallHolds
  <2> QED BY <2>1, <2>2, <2>3, NothingWhole
<1>2. CASE \E w \in Workers : Active(w)
  <2>1. PICK w \in Workers : Active(w)
    BY <1>2
  <2>2. main = "wait" /\ turn > 0
    BY <2>1 DEF CallHolds, Active
  <2>3. off[w] < size /\ off[w] \in Nat /\ size \in 0..MaxLength /\ MaxLength \in Nat /\ Stripe \in Nat \ {0}
    BY <2>1, <2>2, Sizes DEF TypeOK, StripesHold
  <2>4. off[w] \in Bytes
    BY <2>3 DEF Bytes
  <2>5. InStripe(w, off[w])
    BY <2>3 DEF InStripe, Extent, Lesser
  <2>6. \A r \in Rows : out[r][off[w]] # turn
    BY <2>1, <2>2, <2>4, <2>5 DEF StripesHold
  <2> QED BY <2>2, <2>3, <2>4, <2>6, NothingWhole
<1> QED BY <1>1, <1>2

\* Every way a step of a running call may go is one the promise has.
LEMMA RunningStep ==
  ASSUME outcome = "running", outcome' = "running", Whole \subseteq Whole', Whole' \subseteq Rows,
         refused' = refused \/ (Whole' = Whole /\ refused' = TRUE)
  PROVE  [Promise!PlanNext]_(Promise!sumVars)
<1>1. CASE refused' = refused
  <2>1. Whole' \in SUBSET Rows
    OBVIOUS
  <2> QED BY <1>1, <2>1 DEF Promise!PlanNext, Promise!SumNext, Promise!Complete
<1>2. CASE Whole' = Whole /\ refused' = TRUE
  BY <1>2 DEF Promise!PlanNext, Promise!SumNext, Promise!Refuse
<1> QED BY <1>1, <1>2

\* A call that returns says what the promise says: it is whole, or it was refused.
LEMMA ReturnStep ==
  ASSUME outcome = "running", Whole' = Whole, refused' = refused,
         \/ outcome' = "ok" /\ ~refused /\ Whole = Rows
         \/ outcome' = "error" /\ refused
  PROVE  [Promise!PlanNext]_(Promise!sumVars)
BY DEF Promise!PlanNext, Promise!SumNext, Promise!Succeed, Promise!Fail

\* Rows and range that stay are whole as before.
LEMMA SameWhole ==
  ASSUME out' = out, size' = size, turn' = turn
  PROVE  Whole' = Whole
BY DEF Whole

LEMMA WholeRows == Whole \subseteq Rows /\ Whole' \subseteq Rows
BY DEF Whole

\* The calls of a plan implement PlanFolds.
LEMMA PromiseStep ==
  ASSUME TransformInv, TransformInv', [Next]_vars
  PROVE  [Promise!PlanNext]_(Promise!sumVars)
<1> USE DEF planVars, keptVars, callVars, readVars, stripeVars, resultVars
<1>1. CASE Close \/ \E n \in Workers : ChunkSize(n)
  <2>1. out' = out /\ size' = size /\ turn' = turn /\ refused' = refused /\ outcome' = outcome
    BY <1>1 DEF Close, ChunkSize
  <2> QED BY <2>1, SameWhole DEF Promise!sumVars
<1>2. CASE \E n \in 1..MaxLength : CallParallel(n) \/ CallDirect(n)
  <2>1. /\ main = "idle" /\ main' \in {"read", "survivors", "allocate"}
        /\ refused' = FALSE /\ outcome' = "running"
    BY <1>2 DEF CallParallel, CallDirect, Begin
  <2>2. outcome # "running"
    BY <2>1 DEF TransformInv, CallHolds
  <2>3. Whole' = {}
    <3>1. (/\ TransformInv
           /\ main \in {"read", "allocate", "survivors", "recovery", "fail"} \/ \E w \in Workers : Active(w)
           => Whole = {})'
      BY UnfinishedIsEmpty, PTL
    <3> QED BY <2>1, <3>1
  <2> QED BY <2>1, <2>2, <2>3 DEF Promise!PlanNext, Promise!Begin
<1>3. CASE Step
  <2>1. CASE Allocate \/ ReadInput \/ Spawn \/ ReadRecovery \/ \E i \in Inputs : ReadSurvivor(i)
    <3>1. main # "idle" /\ out' = out /\ size' = size /\ turn' = turn /\ outcome' = outcome
      BY <2>1 DEF Allocate, ReadInput, Spawn, ReadRecovery, ReadSurvivor, Refuse
    <3>2. refused' = refused \/ refused' = TRUE
      BY <2>1 DEF Allocate, ReadInput, Spawn, ReadRecovery, ReadSurvivor, Refuse
    <3>3. outcome = "running" /\ outcome' = "running"
      BY <3>1 DEF TransformInv, CallHolds
    <3>4. Whole' = Whole
      BY <3>1, SameWhole
    <3>5. /\ Whole \subseteq Whole' /\ Whole' \subseteq Rows
          /\ refused' = refused \/ (Whole' = Whole /\ refused' = TRUE)
      BY <3>2, <3>4, WholeRows
    <3> QED BY <3>3, <3>5, RunningStep
  <2>2. CASE SumSurvivors \/ FinishDirect
    <3>1. main \in {"survivors", "recovery"} /\ outcome' = outcome /\ refused' = refused
      BY <2>2 DEF SumSurvivors, FinishDirect
    <3>2. outcome = "running" /\ outcome' = "running" /\ Whole = {}
      BY <3>1, UnfinishedIsEmpty DEF TransformInv, CallHolds
    <3>3. /\ Whole \subseteq Whole' /\ Whole' \subseteq Rows
          /\ refused' = refused \/ (Whole' = Whole /\ refused' = TRUE)
      BY <3>1, <3>2, WholeRows
    <3> QED BY <3>2, <3>3, RunningStep
  <2>3. CASE ReturnFailed
    <3>1. main = "fail" /\ out' = out /\ size' = size /\ turn' = turn /\ refused' = refused /\ outcome' = "error"
      BY <2>3 DEF ReturnFailed, Return
    <3>2. outcome = "running" /\ refused
      BY <3>1 DEF TransformInv, CallHolds, RefusedHolds
    <3>3. Whole' = Whole /\ refused' = refused
      BY <3>1, SameWhole
    <3> QED BY <3>1, <3>2, <3>3, ReturnStep
  <2>4. CASE ReturnDirect
    <3>1. main = "direct" /\ out' = out /\ size' = size /\ turn' = turn /\ refused' = refused /\ outcome' = "ok"
      BY <2>4 DEF ReturnDirect, Return
    <3>2. outcome = "running" /\ ~refused /\ turn > 0 /\ turn \in Nat
      BY <3>1, Sizes DEF TransformInv, TypeOK, CallHolds, RefusedHolds
    <3>3. Whole = Rows
      BY <3>1, <3>2 DEF Whole, TransformInv, CallHolds
    <3>4. Whole' = Whole /\ refused' = refused
      BY <3>1, SameWhole
    <3> QED BY <3>1, <3>2, <3>3, <3>4, ReturnStep
  <2>5. CASE Join
    <3>1. /\ main = "wait" /\ out' = out /\ size' = size /\ turn' = turn /\ refused' = refused
          /\ outcome' = (IF errs = {} THEN "ok" ELSE "error") /\ \A w \in Workers : at[w] = "exited"
      BY <2>5 DEF Join, Return
    <3>2. outcome = "running" /\ (refused <=> errs # {}) /\ turn > 0 /\ turn \in Nat
      BY <3>1, Sizes DEF TransformInv, TypeOK, CallHolds, RefusedHolds
    <3>3. ASSUME errs = {} PROVE Whole = Rows
      <4>1. 1 \in Workers /\ 1 <= children
        BY <3>1, Sizes DEF TransformInv, TypeOK, BankHolds
      <4>2. nextOffset >= size /\ nextOffset \in Nat /\ size \in Nat
        BY <3>1, <3>3, <4>1, Sizes DEF TransformInv, TypeOK, StripesHold
      <4>3. ASSUME NEW r \in Rows, NEW o \in Bytes, o < size PROVE out[r][o] = turn
        <5>1. o \in Nat /\ o < nextOffset
          BY <4>2, <4>3, Sizes
        <5>2. \A w \in Workers : ~Active(w)
          BY <3>1 DEF Active
        <5> QED BY <3>1, <3>3, <4>3, <5>1, <5>2 DEF TransformInv, StripesHold
      <4> QED BY <3>2, <4>3 DEF Whole
    <3>4. Whole' = Whole /\ refused' = refused
      BY <3>1, SameWhole
    <3>5. CASE errs = {}
      <4>1. outcome' = "ok" /\ ~refused /\ Whole = Rows
        BY <3>1, <3>2, <3>3, <3>5
      <4> QED BY <3>2, <3>4, <4>1, ReturnStep
    <3>6. CASE errs # {}
      <4>1. outcome' = "error" /\ refused
        BY <3>1, <3>2, <3>6
      <4> QED BY <3>2, <3>4, <4>1, ReturnStep
    <3> QED BY <3>5, <3>6
  <2> QED BY <1>3, <2>1, <2>2, <2>3, <2>4, <2>5 DEF Step
<1>4. CASE \E w \in Workers : Worker(w)
  <2> SUFFICES ASSUME NEW w \in Workers, Worker(w) PROVE [Promise!PlanNext]_(Promise!sumVars)
    BY <1>4
  <2>1. outcome = "running" /\ outcome' = "running"
    <3>1. at[w] # "exited" /\ outcome' = outcome
      BY DEF Worker, Claim, SumStripe, StripeExhausted, FinishStripe
    <3>2. main = "wait"
      BY <3>1 DEF TransformInv, CallHolds
    <3> QED BY <3>1, <3>2 DEF TransformInv, CallHolds
  <2>2. CASE Claim(w) \/ StripeExhausted(w)
    <3>1. /\ out' = out /\ size' = size /\ turn' = turn
          /\ refused' = refused \/ refused' = TRUE
      BY <2>2 DEF Claim, StripeExhausted
    <3>2. Whole' = Whole
      BY <3>1, SameWhole
    <3>3. /\ Whole \subseteq Whole' /\ Whole' \subseteq Rows
          /\ refused' = refused \/ (Whole' = Whole /\ refused' = TRUE)
      BY <3>1, <3>2, WholeRows
    <3> QED BY <2>1, <3>3, RunningStep
  <2>3. CASE SumStripe(w) \/ FinishStripe(w)
    <3>1. Active(w) /\ refused' = refused
      BY <2>3 DEF SumStripe, FinishStripe, Active
    <3>2. Whole = {}
      BY <3>1, UnfinishedIsEmpty
    <3>3. /\ Whole \subseteq Whole' /\ Whole' \subseteq Rows
          /\ refused' = refused \/ (Whole' = Whole /\ refused' = TRUE)
      BY <3>1, <3>2, WholeRows
    <3> QED BY <2>1, <3>3, RunningStep
  <2> QED BY <2>2, <2>3 DEF Worker
<1>5. CASE UNCHANGED vars
  <2>1. out' = out /\ size' = size /\ turn' = turn /\ refused' = refused /\ outcome' = outcome
    BY <1>5 DEF vars
  <2> QED BY <2>1, SameWhole DEF Promise!sumVars
<1> QED BY <1>1, <1>2, <1>3, <1>4, <1>5 DEF Next, Caller

\* Every call of a transform plan, alone or over stripes, fills every row or returns an error
\* that some input or workspace gave, whatever the calls before it left
\* (par2_transform.go:111-197, par2_plan.go:132-157).
THEOREM PlanImplementsFolds == Spec => PlanKeepsPromise
<1>1. Init => Promise!PlanInit
  BY DEF Init, Promise!PlanInit, Whole
<1>2. TransformInv /\ TransformInv' /\ [Next]_vars => [Promise!PlanNext]_(Promise!sumVars)
  BY PromiseStep
<1> QED BY <1>1, <1>2, TransformInvariance, PTL DEF Spec, PlanKeepsPromise, Promise!PlanSpec

-----------------------------------------------------------------------------
\* The rows of a buffer set hold something each; a batch is one Apply accepts, and
\* the tasks of a pass are batches of at least one operation.
Vector(v) == v = [r \in RowIds |-> v[r]]
Batch(ops) ==
  /\ Len(ops) \in Nat /\ DOMAIN ops = 1..Len(ops)
  /\ \A k \in DOMAIN ops : Accepted(ops[k])
Batches(tasks) ==
  /\ Len(tasks) \in Nat /\ DOMAIN tasks = 1..Len(tasks)
  /\ \A t \in DOMAIN tasks : Batch(tasks[t]) /\ Len(tasks[t]) # 0

-----------------------------------------------------------------------------
\* An operation leaves rows, and those it does not write as they were.
LEMMA AppliedKeeps ==
  ASSUME NEW op, Accepted(op), NEW v, Vector(v)
  PROVE  /\ Vector(Applied(v, op))
         /\ \A r \in RowIds \ OpWrites(op) : Applied(v, op)[r] = v[r]
<1>1. CASE op.kind = "add"
  BY <1>1 DEF Vector, Accepted, OpWrites, Applied
<1>2. CASE op.kind = "scale"
  BY <1>2 DEF Vector, Accepted, OpWrites, Applied
<1>3. CASE op.kind = "clear"
  BY <1>3 DEF Vector, Accepted, OpWrites, Applied
<1>4. CASE op.kind = "butterfly"
  <2>1. op.dst \in RowIds /\ op.src \in RowIds /\ OpWrites(op) = {op.dst, op.src}
    BY <1>4 DEF Accepted, OpWrites, ButterflyKinds
  <2>2. \E a, b : Applied(v, op) = [v EXCEPT ![op.dst] = a, ![op.src] = b]
    BY <1>4 DEF Applied
  <2> QED BY <2>1, <2>2 DEF Vector
<1>5. CASE op.kind = "inverse"
  <2>1. op.dst \in RowIds /\ op.src \in RowIds /\ OpWrites(op) = {op.dst, op.src}
    BY <1>5 DEF Accepted, OpWrites, ButterflyKinds
  <2>2. \E a, b : Applied(v, op) = [v EXCEPT ![op.src] = a, ![op.dst] = b]
    BY <1>5 DEF Applied
  <2> QED BY <2>1, <2>2 DEF Vector
<1> QED BY <1>1, <1>2, <1>3, <1>4, <1>5 DEF Accepted, OpKinds, ButterflyKinds

\* What it leaves in a row depends on that row and on those it touches.
LEMMA AppliedLocal ==
  ASSUME NEW op, Accepted(op), NEW v, Vector(v), NEW w, Vector(w), NEW r \in RowIds,
         v[r] = w[r], \A x \in OpTouches(op) : v[x] = w[x]
  PROVE  Applied(v, op)[r] = Applied(w, op)[r]
<1>1. CASE op.kind = "add"
  BY <1>1 DEF Vector, Accepted, OpTouches, Applied
<1>2. CASE op.kind = "scale"
  BY <1>2 DEF Vector, Accepted, OpTouches, Applied
<1>3. CASE op.kind = "clear"
  BY <1>3 DEF Vector, Accepted, OpTouches, Applied
<1>4. CASE op.kind = "butterfly"
  <2>1. op.dst \in RowIds /\ op.src \in RowIds /\ op.dst # op.src /\ v[op.dst] = w[op.dst] /\ v[op.src] = w[op.src]
    BY <1>4 DEF Accepted, OpTouches, ButterflyKinds
  <2> QED BY <1>4, <2>1 DEF Vector, Applied
<1>5. CASE op.kind = "inverse"
  <2>1. op.dst \in RowIds /\ op.src \in RowIds /\ op.dst # op.src /\ v[op.dst] = w[op.dst] /\ v[op.src] = w[op.src]
    BY <1>5 DEF Accepted, OpTouches, ButterflyKinds
  <2> QED BY <1>5, <2>1 DEF Vector, Applied
<1> QED BY <1>1, <1>2, <1>3, <1>4, <1>5 DEF Accepted, OpKinds, ButterflyKinds

\* The rows after an operation of a task come from those before it; of a pass and of a
\* program likewise.
LEMMA TaskFollows ==
  ASSUME NEW v, NEW ops, Len(ops) \in Nat
  PROVE  /\ TaskSteps(v, ops)[0] = v
         /\ \A k \in 1..Len(ops) : TaskSteps(v, ops)[k] = Applied(TaskSteps(v, ops)[k - 1], ops[k])
<1> DEFINE Follows(n, f) == f = [k \in 0..n |-> IF k = 0 THEN v ELSE Applied(f[k - 1], ops[k])]
           S == {n \in Nat : \E f : Follows(n, f)}
<1>1. 0 \in S
  <2>1. Follows(0, [k \in 0..0 |-> v])
    OBVIOUS
  <2> QED BY <2>1
<1>2. ASSUME NEW n \in Nat, n \in S PROVE n + 1 \in S
  <2>1. PICK f : Follows(n, f)
    BY <1>2
  <2> DEFINE g == [k \in 0..(n + 1) |-> IF k = n + 1 THEN Applied(f[n], ops[n + 1]) ELSE f[k]]
  <2>2. ASSUME NEW k \in 0..(n + 1)
        PROVE  g[k] = IF k = 0 THEN v ELSE Applied(g[k - 1], ops[k])
    <3>1. CASE k = n + 1
      <4>1. g[n] = f[n] /\ k # 0 /\ k - 1 = n /\ g[k] = Applied(f[n], ops[n + 1])
        BY <3>1
      <4> HIDE DEF g
      <4> QED BY <3>1, <4>1
    <3>2. CASE k # n + 1
      <4>1. k \in 0..n /\ g[k] = f[k]
        BY <3>2
      <4>2. f[k] = IF k = 0 THEN v ELSE Applied(f[k - 1], ops[k])
        BY <2>1, <4>1
      <4>3. k # 0 => g[k - 1] = f[k - 1]
        BY <4>1
      <4> HIDE DEF g
      <4> QED BY <4>1, <4>2, <4>3
    <3> QED BY <3>1, <3>2
  <2>3. g = [k \in 0..(n + 1) |-> g[k]]
    OBVIOUS
  <2> HIDE DEF g
  <2>4. Follows(n + 1, g)
    BY <2>2, <2>3
  <2>5. \E f1 : Follows(n + 1, f1)
    BY <2>4
  <2> HIDE DEF Follows
  <2> QED BY <2>5
<1> HIDE DEF S
<1>3. Len(ops) \in S
  BY <1>1, <1>2, Induction
<1>4. PICK f : Follows(Len(ops), f)
  BY <1>3 DEF S
<1>5. TaskSteps(v, ops) = [k \in 0..Len(ops) |-> IF k = 0 THEN v ELSE Applied(TaskSteps(v, ops)[k - 1], ops[k])]
  BY <1>4 DEF TaskSteps
<1> DEFINE h == TaskSteps(v, ops)
<1>6. h = [k \in 0..Len(ops) |-> IF k = 0 THEN v ELSE Applied(h[k - 1], ops[k])]
  BY <1>5
<1> HIDE DEF h
<1>7. h[0] = v /\ \A k \in 1..Len(ops) : h[k] = Applied(h[k - 1], ops[k])
  BY <1>6
<1> QED BY <1>7 DEF h

\* The rows after a task of a pass.
LEMMA PassFollows ==
  ASSUME NEW v, NEW tasks, Len(tasks) \in Nat
  PROVE  /\ PassSteps(v, tasks)[0] = v
         /\ \A k \in 1..Len(tasks) : PassSteps(v, tasks)[k] = AfterTask(PassSteps(v, tasks)[k - 1], tasks[k])
<1> DEFINE Follows(n, f) == f = [k \in 0..n |-> IF k = 0 THEN v ELSE AfterTask(f[k - 1], tasks[k])]
           S == {n \in Nat : \E f : Follows(n, f)}
<1>1. 0 \in S
  <2>1. Follows(0, [k \in 0..0 |-> v])
    OBVIOUS
  <2> QED BY <2>1
<1>2. ASSUME NEW n \in Nat, n \in S PROVE n + 1 \in S
  <2>1. PICK f : Follows(n, f)
    BY <1>2
  <2> DEFINE g == [k \in 0..(n + 1) |-> IF k = n + 1 THEN AfterTask(f[n], tasks[n + 1]) ELSE f[k]]
  <2>2. ASSUME NEW k \in 0..(n + 1)
        PROVE  g[k] = IF k = 0 THEN v ELSE AfterTask(g[k - 1], tasks[k])
    <3>1. CASE k = n + 1
      <4>1. g[n] = f[n] /\ k # 0 /\ k - 1 = n /\ g[k] = AfterTask(f[n], tasks[n + 1])
        BY <3>1
      <4> HIDE DEF g
      <4> QED BY <3>1, <4>1
    <3>2. CASE k # n + 1
      <4>1. k \in 0..n /\ g[k] = f[k]
        BY <3>2
      <4>2. f[k] = IF k = 0 THEN v ELSE AfterTask(f[k - 1], tasks[k])
        BY <2>1, <4>1
      <4>3. k # 0 => g[k - 1] = f[k - 1]
        BY <4>1
      <4> HIDE DEF g
      <4> QED BY <4>1, <4>2, <4>3
    <3> QED BY <3>1, <3>2
  <2>3. g = [k \in 0..(n + 1) |-> g[k]]
    OBVIOUS
  <2> HIDE DEF g
  <2>4. Follows(n + 1, g)
    BY <2>2, <2>3
  <2>5. \E f1 : Follows(n + 1, f1)
    BY <2>4
  <2> HIDE DEF Follows
  <2> QED BY <2>5
<1> HIDE DEF S
<1>3. Len(tasks) \in S
  BY <1>1, <1>2, Induction
<1>4. PICK f : Follows(Len(tasks), f)
  BY <1>3 DEF S
<1>5. PassSteps(v, tasks) = [k \in 0..Len(tasks) |-> IF k = 0 THEN v ELSE AfterTask(PassSteps(v, tasks)[k - 1], tasks[k])]
  BY <1>4 DEF PassSteps
<1> DEFINE h == PassSteps(v, tasks)
<1>6. h = [k \in 0..Len(tasks) |-> IF k = 0 THEN v ELSE AfterTask(h[k - 1], tasks[k])]
  BY <1>5
<1> HIDE DEF h
<1>7. h[0] = v /\ \A k \in 1..Len(tasks) : h[k] = AfterTask(h[k - 1], tasks[k])
  BY <1>6
<1> QED BY <1>7 DEF h

\* The rows after a pass of a program.
LEMMA ProgramFollows ==
  ASSUME NEW v, NEW passes, Len(passes) \in Nat
  PROVE  /\ ProgramSteps(v, passes)[0] = v
         /\ \A k \in 1..Len(passes) : ProgramSteps(v, passes)[k] = AfterPass(ProgramSteps(v, passes)[k - 1], passes[k])
<1> DEFINE Follows(n, f) == f = [k \in 0..n |-> IF k = 0 THEN v ELSE AfterPass(f[k - 1], passes[k])]
           S == {n \in Nat : \E f : Follows(n, f)}
<1>1. 0 \in S
  <2>1. Follows(0, [k \in 0..0 |-> v])
    OBVIOUS
  <2> QED BY <2>1
<1>2. ASSUME NEW n \in Nat, n \in S PROVE n + 1 \in S
  <2>1. PICK f : Follows(n, f)
    BY <1>2
  <2> DEFINE g == [k \in 0..(n + 1) |-> IF k = n + 1 THEN AfterPass(f[n], passes[n + 1]) ELSE f[k]]
  <2>2. ASSUME NEW k \in 0..(n + 1)
        PROVE  g[k] = IF k = 0 THEN v ELSE AfterPass(g[k - 1], passes[k])
    <3>1. CASE k = n + 1
      <4>1. g[n] = f[n] /\ k # 0 /\ k - 1 = n /\ g[k] = AfterPass(f[n], passes[n + 1])
        BY <3>1
      <4> HIDE DEF g
      <4> QED BY <3>1, <4>1
    <3>2. CASE k # n + 1
      <4>1. k \in 0..n /\ g[k] = f[k]
        BY <3>2
      <4>2. f[k] = IF k = 0 THEN v ELSE AfterPass(f[k - 1], passes[k])
        BY <2>1, <4>1
      <4>3. k # 0 => g[k - 1] = f[k - 1]
        BY <4>1
      <4> HIDE DEF g
      <4> QED BY <4>1, <4>2, <4>3
    <3> QED BY <3>1, <3>2
  <2>3. g = [k \in 0..(n + 1) |-> g[k]]
    OBVIOUS
  <2> HIDE DEF g
  <2>4. Follows(n + 1, g)
    BY <2>2, <2>3
  <2>5. \E f1 : Follows(n + 1, f1)
    BY <2>4
  <2> HIDE DEF Follows
  <2> QED BY <2>5
<1> HIDE DEF S
<1>3. Len(passes) \in S
  BY <1>1, <1>2, Induction
<1>4. PICK f : Follows(Len(passes), f)
  BY <1>3 DEF S
<1>5. ProgramSteps(v, passes) = [k \in 0..Len(passes) |-> IF k = 0 THEN v ELSE AfterPass(ProgramSteps(v, passes)[k - 1], passes[k])]
  BY <1>4 DEF ProgramSteps
<1> DEFINE h == ProgramSteps(v, passes)
<1>6. h = [k \in 0..Len(passes) |-> IF k = 0 THEN v ELSE AfterPass(h[k - 1], passes[k])]
  BY <1>5
<1> HIDE DEF h
<1>7. h[0] = v /\ \A k \in 1..Len(passes) : h[k] = AfterPass(h[k - 1], passes[k])
  BY <1>6
<1> QED BY <1>7 DEF h

\* The rows of a task: those its operations write and touch.
LEMMA BatchRows ==
  ASSUME NEW ops, Batch(ops)
  PROVE  /\ Written(ops) \subseteq Touched(ops) /\ Touched(ops) \subseteq RowIds
         /\ \A k \in 1..Len(ops) : /\ Accepted(ops[k])
                                   /\ OpWrites(ops[k]) \subseteq Written(ops)
                                   /\ OpTouches(ops[k]) \subseteq Touched(ops)
<1>1. ASSUME NEW op, Accepted(op) PROVE OpWrites(op) \subseteq OpTouches(op) /\ OpTouches(op) \subseteq RowIds
  BY <1>1 DEF Accepted, OpWrites, OpTouches, ButterflyKinds
<1>2. \A k \in 1..Len(ops) : /\ Accepted(ops[k])
                             /\ OpWrites(ops[k]) \subseteq OpTouches(ops[k])
                             /\ OpTouches(ops[k]) \subseteq RowIds
  BY <1>1 DEF Batch
<1>3. DOMAIN ops = 1..Len(ops)
  BY DEF Batch
<1> QED BY <1>2, <1>3 DEF Written, Touched

\* A task leaves rows, and those it does not write as they were.
LEMMA TaskKeeps ==
  ASSUME NEW ops, Batch(ops), NEW v, Vector(v)
  PROVE  \A k \in 0..Len(ops) :
           /\ Vector(TaskSteps(v, ops)[k])
           /\ \A r \in RowIds \ Written(ops) : TaskSteps(v, ops)[k][r] = v[r]
<1> DEFINE steps == TaskSteps(v, ops)
           S == {k \in Nat : k <= Len(ops) =>
                   Vector(steps[k]) /\ \A r \in RowIds \ Written(ops) : steps[k][r] = v[r]}
<1>1. Len(ops) \in Nat /\ steps[0] = v /\ \A k \in 1..Len(ops) : steps[k] = Applied(steps[k - 1], ops[k])
  BY TaskFollows DEF Batch
<1> HIDE DEF steps
<1>2. 0 \in S
  BY <1>1
<1>3. ASSUME NEW k \in Nat, k \in S PROVE k + 1 \in S
  <2> SUFFICES ASSUME k + 1 <= Len(ops)
               PROVE  Vector(steps[k + 1]) /\ \A r \in RowIds \ Written(ops) : steps[k + 1][r] = v[r]
    OBVIOUS
  <2>1. Vector(steps[k]) /\ \A r \in RowIds \ Written(ops) : steps[k][r] = v[r]
    BY <1>1, <1>3
  <2>2. k + 1 \in 1..Len(ops) /\ (k + 1) - 1 = k
    BY <1>1
  <2>3. steps[k + 1] = Applied(steps[k], ops[k + 1])
    BY <1>1, <2>2
  <2>4. Accepted(ops[k + 1]) /\ OpWrites(ops[k + 1]) \subseteq Written(ops)
    BY <2>2, BatchRows
  <2>5. Vector(steps[k + 1]) /\ \A r \in RowIds \ OpWrites(ops[k + 1]) : steps[k + 1][r] = steps[k][r]
    BY <2>1, <2>3, <2>4, AppliedKeeps
  <2> QED BY <2>1, <2>4, <2>5
<1> HIDE DEF S
<1>4. Nat \subseteq S
  BY <1>2, <1>3, Induction
<1>5. \A k \in 0..Len(ops) : Vector(steps[k]) /\ \A r \in RowIds \ Written(ops) : steps[k][r] = v[r]
  BY <1>1, <1>4 DEF S
<1> QED BY <1>5 DEF steps

\* What it leaves in the rows it touches depends on nothing but these.
LEMMA TaskLocal ==
  ASSUME NEW ops, Batch(ops), NEW v, Vector(v), NEW w, Vector(w),
         \A x \in Touched(ops) : v[x] = w[x]
  PROVE  \A k \in 0..Len(ops) : \A x \in Touched(ops) : TaskSteps(v, ops)[k][x] = TaskSteps(w, ops)[k][x]
<1> DEFINE a == TaskSteps(v, ops)
           b == TaskSteps(w, ops)
           S == {k \in Nat : k <= Len(ops) => \A x \in Touched(ops) : a[k][x] = b[k][x]}
<1>1. Len(ops) \in Nat /\ a[0] = v /\ \A k \in 1..Len(ops) : a[k] = Applied(a[k - 1], ops[k])
  BY TaskFollows DEF Batch
<1>2. b[0] = w /\ \A k \in 1..Len(ops) : b[k] = Applied(b[k - 1], ops[k])
  BY TaskFollows DEF Batch
<1>3. \A k \in 0..Len(ops) : Vector(a[k]) /\ Vector(b[k])
  BY TaskKeeps
<1> HIDE DEF a, b
<1>4. 0 \in S
  BY <1>1, <1>2
<1>5. ASSUME NEW k \in Nat, k \in S PROVE k + 1 \in S
  <2> SUFFICES ASSUME k + 1 <= Len(ops), NEW x \in Touched(ops) PROVE a[k + 1][x] = b[k + 1][x]
    OBVIOUS
  <2>1. \A y \in Touched(ops) : a[k][y] = b[k][y]
    BY <1>1, <1>5
  <2>2. k + 1 \in 1..Len(ops) /\ (k + 1) - 1 = k /\ k \in 0..Len(ops)
    BY <1>1
  <2>3. a[k + 1] = Applied(a[k], ops[k + 1]) /\ b[k + 1] = Applied(b[k], ops[k + 1])
    BY <1>1, <1>2, <2>2
  <2>4. Accepted(ops[k + 1]) /\ OpTouches(ops[k + 1]) \subseteq Touched(ops) /\ x \in RowIds
    BY <2>2, BatchRows
  <2>5. Vector(a[k]) /\ Vector(b[k])
    BY <1>3, <2>2
  <2>6. Applied(a[k], ops[k + 1])[x] = Applied(b[k], ops[k + 1])[x]
    BY <2>1, <2>4, <2>5, AppliedLocal
  <2> QED BY <2>3, <2>6
<1> HIDE DEF S
<1>6. Nat \subseteq S
  BY <1>4, <1>5, Induction
<1>7. \A k \in 0..Len(ops) : \A x \in Touched(ops) : a[k][x] = b[k][x]
  BY <1>1, <1>6 DEF S
<1> QED BY <1>7 DEF a, b

\* "Independent tasks" (additive_regions.go:11-13).
Apart(tasks) ==
  \A t, u \in DOMAIN tasks : t # u => Written(tasks[t]) \cap Touched(tasks[u]) = {}
\* Tasks that touch nothing another writes leave together what each leaves alone.
LEMMA PassByTasks ==
  ASSUME NEW tasks, Batches(tasks), Apart(tasks), NEW v, Vector(v)
  PROVE  /\ Vector(AfterPass(v, tasks))
         /\ \A t \in 1..Len(tasks) : \A r \in Written(tasks[t]) :
              AfterPass(v, tasks)[r] = AfterTask(v, tasks[t])[r]
         /\ \A r \in RowIds : (\A t \in 1..Len(tasks) : r \notin Written(tasks[t])) =>
              AfterPass(v, tasks)[r] = v[r]
<1> DEFINE steps == PassSteps(v, tasks)
           Alone(k) == /\ Vector(steps[k])
                       /\ \A t \in 1..k : \A r \in Written(tasks[t]) : steps[k][r] = AfterTask(v, tasks[t])[r]
                       /\ \A r \in RowIds : (\A t \in 1..k : r \notin Written(tasks[t])) => steps[k][r] = v[r]
           S == {k \in Nat : k <= Len(tasks) => Alone(k)}
<1>1. Len(tasks) \in Nat /\ steps[0] = v /\ \A k \in 1..Len(tasks) : steps[k] = AfterTask(steps[k - 1], tasks[k])
  BY PassFollows DEF Batches
<1>2. DOMAIN tasks = 1..Len(tasks) /\ \A t \in 1..Len(tasks) : Batch(tasks[t])
  BY DEF Batches
<1> HIDE DEF steps
<1>3. 0 \in S
  BY <1>1
<1>4. ASSUME NEW k \in Nat, k \in S PROVE k + 1 \in S
  <2> SUFFICES ASSUME k + 1 <= Len(tasks) PROVE Alone(k + 1)
    OBVIOUS
  <2> DEFINE ops == tasks[k + 1]
  <2>1. Alone(k)
    BY <1>1, <1>4
  <2>2. k + 1 \in 1..Len(tasks) /\ (k + 1) - 1 = k /\ Batch(ops) /\ Len(ops) \in 0..Len(ops) /\ Len(ops) \in Nat
    BY <1>1, <1>2 DEF Batch
  <2>3. steps[k + 1] = AfterTask(steps[k], ops)
    BY <1>1, <2>2
  <2>4. Touched(ops) \subseteq RowIds /\ Written(ops) \subseteq Touched(ops)
    BY <2>2, BatchRows
  <2> HIDE DEF ops
  <2>5. ASSUME NEW x \in Touched(ops) PROVE steps[k][x] = v[x]
    <3>1. \A t \in 1..k : t \in 1..Len(tasks) /\ t # k + 1
      BY <1>1, <2>2
    <3>2. \A t \in 1..k : x \notin Written(tasks[t])
      BY <1>2, <2>2, <2>5, <3>1 DEF Apart, ops
    <3> QED BY <2>1, <2>4, <2>5, <3>2
  <2>6. Vector(steps[k + 1]) /\ \A r \in RowIds \ Written(ops) : steps[k + 1][r] = steps[k][r]
    BY <2>1, <2>2, <2>3, TaskKeeps DEF AfterTask
  <2>7. \A x \in Touched(ops) : steps[k + 1][x] = AfterTask(v, ops)[x]
    BY <2>1, <2>2, <2>3, <2>5, TaskLocal DEF AfterTask
  <2>8. ASSUME NEW t \in 1..(k + 1), NEW r \in Written(tasks[t])
        PROVE  steps[k + 1][r] = AfterTask(v, tasks[t])[r]
    <3>1. CASE t = k + 1
      BY <2>4, <2>7, <2>8, <3>1 DEF ops
    <3>2. CASE t # k + 1
      <4>1. t \in 1..k /\ t \in 1..Len(tasks)
        BY <1>1, <2>2, <3>2
      <4>2. r \in RowIds /\ r \notin Touched(ops)
        <5>1. Written(tasks[t]) \subseteq RowIds
          BY <1>2, <4>1, BatchRows
        <5> QED BY <1>2, <2>2, <2>8, <3>2, <4>1, <5>1 DEF Apart, ops
      <4>3. steps[k + 1][r] = steps[k][r] /\ steps[k][r] = AfterTask(v, tasks[t])[r]
        BY <2>1, <2>4, <2>6, <2>8, <4>1, <4>2
      <4> QED BY <4>3
    <3> QED BY <3>1, <3>2
  <2>9. ASSUME NEW r \in RowIds, \A t \in 1..(k + 1) : r \notin Written(tasks[t])
        PROVE  steps[k + 1][r] = v[r]
    <3>1. r \notin Written(ops) /\ \A t \in 1..k : r \notin Written(tasks[t])
      BY <2>2, <2>9 DEF ops
    <3> QED BY <2>1, <2>6, <3>1
  <2> QED BY <2>6, <2>8, <2>9
<1> HIDE DEF S
<1>5. Nat \subseteq S
  BY <1>3, <1>4, Induction
<1>6. Alone(Len(tasks))
  BY <1>1, <1>5 DEF S
<1> QED BY <1>6 DEF steps, AfterPass

-----------------------------------------------------------------------------
\* What is true of a run and of the goroutines' shares.
RunHolds ==
  /\ job \in Jobs /\ contexts \in Goroutines /\ pass \in Nat \ {0}
  /\ taskOf \in [Goroutines -> Nat] /\ doneOf \in [Goroutines -> Nat]
  /\ verdict \in {"idle", "running", "ok", "error"}
  /\ verdict = "idle" => pass = 1 /\ taskOf = FirstTasks /\ \A g \in Goroutines : doneOf[g] = 0
  /\ verdict # "idle" => program = Programs[job] /\ Vector(given) /\ Vector(region)

\* Goroutine g takes every task that is a multiple of the goroutines away from its first.
Takes(g, t) == (t - g) % Sharing = 0
ShareHolds ==
  verdict = "running" =>
    /\ pass <= Len(program)
    /\ \A g \in 1..Sharing : g <= taskOf[g] /\ Takes(g, taskOf[g])
    /\ \A g \in 1..Sharing :
         taskOf[g] <= Len(TasksNow) => doneOf[g] < Len(TasksNow[taskOf[g]])
    /\ \A g \in Goroutines : g > Sharing \/ taskOf[g] > Len(TasksNow) => doneOf[g] = 0

\* The rows when the pass began, and how many operations of a task its goroutine has done.
PassStart == ProgramSteps(given, program)[pass - 1]
Progress(g, t) ==
  IF t < taskOf[g] THEN Len(TasksNow[t]) ELSE IF t = taskOf[g] THEN doneOf[g] ELSE 0

\* The rows that a task writes are as if it ran alone from the beginning of the pass, as
\* far as it has got; the others are as they were.
RowsHold ==
  verdict = "running" =>
    /\ Vector(PassStart)
    /\ \A t \in 1..Len(TasksNow), g \in 1..Sharing : Takes(g, t) =>
         \A r \in Written(TasksNow[t]) :
           region[r] = TaskSteps(PassStart, TasksNow[t])[Progress(g, t)][r]
    /\ \A r \in RowIds :
         (\A t \in 1..Len(TasksNow) : r \notin Written(TasksNow[t])) => region[r] = PassStart[r]

OrderHolds == verdict = "ok" => region = ProgramSteps(given, program)[Len(program)]

RunInv == RunHolds /\ ShareHolds /\ RowsHold /\ OrderHolds

\* The programs are sequences of passes of batches that Apply accepts.
LEMMA ProgramsAreBatches ==
  ASSUME NEW j \in Jobs
  PROVE  /\ Len(Programs[j]) \in Nat /\ DOMAIN Programs[j] = 1..Len(Programs[j])
         /\ \A p \in 1..Len(Programs[j]) : Batches(Programs[j][p])
<1>1. Len(Programs[j]) \in Nat /\ DOMAIN Programs[j] = 1..Len(Programs[j])
  BY RegionAssumption
<1>2. ASSUME NEW p \in 1..Len(Programs[j]) PROVE Batches(Programs[j][p])
  <2> DEFINE tasks == Programs[j][p]
  <2>1. /\ Len(tasks) \in Nat /\ DOMAIN tasks = 1..Len(tasks)
        /\ \A t \in DOMAIN tasks : /\ Len(tasks[t]) \in Nat \ {0} /\ DOMAIN tasks[t] = 1..Len(tasks[t])
                                   /\ \A k \in DOMAIN tasks[t] : Accepted(tasks[t][k])
    BY <1>1, RegionAssumption
  <2> HIDE DEF tasks
  <2>2. Batches(tasks)
    BY <2>1 DEF Batches, Batch
  <2> QED BY <2>2 DEF tasks
<1> QED BY <1>1, <1>2

\* The pass at hand while a run is under way.
LEMMA PassAtHand ==
  ASSUME RunInv, verdict = "running", Independent(program)
  PROVE  /\ Batches(TasksNow) /\ Apart(TasksNow)
         /\ Len(program) \in Nat /\ pass \in 1..Len(program)
         /\ Sharing \in Nat /\ Sharing <= contexts /\ Sharing <= Len(TasksNow)
         /\ Len(TasksNow) > 0 => Sharing > 0
         /\ 1..Sharing \subseteq Goroutines
<1>1. /\ Len(program) \in Nat /\ DOMAIN program = 1..Len(program)
      /\ \A p \in 1..Len(program) : Batches(program[p])
  BY ProgramsAreBatches DEF RunInv, RunHolds
<1>2. pass \in 1..Len(program)
  BY <1>1 DEF RunInv, RunHolds, ShareHolds
<1>3. Batches(TasksNow) /\ Apart(TasksNow)
  BY <1>1, <1>2 DEF TasksNow, Independent, Apart
<1>4. Len(TasksNow) \in Nat /\ contexts \in Nat \ {0} /\ contexts <= MaxContexts /\ MaxContexts \in Nat
  BY <1>3, RegionAssumption DEF Batches, RunInv, RunHolds, Goroutines
<1>5. Sharing \in {contexts, Len(TasksNow)} /\ Sharing <= contexts /\ Sharing <= Len(TasksNow)
  BY <1>4 DEF Sharing, Min
<1>6. 1..Sharing \subseteq Goroutines
  BY <1>4, <1>5 DEF Goroutines
<1> QED BY <1>1, <1>2, <1>3, <1>4, <1>5, <1>6

\* Every task of a pass is taken by one of the goroutines that share it, and by no other.
LEMMA OneTakes ==
  ASSUME NEW n \in Nat \ {0}
  PROVE  /\ \A t \in Nat \ {0} : \E g \in 1..n : (t - g) % n = 0
         /\ \A t \in Nat, g, h \in 1..n : (t - g) % n = 0 /\ (t - h) % n = 0 => g = h
         /\ \A t, u \in Nat, g \in 1..n :
              (t - g) % n = 0 /\ (u - g) % n = 0 /\ t < u => t + n <= u
         /\ \A t \in Nat, g \in 1..n : (t - g) % n = 0 => (t + n - g) % n = 0
         /\ \A t \in Nat \ {0}, g \in 1..n : (t - g) % n = 0 => g <= t
<1>1. ASSUME NEW t \in Nat \ {0} PROVE \E g \in 1..n : (t - g) % n = 0
  <2> DEFINE q == (t - 1) \div n
             r == (t - 1) % n
  <2>1. q \in Int /\ r \in 0..(n - 1) /\ t - 1 = n * q + r
    OBVIOUS
  <2> HIDE DEF q, r
  <2>2. r + 1 \in 1..n /\ t - (r + 1) \in Int /\ t - (r + 1) = n * q
    BY <2>1
  <2>3. (t - (r + 1)) % n = 0
    BY <2>1, <2>2, Multiples
  <2> QED BY <2>2, <2>3
<1>2. ASSUME NEW t \in Nat, NEW g \in 1..n, NEW h \in 1..n, (t - g) % n = 0, (t - h) % n = 0
      PROVE  ~(g < h)
  <2> SUFFICES ASSUME g < h PROVE FALSE
    OBVIOUS
  <2>1. t - g \in Int /\ t - h \in Int /\ t - h < t - g
    OBVIOUS
  <2>2. (t - h) + n <= t - g
    BY <1>2, <2>1, Boundaries
  <2> QED BY <2>2
<1>3. ASSUME NEW t \in Nat, NEW u \in Nat, NEW g \in 1..n, (t - g) % n = 0, (u - g) % n = 0, t < u
      PROVE  t + n <= u
  <2>1. t - g \in Int /\ u - g \in Int /\ t - g < u - g
    BY <1>3
  <2>2. (t - g) + n <= u - g
    BY <1>3, <2>1, Boundaries
  <2> QED BY <2>2
<1>4. ASSUME NEW t \in Nat, NEW g \in 1..n, (t - g) % n = 0 PROVE (t + n - g) % n = 0
  <2>1. t - g \in Int /\ t + n - g \in Int /\ n * 1 = n
    OBVIOUS
  <2>2. PICK q \in Int : t - g = n * q
    BY <1>4, <2>1, Multiples
  <2>3. q + 1 \in Int /\ n * (q + 1) = n * q + n
    OBVIOUS
  <2>4. t + n - g = n * (q + 1)
    BY <2>2, <2>3
  <2> QED BY <2>1, <2>3, <2>4, Multiples
<1>5. ASSUME NEW t \in Nat \ {0}, NEW g \in 1..n, (t - g) % n = 0 PROVE g <= t
  <2> SUFFICES ASSUME t < g PROVE FALSE
    OBVIOUS
  <2>1. t - g \in Int /\ 0 \in Int /\ t - g < 0 /\ 0 % n = 0
    OBVIOUS
  <2>2. (t - g) + n <= 0
    BY <1>5, <2>1, Boundaries
  <2> QED BY <2>2
<1>6. \A t \in Nat, g, h \in 1..n : (t - g) % n = 0 /\ (t - h) % n = 0 => g = h
  <2> SUFFICES ASSUME NEW t \in Nat, NEW g \in 1..n, NEW h \in 1..n, (t - g) % n = 0, (t - h) % n = 0
               PROVE  g = h
    OBVIOUS
  <2>1. ~(g < h) /\ ~(h < g)
    BY <1>2
  <2> QED BY ONLY <2>1, g \in Int, h \in Int
<1>7. \A t, u \in Nat, g \in 1..n : (t - g) % n = 0 /\ (u - g) % n = 0 /\ t < u => t + n <= u
  BY <1>3
<1>8. \A t \in Nat, g \in 1..n : (t - g) % n = 0 => (t + n - g) % n = 0
  BY <1>4
<1>9. \A t \in Nat \ {0}, g \in 1..n : (t - g) % n = 0 => g <= t
  BY <1>5
<1>10. \A t \in Nat \ {0} : \E g \in 1..n : (t - g) % n = 0
  BY <1>1
<1> QED BY ONLY <1>6, <1>7, <1>8, <1>9, <1>10

\* At the beginning of a pass nothing is done of its tasks.
LEMMA PassBegins ==
  ASSUME verdict' = "running", Batches(TasksNow'), Vector(region'), PassStart' = region',
         taskOf' = FirstTasks, \A g \in Goroutines : doneOf'[g] = 0,
         pass' <= Len(program'), contexts' \in Goroutines
  PROVE  ShareHolds' /\ RowsHold'
<1>1. Len(TasksNow') \in Nat /\ contexts' \in Nat \ {0} /\ contexts' <= MaxContexts /\ MaxContexts \in Nat
  BY RegionAssumption DEF Batches, Goroutines
<1>2. Sharing' = Min({contexts', Len(TasksNow')})
  BY DEF Sharing
<1>3. Sharing' \in Nat /\ Sharing' <= contexts' /\ Sharing' <= Len(TasksNow')
  BY <1>1, <1>2 DEF Min
<1>4. \A g \in 1..Sharing' : g \in Goroutines /\ taskOf'[g] = g /\ g \in Nat \ {0}
  BY <1>1, <1>3 DEF Goroutines, FirstTasks
<1>5. ShareHolds'
  <2>1. \A g \in 1..Sharing' : g <= taskOf'[g] /\ (taskOf'[g] - g) % Sharing' = 0
    BY <1>3, <1>4
  <2>2. ASSUME NEW g, g \in 1..Sharing', taskOf'[g] <= Len(TasksNow')
        PROVE  doneOf'[g] < Len(TasksNow'[taskOf'[g]])
    <3>1. g \in 1..Len(TasksNow') /\ doneOf'[g] = 0 /\ taskOf'[g] = g
      BY <1>1, <1>3, <1>4, <2>2
    <3>2. Len(TasksNow'[g]) \in Nat /\ Len(TasksNow'[g]) # 0
      BY <3>1 DEF Batches, Batch
    <3> QED BY <3>1, <3>2
  <2> QED BY <2>1, <2>2 DEF ShareHolds, Takes
<1>6. ASSUME NEW t, NEW g, NEW r, t \in 1..Len(TasksNow'), g \in 1..Sharing', Takes(g, t)',
             r \in Written(TasksNow'[t])
      PROVE  region'[r] = TaskSteps(PassStart', TasksNow'[t])[Progress(g, t)'][r]
  <2>1. Progress(g, t)' = 0
    <3>1. (t - g) % Sharing' = 0
      BY <1>6 DEF Takes
    <3>2. Sharing' \in Nat \ {0} /\ t \in Nat \ {0}
      BY <1>1, <1>3, <1>6
    <3>3. g <= t
      BY <1>6, <3>1, <3>2, OneTakes
    <3>4. ~(t < g) /\ taskOf'[g] = g /\ doneOf'[g] = 0
      BY <1>4, <1>6, <3>2, <3>3
    <3> QED BY <3>4 DEF Progress
  <2>2. Len(TasksNow'[t]) \in Nat
    BY <1>6 DEF Batches, Batch
  <2>3. TaskSteps(PassStart', TasksNow'[t])[0] = PassStart'
    BY <2>2, TaskFollows
  <2> QED BY <2>1, <2>3
<1>7. RowsHold'
  BY <1>6 DEF RowsHold
<1> QED BY <1>5, <1>7

\* Before a run starts, nothing is to be done.
LEMMA InitRun == Idle => RunInv
<1> SUFFICES ASSUME Idle PROVE RunInv
  OBVIOUS
<1>1. 1 \in Goroutines /\ \A g \in Goroutines : g \in Nat
  BY RegionAssumption DEF Goroutines
<1>2. job \in Jobs
  BY RegionAssumption DEF Idle
<1> QED BY <1>1, <1>2 DEF Idle, RunInv, RunHolds, ShareHolds, RowsHold, OrderHolds, FirstTasks

\* A run starts at the first task of its first pass, or ends at once.
LEMMA StartRun ==
  ASSUME RunInv, NEW j \in Jobs, NEW v \in Vectors[j], NEW n \in Goroutines, NEW wrong, Start(j, v, n, wrong)
  PROVE  RunInv'
<1>1. /\ Len(Programs[j]) \in Nat /\ DOMAIN Programs[j] = 1..Len(Programs[j])
      /\ \A p \in 1..Len(Programs[j]) : Batches(Programs[j][p])
  BY ProgramsAreBatches
<1>2. Vector(v)
  BY RegionAssumption DEF Vector
<1>3. pass = 1 /\ taskOf = FirstTasks /\ (\A g \in Goroutines : doneOf[g] = 0) /\ verdict = "idle"
  BY DEF RunInv, RunHolds, Start
<1>4. ProgramSteps(v, Programs[j])[0] = v
  BY <1>1, ProgramFollows
<1>5. RunHolds'
  BY <1>2, <1>3 DEF RunInv, RunHolds, Start
<1>6. OrderHolds'
  <2> SUFFICES ASSUME verdict' = "ok" PROVE region' = ProgramSteps(given', program')[Len(program')]
    BY DEF OrderHolds
  <2>1. program' = Programs[j] /\ given' = v /\ region' = v /\ Len(program') = 0
    BY DEF Start
  <2> QED BY <1>4, <2>1
<1>7. CASE verdict' = "running"
  <2>1. /\ program' = Programs[j] /\ given' = v /\ region' = v /\ contexts' = n
        /\ pass' = 1 /\ taskOf' = FirstTasks /\ doneOf' = doneOf /\ Len(Programs[j]) # 0
    BY <1>3, <1>7 DEF Start
  <2>2. 1 \in 1..Len(Programs[j]) /\ pass' - 1 = 0
    BY <1>1, <2>1
  <2>3. Batches(Programs[j][1]) /\ TasksNow' = Programs[j][1]
    BY <1>1, <2>1, <2>2 DEF TasksNow
  <2>4. PassStart' = v
    BY <1>4, <2>1, <2>2 DEF PassStart
  <2>5. \A g \in Goroutines : doneOf'[g] = 0
    BY <1>3, <2>1
  <2>6. pass' <= Len(program')
    BY <1>1, <2>1
  <2>7. ShareHolds' /\ RowsHold'
    BY <1>2, <1>7, <2>1, <2>3, <2>4, <2>5, <2>6, PassBegins
  <2> QED BY <1>5, <1>6, <2>7 DEF RunInv
<1>8. CASE verdict' # "running"
  BY <1>5, <1>6, <1>8 DEF RunInv, ShareHolds, RowsHold
<1> QED BY <1>7, <1>8

\* Nothing but an error of a goroutine has changed.
LEMMA SameRun ==
  ASSUME RunInv, UNCHANGED <<job, program, given, region, contexts, pass, taskOf, doneOf, verdict>>
  PROVE  RunInv'
<1>1. UNCHANGED <<job, program, given, region, contexts, pass, taskOf, doneOf, verdict>>
  OBVIOUS
<1>2. TasksNow' = TasksNow /\ Sharing' = Sharing /\ PassStart' = PassStart
  BY <1>1 DEF TasksNow, Sharing, PassStart
<1>3. RunHolds' /\ OrderHolds'
  BY <1>1 DEF RunInv, RunHolds, OrderHolds
<1>4. ShareHolds'
  BY <1>1, <1>2 DEF RunInv, ShareHolds, Takes
<1>5. \A h, t : Progress(h, t)' = Progress(h, t) /\ Takes(h, t)' = Takes(h, t)
  BY <1>1, <1>2 DEF Progress, Takes
<1>6. RowsHold'
  BY <1>1, <1>2, <1>5 DEF RunInv, RowsHold
<1> QED BY <1>3, <1>4, <1>6 DEF RunInv

\* An operation takes its task one further, in the rows the task touches, which are as
\* they would be if it ran alone; the tasks of the others are left as they were.
LEMMA OperateRun ==
  ASSUME RunInv, Independent(program), NEW g \in Goroutines, Operate(g)
  PROVE  RunInv'
<1> DEFINE n == Sharing
           L == Len(TasksNow)
           t0 == taskOf[g]
           k == doneOf[g]
           ops == TasksNow[t0]
           op == ops[k + 1]
<1>1. /\ verdict = "running" /\ g <= n /\ t0 <= L /\ region' = Applied(region, op)
      /\ UNCHANGED <<job, program, given, contexts, foreign, pass, stray, verdict>>
      /\ IF k + 1 = Len(ops) THEN doneOf' = [doneOf EXCEPT ![g] = 0] /\ taskOf' = [taskOf EXCEPT ![g] = @ + n]
         ELSE doneOf' = [doneOf EXCEPT ![g] = @ + 1] /\ taskOf' = taskOf
  BY DEF Operate, Working, NextTask
<1>2. TasksNow' = TasksNow /\ Sharing' = Sharing /\ PassStart' = PassStart
  BY <1>1 DEF TasksNow, Sharing, PassStart
<1>3. /\ Batches(TasksNow) /\ Apart(TasksNow) /\ n \in Nat /\ 1..n \subseteq Goroutines /\ L \in Nat
      /\ DOMAIN TasksNow = 1..L /\ \A t \in 1..L : Batch(TasksNow[t]) /\ Len(TasksNow[t]) \in Nat
  BY <1>1, PassAtHand DEF Batches, Batch
<1>4. g \in 1..n /\ n \in Nat \ {0} /\ \A h \in Goroutines : h \in Nat \ {0}
  BY <1>1, <1>3, RegionAssumption DEF Goroutines
<1>5. taskOf \in [Goroutines -> Nat] /\ doneOf \in [Goroutines -> Nat]
  BY DEF RunInv, RunHolds
<1>6. /\ t0 \in 1..L /\ k \in Nat /\ k < Len(ops) /\ (t0 - g) % n = 0 /\ Len(ops) \in Nat /\ Batch(ops)
  <2>1. g <= t0 /\ Takes(g, t0) /\ k < Len(ops)
    BY <1>1, <1>4 DEF RunInv, ShareHolds
  <2>2. t0 \in 1..L /\ k \in Nat
    BY <1>1, <1>3, <1>4, <1>5, <2>1
  <2> QED BY <1>3, <2>1, <2>2 DEF Takes
<1>7. Accepted(op) /\ OpWrites(op) \subseteq Written(ops) /\ OpTouches(op) \subseteq Touched(ops)
      /\ Written(ops) \subseteq Touched(ops) /\ Touched(ops) \subseteq RowIds /\ k + 1 \in 1..Len(ops)
  <2>1. k + 1 \in 1..Len(ops)
    BY <1>6
  <2> QED BY <1>6, <2>1, BatchRows
<1>8. Vector(region) /\ Vector(PassStart)
  BY <1>1 DEF RunInv, RunHolds, RowsHold
<1>9. Vector(region') /\ \A r \in RowIds \ Written(ops) : region'[r] = region[r]
  BY <1>1, <1>7, <1>8, AppliedKeeps
<1>10. t0 = taskOf[g] /\ k = doneOf[g] /\ t0 \in Nat /\ n \in Nat
  BY <1>4, <1>5
<1> HIDE DEF n, L, t0, k, ops, op
<1>21. /\ taskOf' \in [Goroutines -> Nat] /\ doneOf' \in [Goroutines -> Nat]
       /\ \A h \in Goroutines : h # g => taskOf'[h] = taskOf[h] /\ doneOf'[h] = doneOf[h]
       /\ k + 1 = Len(ops) => taskOf'[g] = t0 + n /\ doneOf'[g] = 0
       /\ k + 1 # Len(ops) => taskOf'[g] = t0 /\ doneOf'[g] = k + 1
  <2>1. CASE k + 1 = Len(ops)
    <3>1. doneOf' = [doneOf EXCEPT ![g] = 0] /\ taskOf' = [taskOf EXCEPT ![g] = t0 + n]
      BY <1>1, <1>10, <2>1
    <3> QED BY <1>5, <1>10, <2>1, <3>1
  <2>2. CASE k + 1 # Len(ops)
    <3>1. doneOf' = [doneOf EXCEPT ![g] = k + 1] /\ taskOf' = taskOf
      BY <1>1, <1>10, <2>2
    <3>2. k + 1 \in Nat
      BY <1>6
    <3> QED BY <1>5, <1>10, <2>2, <3>1, <3>2
  <2> QED BY <2>1, <2>2
<1>11. RunHolds'
  BY <1>1, <1>9, <1>21 DEF RunInv, RunHolds
<1>12. OrderHolds'
  BY <1>1 DEF OrderHolds
<1>13. ShareHolds'
  <2>1. pass' <= Len(program')
    BY <1>1 DEF RunInv, ShareHolds
  <2>2. ASSUME NEW h \in 1..n PROVE h <= taskOf'[h] /\ (taskOf'[h] - h) % n = 0
    <3>1. h \in Goroutines /\ h <= taskOf[h] /\ (taskOf[h] - h) % n = 0 /\ taskOf[h] \in Nat
      BY <1>1, <1>3, <1>5, <2>2 DEF RunInv, ShareHolds, Takes, n
    <3>2. CASE h = g /\ k + 1 = Len(ops)
      <4>1. (t0 + n - g) % n = 0
        BY <1>3, <1>4, <1>6, OneTakes
      <4>2. taskOf'[h] = t0 + n /\ taskOf[h] = t0
        BY <1>21, <3>2 DEF t0
      <4> QED BY <1>4, <3>1, <3>2, <4>1, <4>2
    <3>3. CASE ~(h = g /\ k + 1 = Len(ops))
      <4>1. taskOf'[h] = taskOf[h]
        BY <1>21, <3>1, <3>3 DEF t0
      <4> QED BY <3>1, <4>1
    <3> QED BY <3>2, <3>3
  <2>3. ASSUME NEW h \in 1..n, taskOf'[h] <= L PROVE doneOf'[h] < Len(TasksNow[taskOf'[h]])
    <3>1. h \in Goroutines /\ (taskOf[h] <= L => doneOf[h] < Len(TasksNow[taskOf[h]]))
      BY <1>1, <1>3, <2>3 DEF RunInv, ShareHolds, n, L
    <3>2. CASE h # g
      BY <1>21, <2>3, <3>1, <3>2
    <3>3. CASE h = g /\ k + 1 # Len(ops)
      <4>1. taskOf'[h] = t0 /\ doneOf'[h] = k + 1 /\ k + 1 < Len(ops)
        BY <1>6, <1>21, <3>3
      <4> QED BY <4>1 DEF ops
    <3>4. CASE h = g /\ k + 1 = Len(ops)
      <4>1. doneOf'[h] = 0 /\ taskOf'[h] = t0 + n
        BY <1>21, <3>4
      <4>2. t0 + n \in 1..L
        BY <1>3, <1>4, <1>6, <2>3, <4>1
      <4>3. Len(TasksNow[t0 + n]) \in Nat /\ Len(TasksNow[t0 + n]) # 0
        BY <1>3, <4>2 DEF Batches, L
      <4> QED BY <4>1, <4>3
    <3> QED BY <3>2, <3>3, <3>4
  <2>4. ASSUME NEW h \in Goroutines, h > n \/ taskOf'[h] > L PROVE doneOf'[h] = 0
    <3>1. h > n \/ taskOf[h] > L => doneOf[h] = 0
      BY <1>1, <2>4 DEF RunInv, ShareHolds, n, L
    <3>2. CASE h # g
      BY <1>21, <2>4, <3>1, <3>2
    <3>3. CASE h = g /\ k + 1 = Len(ops)
      BY <1>21, <3>3
    <3>4. CASE h = g /\ k + 1 # Len(ops)
      <4>1. taskOf'[h] = t0 /\ ~(h > n)
        BY <1>4, <1>21, <3>4
      <4> QED BY <1>6, <2>4, <4>1, <1>3
    <3> QED BY <3>2, <3>3, <3>4
  <2> QED BY <1>2, <2>1, <2>2, <2>3, <2>4 DEF ShareHolds, Takes, n, L
<1>14. ASSUME NEW t \in 1..L, NEW h \in 1..n, (t - h) % n = 0
       PROVE  Progress(h, t)' = IF t = t0 THEN k + 1 ELSE Progress(h, t)
  <2>1. /\ Progress(h, t)' = IF t < taskOf'[h] THEN Len(TasksNow[t]) ELSE IF t = taskOf'[h] THEN doneOf'[h] ELSE 0
        /\ Progress(h, t) = IF t < taskOf[h] THEN Len(TasksNow[t]) ELSE IF t = taskOf[h] THEN doneOf[h] ELSE 0
    BY <1>2 DEF Progress
  <2>2. h \in Goroutines /\ t \in Nat /\ t0 \in Nat
    BY <1>3, <1>6, <1>14
  <2>3. CASE h # g
    <3>1. t # t0
      BY <1>4, <1>6, <1>14, <2>2, <2>3, OneTakes
    <3> QED BY <1>21, <2>1, <2>2, <2>3, <3>1
  <2>4. CASE h = g /\ k + 1 # Len(ops)
    BY <1>21, <2>1, <2>2, <2>4, <1>6 DEF t0, k
  <2>5. CASE h = g /\ k + 1 = Len(ops)
    <3>1. taskOf[h] = t0 /\ doneOf[h] = k /\ taskOf'[h] = t0 + n /\ doneOf'[h] = 0
      BY <1>21, <2>5 DEF t0, k
    <3>2. t0 < t => t0 + n <= t
      BY <1>4, <1>6, <1>14, <2>2, <2>5, OneTakes
    <3>3. CASE t = t0
      BY <1>4, <2>1, <2>2, <2>5, <3>1, <3>3 DEF ops
    <3>4. CASE t < t0
      BY <1>4, <2>1, <2>2, <3>1, <3>4
    <3>5. CASE t0 < t
      BY <1>4, <2>1, <2>2, <3>1, <3>2, <3>5
    <3> QED BY <2>2, <3>3, <3>4, <3>5
  <2> QED BY <2>3, <2>4, <2>5
<1>15. /\ \A t \in 1..L, h \in 1..n : (t - h) % n = 0 =>
            \A r \in Written(TasksNow[t]) : region[r] = TaskSteps(PassStart, TasksNow[t])[Progress(h, t)][r]
       /\ \A r \in RowIds : (\A t \in 1..L : r \notin Written(TasksNow[t])) => region[r] = PassStart[r]
  BY <1>1 DEF RunInv, RowsHold, Takes, n, L
<1>16. Progress(g, t0) = k
  BY <1>6 DEF Progress, t0, k
<1> DEFINE alone == TaskSteps(PassStart, ops)
<1>17. alone[k + 1] = Applied(alone[k], op) /\ k \in 0..Len(ops) /\ Vector(alone[k])
       /\ \A r \in RowIds \ Written(ops) : alone[k][r] = PassStart[r]
  <2>1. k \in 0..Len(ops) /\ (k + 1) - 1 = k
    BY <1>6
  <2>2. alone[k + 1] = Applied(alone[(k + 1) - 1], ops[k + 1])
    BY <1>6, <1>7, TaskFollows
  <2>3. Vector(alone[k]) /\ \A r \in RowIds \ Written(ops) : alone[k][r] = PassStart[r]
    BY <1>6, <1>8, <2>1, TaskKeeps
  <2> HIDE DEF alone
  <2> QED BY <2>1, <2>2, <2>3 DEF op
<1> HIDE DEF alone
<1>18. ASSUME NEW x \in Touched(ops) PROVE region[x] = alone[k][x]
  <2>1. CASE x \in Written(ops)
    BY <1>4, <1>6, <1>15, <1>16, <2>1 DEF ops, alone
  <2>2. CASE x \notin Written(ops)
    <3>1. ASSUME NEW t \in 1..L PROVE x \notin Written(TasksNow[t])
      BY <1>3, <1>6, <1>18, <2>2 DEF Apart, ops
    <3> QED BY <1>7, <1>15, <1>17, <1>18, <2>2, <3>1
  <2> QED BY <2>1, <2>2
<1>19. \A r \in Touched(ops) : region'[r] = alone[k + 1][r]
  <2> SUFFICES ASSUME NEW r \in Touched(ops) PROVE region'[r] = alone[k + 1][r]
    OBVIOUS
  <2>1. Applied(region, op)[r] = Applied(alone[k], op)[r]
    BY <1>7, <1>8, <1>17, <1>18, AppliedLocal
  <2> QED BY <1>1, <1>17, <2>1 DEF op, ops, t0, k
<1>20. RowsHold'
  <2>1. ASSUME NEW t \in 1..L, NEW h \in 1..n, (t - h) % n = 0, NEW r \in Written(TasksNow[t])
        PROVE  region'[r] = TaskSteps(PassStart, TasksNow[t])[Progress(h, t)'][r]
    <3>1. CASE t = t0
      <4>1. Progress(h, t)' = k + 1
        BY <1>14, <2>1, <3>1
      <4>2. r \in Touched(ops)
        BY <1>7, <2>1, <3>1 DEF ops
      <4> QED BY <1>19, <3>1, <4>1, <4>2 DEF alone, ops
    <3>2. CASE t # t0
      <4>1. Progress(h, t)' = Progress(h, t)
        BY <1>14, <2>1, <3>2
      <4>2. r \notin Touched(ops)
        BY <1>3, <1>6, <2>1, <3>2 DEF Apart, ops
      <4>3. r \in RowIds
        BY <1>3, <2>1, BatchRows
      <4>4. region'[r] = region[r]
        BY <1>7, <1>9, <4>2, <4>3
      <4> QED BY <1>15, <2>1, <4>1, <4>4
    <3> QED BY <3>1, <3>2
  <2>2. ASSUME NEW r \in RowIds, \A t \in 1..L : r \notin Written(TasksNow[t])
        PROVE  region'[r] = PassStart[r]
    <3>1. r \notin Written(ops)
      BY <1>6, <2>2 DEF ops
    <3> QED BY <1>9, <1>15, <2>2, <3>1
  <2>3. \A t \in 1..L, h \in 1..n : (t - h) % n = 0 =>
          \A r \in Written(TasksNow[t]) : region'[r] = TaskSteps(PassStart, TasksNow[t])[Progress(h, t)'][r]
    BY <2>1
  <2> QED BY <1>2, <1>8, <2>2, <2>3 DEF RowsHold, Takes, n, L
<1> QED BY <1>11, <1>12, <1>13, <1>20 DEF RunInv

\* A pass ends with all of its tasks done, which is what they leave one after the other.
LEMMA BarrierRun ==
  ASSUME RunInv, Independent(program), Barrier
  PROVE  RunInv'
<1> DEFINE L == Len(TasksNow)
<1>1. /\ verdict = "running" /\ \A g \in Goroutines : ~Working(g)
      /\ verdict' = IF stray # {} THEN "error" ELSE IF pass = Len(program) THEN "ok" ELSE "running"
      /\ pass' = IF verdict' = "running" THEN pass + 1 ELSE pass
      /\ taskOf' = FirstTasks
      /\ UNCHANGED <<job, program, given, region, contexts, foreign, doneOf, stray>>
  BY DEF Barrier
<1>2. /\ Batches(TasksNow) /\ Apart(TasksNow) /\ Sharing \in Nat /\ 1..Sharing \subseteq Goroutines
      /\ L \in Nat /\ \A t \in 1..L : Batch(TasksNow[t])
      /\ Len(program) \in Nat /\ pass \in 1..Len(program) /\ (L > 0 => Sharing > 0)
  <2>1. DOMAIN TasksNow = 1..L
    BY <1>1, PassAtHand DEF Batches
  <2> QED BY <1>1, <2>1, PassAtHand DEF Batches
<1>3. \A g \in Goroutines : g \in Nat \ {0} /\ taskOf[g] \in Nat
  BY RegionAssumption DEF Goroutines, RunInv, RunHolds
<1>4. RunHolds'
  <2>1. FirstTasks \in [Goroutines -> Nat]
    BY <1>3 DEF FirstTasks
  <2>2. pass' \in Nat \ {0} /\ verdict' \in {"running", "ok", "error"}
    BY <1>1, <1>2
  <2> QED BY <1>1, <2>1, <2>2 DEF RunInv, RunHolds
<1>5. Vector(PassStart) /\ Vector(region)
  BY <1>1 DEF RunInv, RunHolds, RowsHold
<1>6. /\ Vector(AfterPass(PassStart, TasksNow))
      /\ \A t \in 1..L : \A r \in Written(TasksNow[t]) :
           AfterPass(PassStart, TasksNow)[r] = AfterTask(PassStart, TasksNow[t])[r]
      /\ \A r \in RowIds : (\A t \in 1..L : r \notin Written(TasksNow[t])) =>
           AfterPass(PassStart, TasksNow)[r] = PassStart[r]
  BY <1>2, <1>5, PassByTasks
<1>7. ASSUME stray = {} PROVE \A g \in 1..Sharing : taskOf[g] > L
  BY <1>1, <1>2, <1>3, <1>7 DEF Working
<1>8. ASSUME stray = {} PROVE region = AfterPass(PassStart, TasksNow)
  <2>1. ASSUME NEW t \in 1..L, NEW r \in Written(TasksNow[t])
        PROVE  region[r] = AfterTask(PassStart, TasksNow[t])[r]
    <3>1. Sharing \in Nat \ {0} /\ t \in Nat \ {0}
      BY <1>2
    <3>2. PICK g \in 1..Sharing : (t - g) % Sharing = 0
      BY <3>1, OneTakes
    <3>3. t < taskOf[g]
      BY <1>2, <1>3, <1>7, <1>8
    <3>4. Progress(g, t) = Len(TasksNow[t])
      BY <3>3 DEF Progress
    <3>5. region[r] = TaskSteps(PassStart, TasksNow[t])[Progress(g, t)][r]
      BY <1>1, <2>1, <3>2 DEF RunInv, RowsHold, Takes
    <3> QED BY <3>4, <3>5 DEF AfterTask
  <2>2. \A r \in RowIds : (\A t \in 1..L : r \notin Written(TasksNow[t])) => region[r] = PassStart[r]
    BY <1>1 DEF RunInv, RowsHold
  <2>3. \A r \in RowIds : region[r] = AfterPass(PassStart, TasksNow)[r]
    BY <1>6, <2>1, <2>2
  <2> DEFINE after == AfterPass(PassStart, TasksNow)
  <2>4. region = [r \in RowIds |-> region[r]] /\ after = [r \in RowIds |-> after[r]]
    BY <1>5, <1>6 DEF Vector
  <2> HIDE DEF after
  <2>5. \A r \in RowIds : region[r] = after[r]
    BY <2>3 DEF after
  <2>6. region = after
    BY <2>4, <2>5
  <2> QED BY <2>6 DEF after
<1>9. ASSUME stray = {} PROVE region = ProgramSteps(given, program)[pass]
  <2>1. ProgramSteps(given, program)[pass] = AfterPass(ProgramSteps(given, program)[pass - 1], program[pass])
    BY <1>2, ProgramFollows
  <2> QED BY <1>8, <1>9, <2>1 DEF PassStart, TasksNow
<1>10. OrderHolds'
  <2> SUFFICES ASSUME verdict' = "ok" PROVE region' = ProgramSteps(given', program')[Len(program')]
    BY DEF OrderHolds
  <2>1. stray = {} /\ pass = Len(program)
    BY <1>1
  <2> QED BY <1>1, <1>9, <2>1
<1>11. CASE verdict' = "running"
  <2>1. stray = {} /\ pass' = pass + 1 /\ pass # Len(program)
    BY <1>1, <1>11
  <2>2. pass' \in 1..Len(program) /\ pass' - 1 = pass
    BY <1>2, <2>1
  <2>3. PassStart' = region /\ region' = region
    BY <1>1, <1>9, <2>1, <2>2 DEF PassStart
  <2>4. \A g \in Goroutines : doneOf[g] = 0
    BY <1>1, <1>2, <1>3, <1>7, <2>1 DEF RunInv, ShareHolds
  <2>5. TasksNow' = program[pass + 1] /\ Batches(TasksNow')
    <3>1. TasksNow' = program[pass + 1]
      BY <1>1, <2>1 DEF TasksNow
    <3>2. Batches(program[pass + 1])
      BY <1>1, <2>1, <2>2, ProgramsAreBatches DEF RunInv, RunHolds
    <3> QED BY <3>1, <3>2
  <2>6. RowsHold' /\ ShareHolds'
    <3>1. Vector(region') /\ PassStart' = region' /\ taskOf' = FirstTasks /\ pass' <= Len(program')
      BY <1>1, <1>2, <1>5, <2>2, <2>3
    <3>2. contexts' \in Goroutines /\ \A g \in Goroutines : doneOf'[g] = 0
      BY <1>1, <2>4 DEF RunInv, RunHolds
    <3> QED BY <1>11, <2>5, <3>1, <3>2, PassBegins
  <2> QED BY <1>4, <1>10, <2>6 DEF RunInv
<1>12. CASE verdict' # "running"
  BY <1>4, <1>10, <1>12 DEF RunInv, ShareHolds, RowsHold
<1> QED BY <1>11, <1>12

\* RunInv survives every step.
LEMMA RunStep == RunInv /\ Independent(program) /\ [RegionNext]_regionVars => RunInv'
<1> SUFFICES ASSUME RunInv, Independent(program), [RegionNext]_regionVars PROVE RunInv'
  OBVIOUS
<1>1. CASE UNCHANGED regionVars
  BY <1>1, SameRun DEF regionVars
<1>2. ASSUME NEW j \in Jobs, NEW n \in Goroutines, NEW v \in Vectors[j], NEW wrong, Start(j, v, n, wrong)
      PROVE  RunInv'
  BY <1>2, StartRun
<1>3. ASSUME NEW g \in Goroutines, RefuseTask(g) PROVE RunInv'
  BY <1>3, SameRun DEF RefuseTask
<1>4. ASSUME NEW g \in Goroutines, Operate(g) PROVE RunInv'
  BY <1>4, OperateRun
<1>5. CASE Barrier
  BY <1>5, BarrierRun
<1> QED BY <1>1, <1>2, <1>3, <1>4, <1>5 DEF RegionNext

\* Goroutines at different tasks of a pass keep apart.
LEMMA RunApart == ASSUME RunInv, Independent(program) PROVE TasksApart
<1> SUFFICES ASSUME NEW g \in Goroutines, NEW h \in Goroutines, g # h, Working(g), Working(h)
             PROVE  Written(TasksNow[taskOf[g]]) \cap Touched(TasksNow[taskOf[h]]) = {}
  BY DEF TasksApart
<1>1. verdict = "running" /\ g <= Sharing /\ h <= Sharing /\ taskOf[g] <= Len(TasksNow) /\ taskOf[h] <= Len(TasksNow)
  BY DEF Working
<1>2. /\ DOMAIN TasksNow = 1..Len(TasksNow) /\ Apart(TasksNow) /\ Len(TasksNow) \in Nat /\ Sharing \in Nat
      /\ g \in Nat \ {0} /\ h \in Nat \ {0} /\ taskOf[g] \in Nat /\ taskOf[h] \in Nat
  BY <1>1, PassAtHand, RegionAssumption DEF Batches, Goroutines, RunInv, RunHolds
<1>3. g \in 1..Sharing /\ h \in 1..Sharing /\ Sharing \in Nat \ {0}
  BY <1>1, <1>2
<1>4. g <= taskOf[g] /\ h <= taskOf[h] /\ (taskOf[g] - g) % Sharing = 0 /\ (taskOf[h] - h) % Sharing = 0
  BY <1>1, <1>3 DEF RunInv, ShareHolds, Takes
<1>5. taskOf[g] # taskOf[h]
  BY <1>2, <1>3, <1>4, OneTakes
<1>6. taskOf[g] \in 1..Len(TasksNow) /\ taskOf[h] \in 1..Len(TasksNow)
  BY <1>1, <1>2, <1>4
<1> QED BY <1>2, <1>5, <1>6 DEF Apart

\* RunInv is inductive when the tasks of every pass are independent.
THEOREM RunInvariance ==
  ASSUME \A j \in Jobs : Independent(Programs[j])
  PROVE  RegionSpec => [](RunInv /\ Independent(program))
<1>1. Idle => RunInv /\ Independent(program)
  BY InitRun DEF Idle, Independent
<1>2. RunInv /\ Independent(program) /\ [RegionNext]_regionVars => (RunInv /\ Independent(program))'
  <2>1. RunInv /\ Independent(program) /\ [RegionNext]_regionVars => program' = program \/ \E j \in Jobs : program' = Programs[j]
    BY DEF RegionNext, Start, RefuseTask, Operate, Barrier, regionVars
  <2> QED BY <2>1, RunStep
<1> QED BY <1>1, <1>2, PTL DEF RegionSpec

\* However the operations of the goroutines interleave, a run without an error leaves in
\* the rows what the program leaves in them when it is carried out in order
\* (additive_regions.go:11-13, 194-227): for any program whose passes consist of
\* independent tasks, any rows, any contexts and any arithmetic of the rows.
THEOREM RunsAreSequential ==
  ASSUME \A j \in Jobs : Independent(Programs[j])
  PROVE  RegionSpec => []RunsInOrder
<1>1. RunInv /\ Independent(program) => RunsInOrder
  BY RunApart DEF RunInv, OrderHolds, RunsInOrder
<1> QED BY <1>1, RunInvariance, PTL

-----------------------------------------------------------------------------
\* The even part of a number.
LEMMA EvenPart ==
  ASSUME NEW x \in Int
  PROVE  Even(x) \in Int /\ Even(x) <= x /\ x - 1 <= Even(x) /\ Even(x) % 2 = 0
BY DEF Even

\* A prepared buffer holds its bytes and less than a stride more, and a longer range
\* takes no less.
LEMMA WholeStrides ==
  ASSUME NEW bytes \in Nat, NEW build, build.stride \in Nat \ {0}
  PROVE  BufSize(bytes, build) \in Nat /\ bytes <= BufSize(bytes, build) /\ BufSize(bytes, build) < bytes + build.stride
<1> DEFINE st == build.stride
<1> DEFINE x == bytes + st - 1
<1> DEFINE q == x \div st
<1>1. x \in Nat /\ st \in Nat \ {0}
  OBVIOUS
<1> HIDE DEF x, st
<1>2. q \in Int /\ st * q <= x /\ x - st < st * q
  BY <1>1, QuotientFits
<1> HIDE DEF q
<1>3. BufSize(bytes, build) = st * q
  <2>1. BufSize(bytes, build) = q * st
    BY DEF BufSize, q, x, st
  <2> QED BY <2>1, <1>1, <1>2
<1> DEFINE b == st * q
<1>4. b \in Int
  BY <1>1, <1>2
<1> HIDE DEF b
<1>5. b <= x /\ x - st < b
  BY <1>2 DEF b
<1>6. x = bytes + st - 1
  BY DEF x
<1>7. bytes <= b /\ b < bytes + st
  BY <1>1, <1>4, <1>5, <1>6
<1>8. BufSize(bytes, build) = b
  BY <1>3 DEF b
<1> QED BY <1>4, <1>7, <1>8 DEF st

LEMMA LongerTakesMore ==
  ASSUME NEW x \in Nat, NEW y \in Nat, x <= y, NEW build, build.stride \in Nat \ {0}
  PROVE  BufSize(x, build) <= BufSize(y, build)
<1> DEFINE st == build.stride
<1> DEFINE p == (x + st - 1) \div st
<1> DEFINE q == (y + st - 1) \div st
<1>0. st \in Nat \ {0}
  OBVIOUS
<1>1. p \in Int /\ st * p <= x + st - 1
  <2>1. x + st - 1 \in Int
    BY <1>0
  <2> QED BY <1>0, <2>1, QuotientFits
<1>2. q \in Int /\ y + st - 1 - st < st * q
  <2> DEFINE z == y + st - 1
  <2>1. z \in Int
    BY <1>0
  <2> HIDE DEF z
  <2>2. z \div st \in Int /\ z - st < st * (z \div st)
    BY <1>0, <2>1, QuotientFits
  <2> QED BY <2>2 DEF z, q
<1>3. BufSize(x, build) = p * st /\ BufSize(y, build) = q * st
  BY DEF BufSize
<1> HIDE DEF st, p, q
<1>4. p <= q
  <2> SUFFICES ASSUME q + 1 <= p PROVE FALSE
    BY <1>1, <1>2
  <2>1. st * (q + 1) <= st * p
    BY <1>0, <1>1, <1>2, TimesKeepsOrder
  <2>2. st * (q + 1) = st * q + st
    BY <1>0, <1>2
  <2> DEFINE a == st * p
  <2> DEFINE b == st * q
  <2>3. a \in Int /\ b \in Int
    BY <1>0, <1>1, <1>2
  <2> HIDE DEF a, b
  <2>4. b + st <= a /\ a <= x + st - 1 /\ y + st - 1 - st < b
    BY <2>1, <2>2, <1>1, <1>2 DEF a, b
  <2> QED BY <2>3, <2>4, <1>0
<1>5. st * p <= st * q
  BY <1>0, <1>1, <1>2, <1>4, TimesKeepsOrder
<1>6. st * p = p * st /\ st * q = q * st
  BY <1>0, <1>1, <1>2
<1> QED BY <1>3, <1>5, <1>6

\* A range cut to whole words and to the slice, and never to less than one word.
LEMMA CutRange ==
  ASSUME NEW slice \in Nat \ {0}, slice % 2 = 0, NEW x \in Int
  PROVE  LET chunk == Min({slice, Max({2, Even(x)})})
         IN  chunk \in 2..slice /\ chunk % 2 = 0 /\ (chunk = 2 \/ chunk <= x)
<1>1. Even(x) \in Int /\ Even(x) <= x /\ Even(x) % 2 = 0
  BY EvenPart
<1>2. slice >= 2
  OBVIOUS
<1> DEFINE e == Even(x)
<1> HIDE DEF e
<1>3. Max({2, e}) = IF 2 >= e THEN 2 ELSE e
  BY <1>1, MostOfTwo DEF e
<1> DEFINE m == Max({2, e})
<1>4. m \in Int /\ m % 2 = 0 /\ m >= 2 /\ (m = 2 \/ m <= x)
  BY <1>1, <1>3 DEF e
<1> HIDE DEF m
<1>5. Min({slice, m}) = IF slice <= m THEN slice ELSE m
  BY <1>4, LeastOfTwo
<1> DEFINE c == Min({slice, m})
<1>6. c \in 2..slice /\ c % 2 = 0 /\ (c = 2 \/ c <= x)
  BY <1>2, <1>4, <1>5
<1> QED BY <1>6 DEF m, e

\* A build's stride.
LEMMA BuildParts ==
  ASSUME NEW build \in Builds
  PROVE  build.accelerated \in BOOLEAN /\ build.stride \in Nat \ {0} /\ build.stride <= 4096
<1>1. \A b \in Builds : b.accelerated \in BOOLEAN /\ b.stride \in 1..4096
  BY SizingAssumption
<1> DEFINE st == build.stride
<1>2. build.accelerated \in BOOLEAN /\ st \in 1..4096
  BY <1>1
<1> HIDE DEF st
<1>3. st \in Nat \ {0} /\ st <= 4096
  BY <1>2
<1> QED BY <1>2, <1>3 DEF st

\* What the parts of a question to ChunkSize are.
LEMMA Parts ==
  ASSUME NEW d \in Dimensions, NEW slice \in Slices, NEW build \in Builds
  PROVE  /\ d.transform \in BOOLEAN /\ d.inputs \in Nat \ {0} /\ d.outputs \in Nat \ {0} /\ d.degree \in Nat
         /\ d.workers \in Nat \ {0} /\ d.budget \in Nat \ {0}
         /\ slice \in Nat \ {0} /\ slice % 2 = 0
         /\ build.accelerated \in BOOLEAN /\ build.stride \in Nat \ {0} /\ build.stride <= 4096
<1>1. /\ d.transform \in BOOLEAN /\ d.inputs \in Nat \ {0} /\ d.outputs \in Nat \ {0} /\ d.degree \in Nat
      /\ d.workers \in Nat \ {0} /\ d.budget \in Nat \ {0}
  BY DEF Dimensions
<1>2. slice \in Nat \ {0} /\ slice % 2 = 0
  BY SizingAssumption
<1>3. build.accelerated \in BOOLEAN /\ build.stride \in Nat \ {0} /\ build.stride <= 4096
  BY BuildParts
<1> QED BY <1>1, <1>2, <1>3

-----------------------------------------------------------------------------
\* A fold with a matrix: a batch is at most sixteen inputs, and lanes are at most a batch.
LEMMA SmallBatch ==
  ASSUME NEW d \in Dimensions, NEW w \in Nat \ {0}, NEW bytes \in Nat \ {0}
  PROVE  LET batch == Min({FoldBatch, d.inputs, Max({1, InputStaging \div (3 * bytes), d.outputs})})
             lanes == Min({batch, w})
         IN  batch \in Nat /\ batch <= 16 /\ lanes \in Nat /\ lanes <= batch
<1> DEFINE x == InputStaging \div (3 * bytes)
<1>1. x \in Int
  <2>1. 3 * bytes \in Nat \ {0} /\ InputStaging \in Int
    BY DEF InputStaging
  <2> QED BY <2>1, QuotientFits
<1> HIDE DEF x
<1>2. d.inputs \in Nat \ {0} /\ d.outputs \in Nat \ {0}
  BY DEF Dimensions
<1> DEFINE m == Max({1, x, d.outputs})
<1>3. m \in Int /\ m >= 1
  <2>1. \E y \in {1, x, d.outputs} : \A z \in {1, x, d.outputs} : y >= z
    BY <1>1, <1>2
  <2>2. m \in {1, x, d.outputs} /\ \A z \in {1, x, d.outputs} : m >= z
    BY <2>1 DEF Max
  <2> QED BY <2>2, <1>1, <1>2
<1> HIDE DEF m
<1> DEFINE b == Min({FoldBatch, d.inputs, m})
<1>4. b \in Nat /\ b <= 16
  <2>1. \E y \in {16, d.inputs, m} : \A z \in {16, d.inputs, m} : y <= z
    BY <1>2, <1>3
  <2>2. Min({16, d.inputs, m}) \in {16, d.inputs, m} /\ \A z \in {16, d.inputs, m} : Min({16, d.inputs, m}) <= z
    BY <2>1 DEF Min
  <2>3. b = Min({16, d.inputs, m})
    BY DEF FoldBatch
  <2> QED BY <2>2, <2>3, <1>2, <1>3
<1> HIDE DEF b
<1>5. Min({b, w}) = IF b <= w THEN b ELSE w
  BY <1>4, LeastOfTwo
<1>6. Min({b, w}) \in Nat /\ Min({b, w}) <= b
  BY <1>4, <1>5
<1> QED BY <1>4, <1>6 DEF b, m, x

\* Sums of products, each no more than its factors allow.
LEMMA TwoProducts ==
  ASSUME NEW o \in Nat, NEW b \in Nat, b <= 16, NEW l \in Nat, l <= b,
         NEW n \in Nat, NEW whole \in Nat, NEW m \in Nat, n <= m, whole <= m
  PROVE  /\ (o + 2 * b) * whole + (o + l + 1) * n \in Nat
         /\ (o + 2 * b) * whole + (o + l + 1) * n <= (2 * o + 49) * m
<1>1. whole * (o + 2 * b) <= whole * (o + 32) /\ n * (o + l + 1) <= n * (o + 17)
  <2>1. o + 2 * b \in Int /\ o + 32 \in Int /\ o + 2 * b <= o + 32 /\ o + l + 1 \in Int /\ o + 17 \in Int /\ o + l + 1 <= o + 17
    OBVIOUS
  <2> QED BY <2>1, TimesKeepsOrder
<1>2. (o + 32) * whole <= (o + 32) * m /\ (o + 17) * n <= (o + 17) * m
  BY TimesKeepsOrder
<1>3. /\ whole * (o + 2 * b) = (o + 2 * b) * whole /\ n * (o + l + 1) = (o + l + 1) * n
      /\ whole * (o + 32) = (o + 32) * whole /\ n * (o + 17) = (o + 17) * n
  OBVIOUS
<1>4. (o + 32) * m + (o + 17) * m = (2 * o + 49) * m
  OBVIOUS
<1> DEFINE p1 == (o + 2 * b) * whole
<1> DEFINE p2 == (o + l + 1) * n
<1> DEFINE q1 == (o + 32) * whole
<1> DEFINE q2 == (o + 17) * n
<1> DEFINE r1 == (o + 32) * m
<1> DEFINE r2 == (o + 17) * m
<1> DEFINE r == (2 * o + 49) * m
<1>5. p1 \in Nat /\ p2 \in Nat /\ q1 \in Nat /\ q2 \in Nat /\ r1 \in Nat /\ r2 \in Nat /\ r \in Nat
  OBVIOUS
<1>6. p1 <= q1 /\ p2 <= q2 /\ q1 <= r1 /\ q2 <= r2 /\ r1 + r2 = r
  BY <1>1, <1>2, <1>3, <1>4
<1> HIDE DEF p1, p2, q1, q2, r1, r2, r
<1>7. p1 + p2 \in Nat /\ p1 + p2 <= r
  BY ONLY <1>5, <1>6
<1> QED BY <1>7 DEF p1, p2, r

\* The SIMD fold takes no more than its buffers of the range and a stride each.
LEMMA AcceleratedBytes ==
  ASSUME NEW s, s.dims \in Dimensions, s.workers \in Nat \ {0}, NEW bytes \in Nat \ {0},
         s.build.stride \in Nat \ {0}, s.build.accelerated
  PROVE  MatrixFoldBytes(s, bytes) <= FoldBuffers(s.dims.outputs, s.build) * (bytes + s.build.stride)
<1> DEFINE d == s.dims
<1> DEFINE batch == Min({FoldBatch, d.inputs, Max({1, InputStaging \div (3 * bytes), d.outputs})})
<1> DEFINE lanes == Min({batch, s.workers})
<1> DEFINE whole == BufSize(bytes, s.build)
<1>1. batch \in Nat /\ batch <= 16 /\ lanes \in Nat /\ lanes <= batch
  BY SmallBatch
<1>2. whole \in Nat /\ whole <= bytes + s.build.stride
  BY WholeStrides
<1>3. MatrixFoldBytes(s, bytes) = (d.outputs + 2 * batch) * whole + (d.outputs + lanes + 1) * bytes
  BY DEF MatrixFoldBytes
<1>4. d.outputs \in Nat
  BY DEF Dimensions
<1>5. FoldBuffers(d.outputs, s.build) = 2 * d.outputs + 49
  BY DEF FoldBuffers
<1> DEFINE o == d.outputs
<1> DEFINE m == bytes + s.build.stride
<1> HIDE DEF batch, lanes, whole, o
<1>6. bytes <= m /\ m \in Nat /\ whole <= m
  BY <1>2
<1> HIDE DEF m
<1>7. (o + 2 * batch) * whole + (o + lanes + 1) * bytes <= (2 * o + 49) * m
  BY <1>1, <1>2, <1>4, <1>6, TwoProducts DEF o
<1> QED BY <1>3, <1>5, <1>7 DEF o, m

\* A chunk of a matrix plan is within the share of a buffer, and with SIMD a stride
\* short of it unless the share is small.
LEMMA MatrixChunk ==
  ASSUME NEW d \in Dimensions, NEW slice \in Slices, NEW build \in Builds
  PROVE  LET chunk == FoldChunkSize(d, slice, build)
             share == FoldShare(d, build)
         IN  /\ chunk \in 2..slice /\ chunk % 2 = 0
             /\ share \in Int /\ FoldBuffers(d.outputs, build) * share <= d.budget
             /\ chunk = 2 \/ chunk <= share
             /\ build.accelerated /\ share >= 8 * build.stride => chunk = 2 \/ chunk + build.stride <= share
<1> DEFINE n == FoldBuffers(d.outputs, build)
<1> DEFINE share == FoldShare(d, build)
<1>1. n \in Nat \ {0} /\ d.budget \in Nat
  BY Parts DEF FoldBuffers
<1> HIDE DEF n
<1>2. share \in Int /\ n * share <= d.budget /\ share >= 0
  <2>1. share = d.budget \div n
    BY DEF FoldShare, n
  <2>2. d.budget \div n \in Int /\ n * (d.budget \div n) <= d.budget
    <3> DEFINE budget == d.budget
    <3> HIDE DEF budget
    <3>1. budget \in Int
      BY <1>1 DEF budget
    <3>2. budget \div n \in Int /\ n * (budget \div n) <= budget
      BY <1>1, <3>1, QuotientFits
    <3> QED BY <3>2 DEF budget
  <2>3. share \in Nat
    BY <1>1, <2>1
  <2> QED BY <2>1, <2>2, <2>3
<1> DEFINE st == build.stride
<1> DEFINE per == IF build.accelerated THEN share - Min({4096, share \div 8}) ELSE share
<1>3. st \in Nat \ {0} /\ st <= 4096 /\ build.accelerated \in BOOLEAN /\ slice \in Nat \ {0} /\ slice % 2 = 0
      /\ d.outputs # 0
  BY Parts
<1>4. FoldChunkSize(d, slice, build) = Min({slice, Max({2, Even(per)})})
  BY <1>3 DEF FoldChunkSize
<1> HIDE DEF share
<1> DEFINE kept == Min({4096, share \div 8})
<1>5. kept \in Nat /\ (share >= 8 * st => kept >= st)
  <2> DEFINE eighth == share \div 8
  <2>1. eighth \in Nat /\ (share >= 8 * st => eighth >= st)
    BY <1>2, <1>3
  <2> HIDE DEF eighth
  <2>2. Min({4096, eighth}) = IF 4096 <= eighth THEN 4096 ELSE eighth
    BY <2>1, LeastOfTwo
  <2>3. Min({4096, eighth}) \in Nat /\ (share >= 8 * st => Min({4096, eighth}) >= st)
    BY <2>1, <2>2, <1>3
  <2> QED BY <2>3 DEF eighth
<1> HIDE DEF kept
<1>6. per = IF build.accelerated THEN share - kept ELSE share
  BY DEF kept
<1> HIDE DEF per
<1>7. per \in Int /\ per <= share /\ (build.accelerated /\ share >= 8 * st => per + st <= share)
  BY <1>2, <1>3, <1>5, <1>6
<1> DEFINE chunk == FoldChunkSize(d, slice, build)
<1>8. chunk \in 2..slice /\ chunk % 2 = 0 /\ (chunk = 2 \/ chunk <= per)
  BY <1>3, <1>4, <1>7, CutRange
<1> HIDE DEF chunk, st
<1>9. (chunk = 2 \/ chunk <= share)
      /\ (build.accelerated /\ share >= 8 * st => chunk = 2 \/ chunk + st <= share)
  <2>1. chunk \in Int
    BY <1>8
  <2> QED BY <2>1, <1>2, <1>3, <1>7, <1>8
<1> QED BY <1>2, <1>8, <1>9 DEF chunk, share, st, n

\* What a call on a chunk of a matrix plan takes, and on a shorter range.
LEMMA MatrixFits ==
  ASSUME NEW d \in Dimensions, NEW slice \in Slices, NEW build \in Builds, ~d.transform,
         NEW bytes \in 1..FoldChunkSize(d, slice, build), FoldChunkSize(d, slice, build) # 2
  PROVE  FoldBytes(Sized(d, slice, build), bytes) <= Allowed(Sized(d, slice, build))
<1> DEFINE s == Sized(d, slice, build)
<1> DEFINE chunk == FoldChunkSize(d, slice, build)
<1> DEFINE share == FoldShare(d, build)
<1> DEFINE n == FoldBuffers(d.outputs, build)
<1> DEFINE st == build.stride
<1>1. chunk \in 2..slice /\ chunk # 2 /\ chunk <= share /\ share \in Int /\ n * share <= d.budget
      /\ (build.accelerated /\ share >= 8 * st => chunk + st <= share)
  BY MatrixChunk
<1>2. s.dims = d /\ s.build = build /\ s.workers = d.workers
  BY DEF Sized
<1>3. st \in Nat \ {0} /\ n \in Nat \ {0} /\ d.budget \in Nat \ {0} /\ d.workers \in Nat \ {0} /\ d.outputs \in Nat \ {0}
      /\ build.accelerated \in BOOLEAN /\ slice \in Nat
  BY Parts DEF FoldBuffers
<1>4. bytes \in Nat \ {0} /\ bytes <= share /\ (build.accelerated /\ share >= 8 * st => bytes + st <= share)
  <2> HIDE DEF chunk, share, st
  <2>1. bytes \in 1..chunk
    BY DEF chunk
  <2> QED BY <2>1, <1>1, <1>3
<1>5. FoldBytes(s, bytes) = MatrixFoldBytes(s, bytes)
  BY <1>2 DEF FoldBytes
<1>6. Allowed(s) = IF build.accelerated /\ share < 8 * st THEN d.budget + n * st ELSE d.budget
  BY <1>2 DEF Allowed
<1>7. CASE build.accelerated
  <2>1. MatrixFoldBytes(s, bytes) <= n * (bytes + st)
    BY <1>2, <1>3, <1>4, <1>7, AcceleratedBytes
  <2>2. MatrixFoldBytes(s, bytes) \in Int
    <3> DEFINE batch == Min({FoldBatch, d.inputs, Max({1, InputStaging \div (3 * bytes), d.outputs})})
    <3> DEFINE lanes == Min({batch, s.workers})
    <3> DEFINE whole == BufSize(bytes, build)
    <3>1. batch \in Nat /\ lanes \in Nat
      BY <1>2, <1>3, <1>4, SmallBatch
    <3>2. whole \in Nat
      BY <1>3, <1>4, WholeStrides
    <3>3. MatrixFoldBytes(s, bytes) = (d.outputs + 2 * batch) * whole + (d.outputs + lanes + 1) * bytes
      BY <1>2, <1>7 DEF MatrixFoldBytes
    <3> HIDE DEF batch, lanes, whole
    <3> QED BY <3>1, <3>2, <3>3, <1>3, <1>4
  <2> DEFINE f == MatrixFoldBytes(s, bytes)
  <2> HIDE DEF f, s, share, n, st
  <2>3. CASE share < 8 * st
    <3>1. n * (bytes + st) <= n * (share + st)
      <4>1. bytes + st \in Int /\ share + st \in Int /\ bytes + st <= share + st
        BY <1>1, <1>3, <1>4
      <4> QED BY <4>1, <1>3, TimesKeepsOrder
    <3>2. n * (share + st) = n * share + n * st
      BY <1>1, <1>3
    <3>3. n * (bytes + st) \in Int /\ n * share \in Int /\ n * st \in Int
      BY <1>1, <1>3, <1>4
    <3>4. f <= d.budget + n * st
      BY <2>1, <2>2, <3>1, <3>2, <3>3, <1>1, <1>3 DEF f
    <3> QED BY <3>4, <1>5, <1>6, <1>7, <2>3 DEF f, s
  <2>4. CASE ~(share < 8 * st)
    <3>1. bytes + st \in Int /\ bytes + st <= share
      BY <2>4, <1>1, <1>3, <1>4, <1>7
    <3>2. n * (bytes + st) <= n * share
      BY <3>1, <1>1, <1>3, TimesKeepsOrder
    <3>3. n * (bytes + st) \in Int /\ n * share \in Int
      BY <1>1, <1>3, <1>4
    <3>4. f <= d.budget
      BY <2>1, <2>2, <3>2, <3>3, <1>1, <1>3 DEF f
    <3> QED BY <3>4, <1>5, <1>6, <2>4 DEF f, s
  <2> QED BY <2>3, <2>4
<1>8. CASE ~build.accelerated
  <2>1. n = d.outputs + 2
    BY <1>8 DEF FoldBuffers
  <2>2. MatrixFoldBytes(s, bytes) = n * bytes
    BY <1>2, <1>8, <2>1 DEF MatrixFoldBytes
  <2>3. n * bytes <= n * share
    BY <1>1, <1>3, <1>4, TimesKeepsOrder
  <2> HIDE DEF s, share, n, st
  <2>4. n * bytes <= d.budget
    <3>1. n * bytes \in Int /\ n * share \in Int
      BY <1>1, <1>3, <1>4
    <3> QED BY <3>1, <2>3, <1>1, <1>3
  <2> QED BY <1>5, <1>6, <1>8, <2>2, <2>4 DEF s
<1> QED BY <1>3, <1>7, <1>8

-----------------------------------------------------------------------------
\* Rows and bytes of a transform's workspace are numbers.
LEMMA WorkspaceParts ==
  ASSUME NEW d \in Dimensions, NEW build \in Builds
  PROVE  WorkspaceRows(d) \in Nat \ {0} /\ BufSize(StripeBytes, build) \in Nat
<1>1. d.degree \in Nat
  BY DEF Dimensions
<1>2. build.stride \in Nat \ {0}
  BY BuildParts
<1>3. BufSize(StripeBytes, build) \in Nat
  BY <1>2, WholeStrides DEF StripeBytes
<1>4. WorkspaceRows(d) \in Nat \ {0}
  BY <1>1 DEF WorkspaceRows
<1> QED BY <1>3, <1>4

\* Several workers are used only where the budget holds a stripe for each; one or more
\* always are, and only one for a slice within a stripe.
LEMMA WorkersFit ==
  ASSUME NEW d \in Dimensions, NEW slice \in Slices, NEW build \in Builds
  PROVE  LET folders == TransformWorkers(d, slice, build)
             each == WorkspaceRows(d) * BufSize(StripeBytes, build) + (d.inputs + d.outputs) * StripeBytes
         IN  folders \in Nat \ {0} /\ (folders > 1 => each * folders <= d.budget)
<1> DEFINE p == WorkspaceRows(d) * BufSize(StripeBytes, build)
<1> DEFINE each == p + (d.inputs + d.outputs) * StripeBytes
<1> DEFINE stripes == 1 + (slice - 1) \div StripeBytes
<1> DEFINE fits == d.budget \div each
<1>1. d.workers \in Nat \ {0} /\ d.budget \in Nat /\ d.inputs \in Nat \ {0} /\ d.outputs \in Nat \ {0} /\ slice \in Nat \ {0}
  BY Parts
<1>2. p \in Nat
  <2> DEFINE x == WorkspaceRows(d)
  <2> DEFINE y == BufSize(StripeBytes, build)
  <2>1. x \in Nat /\ y \in Nat
    BY WorkspaceParts
  <2> HIDE DEF x, y
  <2>2. x * y \in Nat
    BY <2>1
  <2> QED BY <2>2 DEF x, y
<1> HIDE DEF p
<1>3. each \in Nat \ {0}
  <2> DEFINE rows == d.inputs + d.outputs
  <2>1. rows \in Nat \ {0}
    BY <1>1
  <2> HIDE DEF rows
  <2>2. p + rows * 256 \in Nat \ {0}
    BY <1>2, <2>1
  <2> QED BY <2>2 DEF rows, StripeBytes
<1>4. stripes \in Nat \ {0}
  <2> DEFINE x == slice - 1
  <2>1. x \in Nat
    BY <1>1
  <2> HIDE DEF x
  <2>2. x \div 256 \in Nat
    BY <2>1
  <2> QED BY <2>2 DEF x, StripeBytes
<1>5. fits \in Int /\ each * fits <= d.budget
  <2> DEFINE budget == d.budget
  <2> HIDE DEF each, budget
  <2>1. budget \in Int
    BY <1>1 DEF budget
  <2>2. budget \div each \in Int /\ each * (budget \div each) <= budget
    BY <1>3, <2>1, QuotientFits
  <2> QED BY <2>2 DEF budget
<1> HIDE DEF stripes, fits
<1>6. Max({1, fits}) = IF 1 >= fits THEN 1 ELSE fits
  BY <1>5, MostOfTwo
<1> DEFINE m == Max({1, fits})
<1> DEFINE w == Min({d.workers, stripes, m})
<1>7. m \in Nat \ {0} /\ (m > 1 => m = fits)
  BY <1>5, <1>6
<1> HIDE DEF m
<1>8. w \in {d.workers, stripes, m} /\ w <= m
  <2>1. \E y \in {d.workers, stripes, m} : \A z \in {d.workers, stripes, m} : y <= z
    BY <1>1, <1>4, <1>7
  <2>2. w \in {d.workers, stripes, m} /\ \A z \in {d.workers, stripes, m} : w <= z
    BY <2>1 DEF Min
  <2> QED BY <2>2
<1> HIDE DEF w
<1>9. w \in Nat \ {0} /\ (w > 1 => w <= fits)
  BY <1>1, <1>4, <1>5, <1>7, <1>8
<1>10. ASSUME w > 1 PROVE each * w <= d.budget
  <2> HIDE DEF each
  <2>1. each * w <= each * fits
    BY <1>3, <1>5, <1>9, <1>10, TimesKeepsOrder
  <2>2. each * w \in Int /\ each * fits \in Int
    BY <1>3, <1>5, <1>9
  <2> QED BY <2>1, <2>2, <1>1, <1>5
<1>11. TransformWorkers(d, slice, build) = w
  BY DEF TransformWorkers, w, m, fits, stripes, p
<1> QED BY <1>9, <1>10, <1>11 DEF p

\* A fold of a range by one worker takes no less for a longer range.
LEMMA RangeGrows ==
  ASSUME NEW d \in Dimensions, NEW build \in Builds, NEW x \in Nat, NEW y \in Nat, x <= y
  PROVE  /\ RangeBytes(d, x, build) \in Nat /\ RangeBytes(d, y, build) \in Nat
         /\ RangeBytes(d, x, build) <= RangeBytes(d, y, build)
<1> DEFINE r == WorkspaceRows(d)
<1> DEFINE a == BufSize(x, build)
<1> DEFINE b == BufSize(y, build)
<1> DEFINE o == d.outputs
<1>1. o \in Nat /\ r \in Nat
  BY WorkspaceParts DEF Dimensions
<1>2. a \in Nat /\ b \in Nat /\ a <= b
  <2>1. build.stride \in Nat \ {0}
    BY BuildParts
  <2> QED BY <2>1, WholeStrides, LongerTakesMore
<1>3. RangeBytes(d, x, build) = r * a + o * x /\ RangeBytes(d, y, build) = r * b + o * y
  BY DEF RangeBytes
<1> HIDE DEF r, a, b, o
<1>4. r * a <= r * b /\ o * x <= o * y
  BY <1>1, <1>2, TimesKeepsOrder
<1>5. r * a \in Nat /\ r * b \in Nat /\ o * x \in Nat /\ o * y \in Nat
  BY <1>1, <1>2
<1> DEFINE ra == r * a
<1> DEFINE rb == r * b
<1> DEFINE ox == o * x
<1> DEFINE oy == o * y
<1> HIDE DEF ra, rb, ox, oy
<1>6. ra + ox \in Nat /\ rb + oy \in Nat /\ ra + ox <= rb + oy
  BY <1>4, <1>5 DEF ra, rb, ox, oy
<1> QED BY <1>3, <1>6 DEF ra, rb, ox, oy

\* A candidate that fits, or the least one, is always found.
LEMMA NarrowedFits ==
  ASSUME NEW d \in Dimensions, NEW build \in Builds, NEW first \in Nat, first >= 2, first % 2 = 0
  PROVE  LET chunk == Narrowed(d, first, build)
         IN  chunk \in 2..first /\ chunk % 2 = 0 /\ (chunk = 2 \/ RangeBytes(d, chunk, build) <= d.budget)
<1> DEFINE step == build.stride + (build.stride % 2)
<1> DEFINE C == Shorter(first, build)
<1> DEFINE F == {c \in C : RangeBytes(d, c, build) <= d.budget \/ c <= 2}
<1>1. step \in Nat \ {0} /\ step % 2 = 0
  <2>1. build.stride \in Nat \ {0}
    BY BuildParts
  <2> QED BY <2>1
<1>2. C = {Max({2, first - k * step}) : k \in 0..first}
  BY DEF Shorter
<1> HIDE DEF step, C
<1>3. ASSUME NEW k \in 0..first
      PROVE  /\ Max({2, first - k * step}) \in 2..first /\ Max({2, first - k * step}) % 2 = 0
             /\ first - k * step <= 2 => Max({2, first - k * step}) = 2
  <2>1. k * step \in Nat /\ (k * step) % 2 = 0
    <3>1. PICK h \in Int : step = 2 * h
      BY <1>1, Multiples
    <3>2. k * step = 2 * (k * h) /\ k * h \in Int /\ k * step \in Nat
      BY <3>1, <1>1
    <3> DEFINE x == k * h
    <3> DEFINE y == k * step
    <3> HIDE DEF x, y
    <3>3. y = 2 * x /\ x \in Int /\ y \in Nat
      BY <3>2 DEF x, y
    <3>4. y % 2 = 0
      BY <3>3
    <3> QED BY <3>3, <3>4 DEF y
  <2> DEFINE x == k * step
  <2> HIDE DEF x
  <2>2. x \in Nat /\ x % 2 = 0
    BY <2>1 DEF x
  <2>3. first - x \in Int /\ first - x <= first /\ (first - x) % 2 = 0
    BY <2>2
  <2>4. Max({2, first - x}) = IF 2 >= first - x THEN 2 ELSE first - x
    BY <2>3, MostOfTwo
  <2>5. Max({2, first - x}) \in 2..first /\ Max({2, first - x}) % 2 = 0 /\ (first - x <= 2 => Max({2, first - x}) = 2)
    BY <2>2, <2>3, <2>4
  <2> QED BY <2>5 DEF x
<1>4. \A c \in C : c \in 2..first /\ c % 2 = 0
  BY <1>2, <1>3
<1>5. 2 \in C
  <2>1. first - first * step <= 2
    <3>1. first * 1 <= first * step
      BY <1>1, TimesKeepsOrder
    <3>2. first * step \in Nat /\ first * 1 = first
      BY <1>1
    <3> QED BY <3>1, <3>2
  <2>2. Max({2, first - first * step}) = 2
    BY <2>1, <1>3
  <2>3. first \in 0..first
    OBVIOUS
  <2>4. Max({2, first - first * step}) \in C
    BY <1>2, <2>3
  <2> QED BY <2>2, <2>4
<1>6. F \in SUBSET Nat /\ F # {} /\ \A c \in F : c <= first
  BY <1>4, <1>5
<1>7. \E c \in F : \A e \in F : e <= c
  <2> HIDE DEF F
  <2> QED BY <1>6, Greatest
<1>8. \E c \in F : \A e \in F : c >= e
  <2> HIDE DEF F
  <2> QED BY <1>6, <1>7
<1>9. Narrowed(d, first, build) = Max(F)
  BY DEF Narrowed, C
<1>10. Max(F) \in F
  <2> HIDE DEF F
  <2> QED BY <1>8 DEF Max
<1>11. Narrowed(d, first, build) \in C
       /\ (RangeBytes(d, Narrowed(d, first, build), build) <= d.budget \/ Narrowed(d, first, build) <= 2)
  BY <1>9, <1>10
<1> DEFINE c == Narrowed(d, first, build)
<1>12. c \in 2..first /\ c % 2 = 0
  BY <1>4, <1>11
<1>13. c = 2 \/ RangeBytes(d, c, build) <= d.budget
  <2> HIDE DEF c
  <2>1. RangeBytes(d, c, build) <= d.budget \/ c <= 2
    BY <1>11 DEF c
  <2> QED BY <2>1, <1>12
<1> QED BY <1>12, <1>13

\* Several workers fold a range within the budget: the bank and the rows from what the
\* workspaces leave of it, and a range within a stripe from one worker's part.
LEMMA SeveralFit ==
  ASSUME NEW d \in Dimensions, NEW slice \in Slices, NEW build \in Builds, d.transform,
         TransformWorkers(d, slice, build) > 1, slice > StripeBytes
  PROVE  LET chunk == TransformChunk(d, slice, build)
         IN  /\ chunk \in 2..slice /\ chunk % 2 = 0
             /\ chunk = 2 \/ \A bytes \in 1..chunk : TransformFoldBytes(Sized(d, slice, build), bytes) <= d.budget
<1> DEFINE w == TransformWorkers(d, slice, build)
<1> DEFINE p == WorkspaceRows(d) * BufSize(StripeBytes, build)
<1> DEFINE rows == d.inputs + d.outputs
<1> DEFINE budget == d.budget
<1> DEFINE share == (budget - w * WorkspaceRows(d) * BufSize(StripeBytes, build)) \div rows
<1> DEFINE paged == IF share < slice /\ share >= PageBytes THEN share - (share % PageBytes) ELSE share
<1>1. budget \in Nat \ {0} /\ rows \in Nat \ {0} /\ slice \in Nat \ {0} /\ slice % 2 = 0 /\ d.outputs \in Nat /\ d.inputs \in Nat
  BY Parts
<1>2. p \in Nat /\ w * WorkspaceRows(d) * BufSize(StripeBytes, build) = w * p
  <2> DEFINE x == WorkspaceRows(d)
  <2> DEFINE y == BufSize(StripeBytes, build)
  <2>1. x \in Nat /\ y \in Nat
    BY WorkspaceParts
  <2>2. w \in Nat
    BY WorkersFit
  <2> HIDE DEF x, y, w
  <2>3. x * y \in Nat /\ w * x * y = w * (x * y)
    BY <2>1, <2>2
  <2> QED BY <2>3 DEF x, y
<1>3. w \in Nat \ {0} /\ w > 1 /\ (p + rows * StripeBytes) * w <= budget
  BY WorkersFit
<1>4. TransformChunk(d, slice, build) = Min({slice, Max({2, Even(paged)})})
  BY DEF TransformChunk
<1>5. share = (budget - w * p) \div rows
  BY <1>2
<1>6. RangeBytes(d, StripeBytes, build) = p + d.outputs * StripeBytes
  BY DEF RangeBytes
<1>7. ASSUME NEW bytes \in Nat \ {0}
      PROVE  TransformFoldBytes(Sized(d, slice, build), bytes) =
               IF bytes > StripeBytes THEN w * p + rows * bytes ELSE RangeBytes(d, bytes, build)
  <2>1. Sized(d, slice, build).workers = w /\ Sized(d, slice, build).dims = d /\ Sized(d, slice, build).build = build
    BY DEF Sized
  <2>2. CASE bytes > StripeBytes
    BY <1>3, <2>1, <2>2 DEF TransformFoldBytes
  <2>3. CASE ~(bytes > StripeBytes)
    BY <2>1, <2>3 DEF TransformFoldBytes
  <2> QED BY <2>2, <2>3
<1> HIDE DEF w, p, rows, budget, share
<1>8. share \in Int /\ rows * share <= budget - w * p
  <2> DEFINE x == budget - w * p
  <2>1. x \in Int
    BY <1>1, <1>2, <1>3
  <2> HIDE DEF x
  <2>2. x \div rows \in Int /\ rows * (x \div rows) <= x
    BY <2>1, <1>1, QuotientFits
  <2> QED BY <2>2, <1>5 DEF x
<1>9. paged \in Int /\ paged <= share
  <2>1. share % 4096 \in 0..4095
    BY <1>8
  <2>2. share - (share % 4096) \in Int /\ share - (share % 4096) <= share
    BY <2>1, <1>8
  <2> QED BY <2>2, <1>8 DEF PageBytes
<1> HIDE DEF paged
<1> DEFINE chunk == TransformChunk(d, slice, build)
<1>10. chunk \in 2..slice /\ chunk % 2 = 0 /\ (chunk = 2 \/ chunk <= paged)
  BY <1>1, <1>4, <1>9, CutRange
<1> HIDE DEF chunk
<1>11. ASSUME chunk # 2, NEW bytes \in 1..chunk
       PROVE  TransformFoldBytes(Sized(d, slice, build), bytes) <= budget
  <2>1. bytes \in Nat \ {0} /\ bytes <= share
    BY <1>1, <1>8, <1>9, <1>10, <1>11
  <2>2. CASE bytes > StripeBytes
    <3>1. rows * bytes <= rows * share
      BY <2>1, <1>1, <1>8, TimesKeepsOrder
    <3>2. rows * bytes \in Int /\ rows * share \in Int /\ w * p \in Int
      BY <2>1, <1>1, <1>2, <1>3, <1>8
    <3>3. w * p + rows * bytes <= budget
      BY <3>1, <3>2, <1>1, <1>8
    <3> QED BY <3>3, <2>1, <2>2, <1>7
  <2>3. CASE ~(bytes > StripeBytes)
    <3>1. RangeBytes(d, bytes, build) \in Nat
          /\ RangeBytes(d, bytes, build) <= RangeBytes(d, StripeBytes, build)
      <4>1. StripeBytes \in Nat /\ bytes <= StripeBytes
        BY <2>1, <2>3 DEF StripeBytes
      <4> QED BY <2>1, <4>1, RangeGrows
    <3> DEFINE each == p + rows * StripeBytes
    <3>2. p + d.outputs * StripeBytes <= each /\ each \in Nat /\ p + d.outputs * StripeBytes \in Nat
      <4>1. d.outputs <= rows
        BY <1>1 DEF rows
      <4> DEFINE o == d.outputs
      <4>2. o \in Nat /\ o <= rows
        BY <1>1, <4>1
      <4> HIDE DEF o
      <4>3. p + o * 256 <= p + rows * 256 /\ p + rows * 256 \in Nat /\ p + o * 256 \in Nat
        BY <1>1, <1>2, <4>2
      <4> QED BY <4>3 DEF o, StripeBytes
    <3> HIDE DEF each
    <3>3. each <= each * w
      <4>1. each * 1 <= each * w
        BY <1>3, <3>2, TimesKeepsOrder
      <4> QED BY <4>1, <3>2
    <3>4. each * w <= budget /\ each * w \in Nat
      BY <1>3, <3>2 DEF each
    <3> DEFINE x == RangeBytes(d, bytes, build)
    <3> DEFINE y == RangeBytes(d, StripeBytes, build)
    <3>5. x \in Nat /\ x <= y /\ y \in Nat /\ y <= each
      BY <3>1, <3>2, <1>6
    <3> DEFINE z == each * w
    <3> HIDE DEF x, y, z
    <3>6. x <= budget
      BY <3>2, <3>3, <3>4, <3>5, <1>1 DEF z
    <3> QED BY <3>6, <2>1, <2>3, <1>7 DEF x
  <2> QED BY <2>2, <2>3
<1> QED BY <1>10, <1>11 DEF chunk, budget

\* One worker narrows its range until its workspace and the rows fit.
LEMMA OneFits ==
  ASSUME NEW d \in Dimensions, NEW slice \in Slices, NEW build \in Builds, d.transform,
         ~(TransformWorkers(d, slice, build) > 1 /\ slice > StripeBytes)
  PROVE  LET chunk == TransformChunk(d, slice, build)
         IN  /\ chunk \in 2..slice /\ chunk % 2 = 0
             /\ chunk = 2 \/ \A bytes \in 1..chunk : TransformFoldBytes(Sized(d, slice, build), bytes) <= d.budget
<1> DEFINE x == (d.budget \div (WorkspaceRows(d) + d.outputs)) - 128
<1> DEFINE first == Min({slice, Max({2, Even(x)})})
<1> DEFINE chunk == TransformChunk(d, slice, build)
<1>1. d.budget \in Nat \ {0} /\ slice \in Nat \ {0} /\ slice % 2 = 0 /\ d.outputs \in Nat
  BY Parts
<1>2. x \in Int
  <2> DEFINE n == WorkspaceRows(d) + d.outputs
  <2> DEFINE budget == d.budget
  <2>1. n \in Nat \ {0} /\ budget \in Int
    BY <1>1, WorkspaceParts
  <2> HIDE DEF n, budget
  <2>2. budget \div n \in Int
    BY <2>1, QuotientFits
  <2>3. (budget \div n) - 128 \in Int
    BY <2>2
  <2> QED BY <2>3 DEF n, budget
<1>3. chunk = Narrowed(d, first, build)
  BY DEF TransformChunk
<1> HIDE DEF x
<1>4. first \in 2..slice /\ first % 2 = 0
  BY <1>1, <1>2, CutRange
<1> HIDE DEF first, chunk
<1>5. chunk \in 2..slice /\ chunk % 2 = 0 /\ (chunk = 2 \/ RangeBytes(d, chunk, build) <= d.budget)
  <2>1. first \in Nat /\ first >= 2
    BY <1>1, <1>4
  <2>2. chunk \in 2..first /\ chunk % 2 = 0 /\ (chunk = 2 \/ RangeBytes(d, chunk, build) <= d.budget)
    BY <2>1, <1>3, <1>4, NarrowedFits
  <2> QED BY <2>1, <2>2, <1>1, <1>4
<1>6. ASSUME chunk # 2, NEW bytes \in 1..chunk
      PROVE  TransformFoldBytes(Sized(d, slice, build), bytes) <= d.budget
  <2> DEFINE s == Sized(d, slice, build)
  <2>1. s.workers = TransformWorkers(d, slice, build) /\ s.dims = d /\ s.build = build
    BY DEF Sized
  <2>2. bytes \in Nat /\ chunk \in Nat /\ bytes <= chunk /\ bytes <= slice
    BY <1>1, <1>5, <1>6
  <2>3. ~(s.workers > 1 /\ bytes > StripeBytes)
    <3>1. bytes > StripeBytes => slice > StripeBytes
      BY <2>2, <1>1 DEF StripeBytes
    <3> QED BY <3>1, <2>1
  <2>4. TransformFoldBytes(s, bytes) = RangeBytes(d, bytes, build)
    BY <2>1, <2>3 DEF TransformFoldBytes
  <2> DEFINE y == RangeBytes(d, bytes, build)
  <2> DEFINE z == RangeBytes(d, chunk, build)
  <2>5. y \in Nat /\ z \in Nat /\ y <= z
    BY <2>2, RangeGrows
  <2>6. z <= d.budget
    BY <1>5, <1>6
  <2> HIDE DEF y, z, s
  <2>7. y <= d.budget
    BY <2>5, <2>6, <1>1
  <2> QED BY <2>4, <2>7 DEF y, s
<1> QED BY <1>5, <1>6 DEF chunk

-----------------------------------------------------------------------------
\* Whatever plan is asked, for whatever slice, budget and build of gf16: the chunk is a
\* whole number of words within the slice, and no call on it, nor on the shorter range
\* that ends a slice, takes more than the budget allows (par2_plan.go:70-135).
THEOREM ChunksFit == SizingSpec => []ChunkFits
<1>1. ASSUME NEW d \in Dimensions, NEW slice \in Slices, NEW build \in Builds, sized' = Sized(d, slice, build)
      PROVE  ChunkFits'
  <2> DEFINE s == Sized(d, slice, build)
  <2> DEFINE chunk == IF d.transform THEN TransformChunk(d, slice, build) ELSE FoldChunkSize(d, slice, build)
  <2>1. s.dims = d /\ s.build = build /\ s.slice = slice /\ s.chunk = chunk
    BY DEF Sized
  <2>2. slice \in Nat \ {0} /\ d.transform \in BOOLEAN
    BY Parts
  <2>3. chunk \in 2..slice /\ chunk % 2 = 0
        /\ (chunk = 2 \/ \A bytes \in 1..chunk : FoldBytes(s, bytes) <= Allowed(s))
    <3>1. CASE d.transform
      <4>1. Allowed(s) = d.budget /\ \A bytes : FoldBytes(s, bytes) = TransformFoldBytes(s, bytes)
        BY <2>1, <3>1 DEF Allowed, FoldBytes
      <4>2. CASE TransformWorkers(d, slice, build) > 1 /\ slice > StripeBytes
        BY <4>1, <4>2, <3>1, SeveralFit
      <4>3. CASE ~(TransformWorkers(d, slice, build) > 1 /\ slice > StripeBytes)
        BY <4>1, <4>3, <3>1, OneFits
      <4> QED BY <4>2, <4>3
    <3>2. CASE ~d.transform
      <4>1. chunk = FoldChunkSize(d, slice, build)
        BY <3>2
      <4>2. chunk \in 2..slice /\ chunk % 2 = 0
        BY <4>1, MatrixChunk
      <4>3. chunk = 2 \/ \A bytes \in 1..chunk : FoldBytes(s, bytes) <= Allowed(s)
        BY <4>1, <3>2, MatrixFits
      <4> QED BY <4>2, <4>3
    <3> QED BY <3>1, <3>2
  <2> HIDE DEF s, chunk
  <2>4. slice % chunk = 0 \/ slice % chunk \in 1..chunk
    BY <2>2, <2>3
  <2>5. chunk \in 1..chunk
    BY <2>2, <2>3
  <2>6. /\ s.chunk \in 2..s.slice /\ s.chunk % 2 = 0
        /\ \/ s.chunk = 2
           \/ /\ FoldBytes(s, s.chunk) <= Allowed(s)
              /\ s.slice % s.chunk = 0 \/ FoldBytes(s, s.slice % s.chunk) <= Allowed(s)
    BY <2>1, <2>3, <2>4, <2>5
  <2>7. sized' = s
    BY <1>1 DEF s
  <2> QED BY <2>6, <2>7 DEF ChunkFits
<1>2. sized = Unsized => ChunkFits
  BY DEF ChunkFits
<1>3. ChunkFits /\ [\/ sized' = Unsized
                   \/ \E d \in Dimensions, slice \in Slices, build \in Builds : AskChunkSize(d, slice, build)]_sized
        => ChunkFits'
  <2> SUFFICES ASSUME ChunkFits,
                      [\/ sized' = Unsized
                       \/ \E d \in Dimensions, slice \in Slices, build \in Builds : AskChunkSize(d, slice, build)]_sized
               PROVE  ChunkFits'
    OBVIOUS
  <2>1. CASE sized' = Unsized
    BY <2>1 DEF ChunkFits
  <2>2. CASE \E d \in Dimensions, slice \in Slices, build \in Builds : AskChunkSize(d, slice, build)
    BY <2>2, <1>1 DEF AskChunkSize
  <2>3. CASE UNCHANGED sized
    BY <2>3 DEF ChunkFits
  <2> QED BY <2>1, <2>2, <2>3
<1> QED BY <1>2, <1>3, PTL DEF SizingSpec
===============================================================================
