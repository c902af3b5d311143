--------------------------- MODULE FoldInputsPureGo ---------------------------
(***************************************************************************)
(* rsec16.foldInputsPureGo (rsec16/fold.go, 293-341): the fold without the  *)
(* SIMD backend.  Input j+1 is read into the second of two buffers while    *)
(* goroutines fold input j into disjoint rows of out, which double as the   *)
(* accumulators.                                                            *)
(*                                                                          *)
(* Inputs are numbered from 0, as in the code.  A row is the sequence of    *)
(* <<column, input>> products folded into it.                               *)
(***************************************************************************)
EXTENDS Naturals, Sequences

CONSTANTS
  NumInputs, NumRows,
  NumGoroutines,
  MayRefuse         \* inputs for which next may return an error

Rows       == 1..NumRows
WorkerCount == IF NumGoroutines > NumRows THEN NumRows ELSE NumGoroutines
Workers    == 1..WorkerCount
Blank      == NumInputs    \* no input: what a cleared buffer holds

\* What a caller guarantees; assumed where the constants get their values.
FoldAssumption ==
  /\ NumInputs \in Nat \ {0} /\ NumRows \in Nat \ {0} /\ NumGoroutines \in Nat \ {0}
  /\ MayRefuse \subseteq 0..(NumInputs - 1)

VARIABLES
  main,             \* where the calling goroutine is
  j, cur,           \* input the loop is at, buffer it was read into
  bufs,             \* the two raw buffers
  reading, ask,     \* the reading goroutine is alive, and the input it reads
  ready,            \* the channel: nothing, or a buffer and an error flag
  todo,             \* per worker goroutine: rows it still has to fold
  out, outcome, refused

vars == <<main, j, cur, bufs, reading, ask, ready, todo, out, outcome, refused>>

SumOf(m) == [c \in 1..m |-> <<c - 1, c - 1>>]
Stale    == <<<<Blank, Blank>>>>     \* what a caller's row held before

-----------------------------------------------------------------------------
Init ==
  /\ main = "called" /\ j = 0 /\ cur = 0
  /\ bufs = [b \in {0, 1} |-> Blank]
  /\ reading = FALSE /\ ask = 0 /\ ready = {}
  /\ todo = [w \in Workers |-> {}]
  /\ out = [i \in Rows |-> Stale]
  /\ outcome = "running" /\ refused = FALSE

\* The rows are cleared and the first read is started.
Enter ==
  /\ main = "called" /\ main' = "receive"
  /\ out' = [i \in Rows |-> <<>>]
  /\ reading' = TRUE /\ ask' = 0
  /\ UNCHANGED <<j, cur, bufs, ready, todo, outcome, refused>>

More == j + 1 < NumInputs

\* Both reads share a buffer.
OneBuffer(i) == 0
Buffer(i) == i % 2

\* read: fill the buffer, send it; the channel has room for it.
Read ==
  /\ reading /\ ready = {} /\ reading' = FALSE
  /\ \/ /\ bufs' = [bufs EXCEPT ![Buffer(ask)] = ask]
        /\ ready' = {[buf |-> Buffer(ask), err |-> FALSE]}
        /\ UNCHANGED refused
     \/ /\ ask \in MayRefuse
        /\ bufs' = [bufs EXCEPT ![Buffer(ask)] = Blank]
        /\ ready' = {[buf |-> Buffer(ask), err |-> TRUE]}
        /\ refused' = TRUE
  /\ UNCHANGED <<main, j, cur, ask, todo, out, outcome>>

\* The rows are shared out one short.
StrideShort(w) == {i \in Rows : i # NumRows /\ (i - w) % WorkerCount = 0}
Stride(w) == {i \in Rows : (i - w) % WorkerCount = 0}

\* Input j has been read: its successor is asked for and a goroutine per worker
\* folds it, or the call fails.
Receive(r) ==
  /\ main = "receive" /\ ready' = {}
  /\ IF r.err
     THEN main' = "returned" /\ outcome' = "error" /\ UNCHANGED <<cur, reading, ask, todo>>
     ELSE /\ main' = "fold" /\ cur' = r.buf
          /\ IF More THEN reading' = TRUE /\ ask' = j + 1
                     ELSE UNCHANGED <<reading, ask>>
          /\ todo' = [w \in Workers |-> Stride(w)]
          /\ UNCHANGED outcome
  /\ UNCHANGED <<j, bufs, out, refused>>

FoldRow(w) ==
  /\ main = "fold"
  /\ \E i \in todo[w] :
       /\ \A h \in todo[w] : i <= h
       /\ out' = [out EXCEPT ![i] = Append(@, <<j, bufs[cur]>>)]
       /\ todo' = [todo EXCEPT ![w] = @ \ {i}]
  /\ UNCHANGED <<main, j, cur, bufs, reading, ask, ready, outcome, refused>>

AllFolded == \A w \in Workers : todo[w] = {}

\* wg.Wait, and the next round of the loop.
EndFold ==
  /\ main = "fold" /\ AllFolded
  /\ IF More THEN main' = "receive" /\ j' = j + 1 /\ UNCHANGED outcome
             ELSE main' = "returned" /\ outcome' = "ok" /\ UNCHANGED j
  /\ UNCHANGED <<cur, bufs, reading, ask, ready, todo, out, refused>>

Next ==
  \/ Enter \/ Read \/ EndFold
  \/ \E r \in ready : Receive(r)
  \/ \E w \in Workers : FoldRow(w)

Spec == Init /\ [][Next]_vars
\* Every goroutine is eventually scheduled, and next returns.
FairSpec == Spec /\ WF_vars(Next)

\* The reading goroutine never fills the buffer that is being folded
\* ("Distinct buffer from the one being folded", fold.go:320-321).
BufferIsQuiet == main = "fold" /\ (\E w \in Workers : todo[w] # {}) /\ reading => Buffer(ask) # cur

\* When the call returns, early too, no goroutine of it is left reading.
NoneLeft == main = "returned" => ~reading /\ ready = {} /\ AllFolded

\* The call returns, whichever read fails.
Returns == <>(main = "returned")

\* The fold implements the promise of FoldInputs, whose rows it accumulates in
\* place: it succeeds only with every row whole, fails only on a refused input,
\* and leaves the rows alone once it has returned.
Promise == INSTANCE FoldInputs WITH whole <- {i \in Rows : out[i] = SumOf(NumInputs)}
KeepsPromise == Promise!SumSpec
===============================================================================
