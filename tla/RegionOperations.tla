--------------------------- MODULE RegionOperations ---------------------------
(***************************************************************************)
(* The operations of region programs (gf16/operations.go), over any sums    *)
(* and products.  A program is a sequence of passes, a pass a sequence of   *)
(* tasks that may run side by side, a task a sequence of operations that    *)
(* run in order (rsec16/additive_regions.go 11-14).                         *)
(***************************************************************************)
EXTENDS Naturals, Sequences

CONSTANTS
  RowPlus(_, _),   \* the sum of two rows
  RowTimes(_, _)   \* a row multiplied by a coefficient

Op(kind, dst, src, c) == [kind |-> kind, dst |-> dst, src |-> src, coeff |-> c]
ButterflyKinds == {"butterfly", "inverse"}
OpKinds == {"add", "scale", "clear"} \cup ButterflyKinds

\* What an operation leaves in the rows v.
Applied(v, op) ==
  LET d == op.dst  s == op.src  c == op.coeff
      high == RowPlus(v[s], IF op.kind = "inverse" THEN v[d] ELSE RowPlus(v[d], RowTimes(c, v[s])))
  IN  CASE op.kind = "add" -> [v EXCEPT ![d] = RowPlus(@, RowTimes(c, v[s]))]
        [] op.kind = "scale" -> [v EXCEPT ![d] = RowTimes(c, v[s])]
        [] op.kind = "clear" -> [v EXCEPT ![d] = 0]
        [] op.kind = "butterfly" -> [v EXCEPT ![d] = RowPlus(@, RowTimes(c, v[s])), ![s] = high]
        [] op.kind = "inverse" -> [v EXCEPT ![s] = high, ![d] = RowPlus(@, RowTimes(c, high))]

\* The rows that an operation writes, and those that it reads or writes.
OpWrites(op) == IF op.kind \in ButterflyKinds THEN {op.dst, op.src} ELSE {op.dst}
OpTouches(op) == IF op.kind = "clear" THEN {op.dst} ELSE {op.dst, op.src}
Written(ops) == UNION {OpWrites(ops[x]) : x \in DOMAIN ops}
Touched(ops) == UNION {OpTouches(ops[x]) : x \in DOMAIN ops}

\* "Each pass consists of independent tasks" (additive_regions.go:11-13): none writes
\* a row that another reads or writes.
Independent(program) ==
  \A p \in DOMAIN program : \A t, u \in DOMAIN program[p] :
    t # u => Written(program[p][t]) \cap Touched(program[p][u]) = {}

\* The rows after each operation of a task, each task of a pass and each pass of a
\* program, when they come one after the other.
TaskSteps(v, ops) ==
  LET at[k \in 0..Len(ops)] == IF k = 0 THEN v ELSE Applied(at[k - 1], ops[k])
  IN  at
AfterTask(v, ops) == TaskSteps(v, ops)[Len(ops)]
PassSteps(v, tasks) ==
  LET at[k \in 0..Len(tasks)] == IF k = 0 THEN v ELSE AfterTask(at[k - 1], tasks[k])
  IN  at
AfterPass(v, tasks) == PassSteps(v, tasks)[Len(tasks)]
ProgramSteps(v, program) ==
  LET at[k \in 0..Len(program)] == IF k = 0 THEN v ELSE AfterPass(at[k - 1], program[k])
  IN  at
===============================================================================
