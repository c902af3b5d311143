------------------------------- MODULE Matrices -------------------------------
(***************************************************************************)
(* gf2p16/matrix.go: matrices over the field, as functions of the row and   *)
(* the column, counted from zero, and the row reduction that inverts them.  *)
(***************************************************************************)
EXTENDS GaloisField, FiniteSets, FiniteSetsExt

NumRowsOf(m) == Cardinality(DOMAIN m)

\* The matrix of a function of the row and the column.
NewMatrix(fn) == Worked([i \in DOMAIN fn |-> Worked(fn[i])])
Below(n) == 0..(n - 1)
Identity(n) == NewMatrix([i \in Below(n) |-> [j \in Below(n) |-> IF i = j THEN 1 ELSE 0]])
MatrixTimes(m, n) ==
  NewMatrix([i \in DOMAIN m |-> [j \in DOMAIN n[0] |->
    SumUpTo([k \in DOMAIN n |-> Times(m[i][k], n[k][j])], NumRowsOf(n))]])

SwapRows(m, i, j) == [m EXCEPT ![i] = m[j], ![j] = m[i]]
ScaleRow(m, i, c) == [m EXCEPT ![i] = Worked([x \in DOMAIN @ |-> Times(c, @[x])])]
AddScaledRow(m, dest, src, c) ==
  [m EXCEPT ![dest] = Worked([x \in DOMAIN @ |-> Plus(@[x], Times(c, m[src][x]))])]

\* Row i, scaled, is added to the given rows, so that column i of m is zero in them.
Eliminated(m, n, i, rows) ==
  Worked([l \in DOMAIN n |-> IF l \in rows THEN AddScaledRow(n, l, i, m[l][i])[l] ELSE n[l]])

\* Only the row itself is looked at.
PivotsInPlace(m, i) == {j \in {i} : m[j][i] # 0}
\* The rows that can take the place of row i.
Pivots(m, i) == {j \in DOMAIN m : j >= i /\ m[j][i] # 0}

\* To row echelon form, from row i on: <<m, n>>, or a singular m.
RECURSIVE Echelon(_, _, _)
Echelon(m, n, i) ==
  IF i \notin DOMAIN m THEN [ok |-> TRUE, m |-> m, n |-> n]
  ELSE IF Pivots(m, i) = {} THEN [ok |-> FALSE]
  ELSE LET j == Min(Pivots(m, i))
           pivotInv == InverseOf(m[j][i])
           m1 == ScaleRow(SwapRows(m, i, j), i, pivotInv)
           n1 == ScaleRow(SwapRows(n, i, j), i, pivotInv)
           below == {l \in DOMAIN m : l > i}
       IN  Echelon(Eliminated(m1, m1, i, below), Eliminated(m1, n1, i, below), i + 1)

\* Then to reduced row echelon form.
RECURSIVE Reduced(_, _, _)
Reduced(m, n, i) ==
  LET above == {l \in DOMAIN m : l < i} IN
  IF i \notin DOMAIN m THEN n
  ELSE Reduced(Eliminated(m, m, i, above), Eliminated(m, n, i, above), i + 1)

\* The inverse of m times n, unless m is singular.
Singular == [ok |-> FALSE]
Solved(m) == [ok |-> TRUE, m |-> m]
ReducedIfRegular(e) == IF e.ok THEN Solved(Reduced(e.m, e.n, 0)) ELSE Singular
RowReduceForInverse(m, n) == ReducedIfRegular(Echelon(m, n, 0))
MatrixInverse(m) == RowReduceForInverse(m, Identity(NumRowsOf(m)))
===============================================================================
