--------------------------------- MODULE Coder ---------------------------------
(***************************************************************************)
(* rsec16: the coding matrices (cauchy.go, vandermonde.go, coder.go), the   *)
(* matrix that rebuilds missing data from survivors and recovery rows       *)
(* (coder.go, par2_lagrange.go), and the Coder's two operations.  A shard   *)
(* is one symbol of the field.  Rows are counted from zero, lists of rows   *)
(* are sequences, and a shard that is nil is not in the domain of its list. *)
(***************************************************************************)
EXTENDS Matrices, AdditiveBasis

CONSTANT DeepMissing   \* missing rows from which the small system is inverted first: 32 in the code

\* The elements of full order, in the order of their exponents.
generators ==
  LET coprime == SelectSeq([e \in 1..(Order - 1) |-> e], LAMBDA e : \A f \in {3, 5, 17, 257} : e % f # 0)
  IN  [g \in 1..Len(coprime) |-> Pow(2, coprime[g])]
GeneratorOf(row) == generators[row + 1]

CauchyParityMatrix(dataShards, parityShards) ==
  NewMatrix([i \in Below(parityShards) |-> [j \in Below(dataShards) |-> InverseOf(Plus(dataShards + i, j))]])
VandermondeParityMatrix(dataShards, parityShards) ==
  NewMatrix([i \in Below(parityShards) |-> [j \in Below(dataShards) |-> Pow(GeneratorOf(j), i)]])
VandermondeRows(dataShards, exponents) ==
  NewMatrix([i \in Below(Len(exponents)) |-> [j \in Below(dataShards) |-> Pow(GeneratorOf(j), exponents[i + 1])]])

\* m times the column of symbols.
ApplyMatrix(m, column) ==
  Worked([i \in DOMAIN m |-> SumUpTo([k \in DOMAIN column |-> Times(m[i][k], column[k])], Cardinality(DOMAIN column))])
GenerateParity(parityMatrix, data) == ApplyMatrix(parityMatrix, data)

Ascending(rows) == SelectSeq([x \in 1..Order |-> x - 1], LAMBDA x : x \in rows)

-----------------------------------------------------------------------------
\* The coefficients that give the used recovery rows, of the survivors and of
\* themselves.
KnownSide(parityMatrix, dataShards, available, used) ==
  NewMatrix([i \in Below(Len(used)) |-> [j \in Below(dataShards) |->
    IF j < Len(available) THEN parityMatrix[used[i + 1]][available[j + 1]]
    ELSE IF i = j - Len(available) THEN 1 ELSE 0]])
UnknownSide(parityMatrix, missing, used) ==
  NewMatrix([i \in Below(Len(used)) |-> [j \in Below(Len(missing)) |->
    parityMatrix[used[i + 1]][missing[j + 1]]]])

MakeReconstructionMatrix(parityMatrix, dataShards, available, missing, used) ==
  RowReduceForInverse(UnknownSide(parityMatrix, missing, used), KnownSide(parityMatrix, dataShards, available, used))

\* Deep damage is solved by the inverse of the small system, folded over the rows of
\* the wide one.
Widened(inverted, known) == IF inverted.ok THEN Solved(MatrixTimes(inverted.m, known)) ELSE Singular
ReconstructionMatrix(parityMatrix, dataShards, available, missing, used) ==
  IF Len(missing) < DeepMissing \/ dataShards < 4 * Len(missing)
  THEN MakeReconstructionMatrix(parityMatrix, dataShards, available, missing, used)
  ELSE Widened(MatrixInverse(UnknownSide(parityMatrix, missing, used)),
               KnownSide(parityMatrix, dataShards, available, used))

\* The data with its missing shards filled in, or why not.
Refilled(data, lost, rebuilt) ==
  data @@ [row \in lost |-> rebuilt[Cardinality({r \in lost : r < row})]]
Answered(solution, data, lost, column) ==
  IF solution.ok THEN [err |-> "none", data |-> Refilled(data, lost, ApplyMatrix(solution.m, column))]
  ELSE [err |-> "singular", data |-> data]
ReconstructData(parityMatrix, dataShards, data, parity) ==
  LET lost == (0..(dataShards - 1)) \ DOMAIN data
      available == Ascending(DOMAIN data)
      present == Ascending(DOMAIN parity)
      used == SubSeq(present, 1, Min({Len(present), Cardinality(lost)}))
      column == FromZero([x \in DOMAIN available |-> data[available[x]]] \o [x \in DOMAIN used |-> parity[used[x]]])
  IN  IF lost = {} THEN [err |-> "none", data |-> data]
      ELSE IF Len(used) < Cardinality(lost) THEN [err |-> "not enough", data |-> data]
      ELSE Answered(ReconstructionMatrix(parityMatrix, dataShards, available, Ascending(lost), used),
                    data, lost, column)

-----------------------------------------------------------------------------
\* par2_lagrange.go.
Consecutive(exponents) ==
  /\ exponents # <<>> /\ exponents[1] + Len(exponents) <= Order
  /\ \A x \in DOMAIN exponents : exponents[x] = exponents[1] + x - 1

\* The polynomial that vanishes at the missing rows' generators, its values and those
\* of its derivative, by field element.
ByElement(v) == Worked([t \in Elements |-> v[indices[t]]])
ValuesFrom(polynomial, novel) ==
  [polynomial |-> polynomial, values |-> ByElement(Fft(novel, FALSE)),
   derivative |-> ByElement(Fft(Differentiate(novel), FALSE))]
LocatedBy(polynomial) == ValuesFrom(polynomial, ToNovel(Padded(polynomial, Order)))
LocatorValues(missing) == LocatedBy(Locator([x \in DOMAIN missing |-> GeneratorOf(missing[x])]))

\* The quotient of the polynomial, of degree k, by x + root: coefficients from zero on.
QuotientBy(polynomial, k, root) ==
  LET q[j \in 0..(k - 1)] ==
        IF j = k - 1 THEN polynomial[k + 1] ELSE Plus(polynomial[j + 2], Times(root, q[j + 1]))
  IN  Worked(q)

\* The matrix, given the values p of the polynomial that vanishes at the missing rows.
LagrangeFrom(p, dataShards, available, missing, start) ==
  LET k == Len(missing)
      Weight(y) == Times(p.values[y], Pow(y, start))
      Scale(x) == InverseOf(Times(p.derivative[x], Pow(x, start)))
      Entry(i, j) ==
        LET x == GeneratorOf(missing[i + 1]) IN
        IF j < Len(available)
        THEN LET y == GeneratorOf(available[j + 1]) IN Times(Div(Weight(y), Plus(y, x)), Scale(x))
        ELSE Times(QuotientBy(p.polynomial, k, x)[j - Len(available)], Scale(x))
  IN  NewMatrix([i \in Below(k) |-> [j \in Below(dataShards) |-> Entry(i, j)]])
Par2LagrangeMatrix(dataShards, available, missing, exponents) ==
  LagrangeFrom(LocatorValues(missing), dataShards, available, missing, exponents[1])
===============================================================================
