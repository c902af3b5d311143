----------------------------- MODULE Par2Transform -----------------------------
(***************************************************************************)
(* rsec16/par2_transform.go: the solution of a transposed Vandermonde       *)
(* system with consecutive exponents by additive transforms.  The rows of   *)
(* the field fall into cosets of a power of two at least as large as the    *)
(* number of missing rows; survivors are summed up coset by coset into      *)
(* power sums, and the missing rows are read off coset by coset.            *)
(***************************************************************************)
EXTENDS Coder, RegionPrograms

\* 1 << bits.Len(x): the power of two above x.
PowerAbove(x) == Min({2^l : l \in 0..(FieldBits + 1)} \cap {y \in 1..(2 * Order) : y > x})

PointOf(row) == indices[GeneratorOf(row)]

\* The rows of a list that lie in the coset at base: their position in the list, and
\* their place in the coset.
InCoset(rows, base, q) ==
  LET placed == [x \in DOMAIN rows |-> [index |-> x - 1, point |-> PointOf(rows[x]) - base]]
  IN  SelectSeq(placed, LAMBDA entry : entry.point \in 0..(q - 1))

\* A coset with its rows, the program to run over it, and the scales of its rows.
CosetOf(entries, scale, program) ==
  [rows |-> entries, program |-> program,
   scales |-> FlattenSeq([x \in DOMAIN entries |-> ScaleRegion(entries[x].point, scale[entries[x].index + 1])])]
PointsOf(entries) == {entries[x].point : x \in DOMAIN entries}

\* The cosets that have rows, in the order of their bases.
Cosets(rows, scale, q, inv, transpose) ==
  SelectSeq([c \in 1..(Order \div q) |->
               LET base == (c - 1) * q  entries == InCoset(rows, base, q) IN
               CosetOf(entries, scale,
                       SerialRegionProgram(PrunedFFTCoset(q, Log2(q), inv, transpose, PointsOf(entries), base)))],
            LAMBDA coset : coset.rows # <<>>)
TransformBy(locator, available, missing, start) ==
  LET k == Len(missing)
      q == PowerAbove(k - 1)
      weights == [x \in DOMAIN available |-> Pow(GeneratorOf(available[x]), start)]
      scales == [x \in DOMAIN missing |->
                   LET y == GeneratorOf(missing[x]) IN InverseOf(Times(locator.derivative[y], Pow(y, start)))]
  IN  [degree |-> q, size |-> PowerAbove(2 * k - 1),
       survivors |-> Cosets(available, weights, q, TRUE, TRUE), results |-> Cosets(missing, scales, q, FALSE, FALSE),
       multiply |-> FlattenSeq([x \in 1..PowerAbove(2 * k - 1) |-> ScaleRegion(x - 1, locator.values[points[x - 1]])])]
NewPAR2Transform(available, missing, exponents) ==
  TransformBy(LocatorValues(missing), available, missing, exponents[1])

RunOver(v, program) == AppliedAll(v, Operations(program))

-----------------------------------------------------------------------------
\* foldRange on one symbol of every row.  The workspace has two halves of q rows.
Upper(v, q) == [x \in 0..(q - 1) |-> v[q + x]]
Halves(low, high, q) == Worked([x \in 0..(2 * q - 1) |-> IF x < q THEN low[x] ELSE high[x - q]])

\* The power sums of the survivors, coset after coset, gathered in the upper half.
RECURSIVE Gathered(_, _, _, _)
Gathered(cosets, q, survivors, v) ==
  IF cosets = <<>> THEN v
  ELSE LET coset == Head(cosets)
           Prepared(x) == {e \in DOMAIN coset.rows : coset.rows[e].point = x}
           loaded == [x \in 0..(2 * q - 1) |->
                        IF x >= q THEN v[x]
                        ELSE IF Prepared(x) = {} THEN 0 ELSE survivors[coset.rows[Min(Prepared(x))].index]]
           summed == RunOver(AppliedAll(Worked(loaded), coset.scales), coset.program)
           gather == [x \in 1..q |-> Op("add", q + x - 1, x - 1, 1)]
       IN  Gathered(Tail(cosets), q, survivors, AppliedAll(summed, gather))

\* The power sums of all missing rows: those of the recovery rows less the survivors'.
Residual(gathered, recovery, q, k) ==
  LET moments == RunOver(Halves(Upper(gathered, q), Upper(gathered, q), q),
                         SerialRegionProgram(TransposeRegionProgram(ConversionProgram(q, FALSE))))
  IN  Worked([x \in 0..(2 * q - 1) |-> IF x < k THEN Plus(recovery[k - 1 - x], moments[k - 1 - x]) ELSE 0])
\* Their product by the polynomial that vanishes at the missing rows, by its values.
Multiplied(p, residual) ==
  RunOver(RunOver(AppliedAll(RunOver(RunOver(residual, ConversionProgram(p.size, FALSE)), FftProgram(p.size, FALSE)),
                             p.multiply),
                  FftProgram(p.size, TRUE)),
          ConversionProgram(p.size, TRUE))
Quotient(product, q, k) ==
  RunOver(Worked([x \in 0..(2 * q - 1) |-> IF x < k THEN product[k + x] ELSE 0]), ConversionProgram(q, FALSE))
\* The rows of the cosets, each read off the values of the quotient on its coset.
RECURSIVE ReadOff(_, _, _)
ReadOff(cosets, quotient, q) ==
  IF cosets = <<>> THEN <<>>
  ELSE LET coset == Head(cosets)
           result == AppliedAll(RunOver(Halves(quotient, quotient, q), coset.program), coset.scales)
       IN  [x \in {entry.index : entry \in ToSet(coset.rows)} |->
              result[(CHOOSE entry \in ToSet(coset.rows) : entry.index = x).point]]
           @@ ReadOff(Tail(cosets), quotient, q)

\* The missing rows, from the symbols of the survivors and of the recovery rows.
FoldRange(p, survivors, recovery) ==
  LET q == p.degree
      k == Cardinality(DOMAIN recovery)
      zeros == [x \in 0..(2 * q - 1) |-> 0]
  IN  ReadOff(p.results,
              Quotient(Multiplied(p, Residual(Gathered(p.survivors, q, survivors, zeros), recovery, q, k)), q, k), q)
===============================================================================
