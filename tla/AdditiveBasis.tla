----------------------------- MODULE AdditiveBasis -----------------------------
(***************************************************************************)
(* rsec16/additive.go: the Cantor basis of the field, and the transforms    *)
(* over it on vectors of field elements, counted from zero: from            *)
(* coefficients to the novel polynomial basis and back, from there to       *)
(* values at the basis' points and back, and the derivative.                *)
(***************************************************************************)
EXTENDS GaloisField, Sequences, SequencesExt

CONSTANT NaiveCount   \* up to this many coefficients product multiplies term by term

Coordinates == 0..(FieldBits - 1)
Square(x) == Times(x, x)
Bit(x, i) == (x \div 2^i) % 2
RECURSIVE TrailingZeros(_), Log2(_)
TrailingZeros(x) == IF x % 2 = 1 THEN 0 ELSE 1 + TrailingZeros(x \div 2)
Log2(n) == IF n = 1 THEN 0 ELSE 1 + Log2(n \div 2)

RECURSIVE Trace(_, _)
Trace(x, n) == IF n = 0 THEN 0 ELSE Plus(x, Trace(Square(x), n - 1))

\* beta_15 is the first power of x of trace one; beta_(i-1) = beta_i^2 + beta_i.
lastCoordinate == 2^(CHOOSE b \in Coordinates : /\ Trace(2^b, FieldBits) = 1
                                                /\ \A c \in 0..(b - 1) : Trace(2^c, FieldBits) # 1)
beta[i \in Coordinates] ==
  IF i = FieldBits - 1 THEN lastCoordinate ELSE Plus(Square(beta[i + 1]), beta[i + 1])
coordinates == Worked(beta)

point[i \in Elements] ==
  IF i = 0 THEN 0 ELSE Plus(point[i - 2^TrailingZeros(i)], coordinates[TrailingZeros(i)])
points == Worked(point)
IndicesOf(p) == Worked([x \in Elements |-> CHOOSE i \in Elements : p[i] = x])
indices == IndicesOf(points)

\* The linearised polynomial with coefficients p, a sequence, at x.
RECURSIVE EvalLinear(_, _)
EvalLinear(p, x) == IF p = <<>> THEN 0 ELSE Plus(Times(Head(p), x), EvalLinear(Tail(p), Square(x)))

\* linear[i] holds the coefficients of s_i, entry j that of x^(2^(j-1)).
NextLinear(p, d) ==
  Worked([j \in 1..(Len(p) + 1) |-> Plus(IF j > 1 THEN Square(p[j - 1]) ELSE 0,
                                         IF j <= Len(p) THEN Times(d, p[j]) ELSE 0)])
RECURSIVE LinearFrom(_, _)
LinearFrom(p, basis) ==
  IF basis = <<>> THEN <<>> ELSE <<p>> \o LinearFrom(NextLinear(p, EvalLinear(p, Head(basis))), Tail(basis))
\* A sequence as a vector, counted from zero, and back.
FromZero(s) == Worked([x \in 0..(Len(s) - 1) |-> s[x + 1]])
ToSequence(v, n) == [x \in 1..n |-> v[x - 1]]
linear == FromZero(LinearFrom(<<1>>, [i \in 1..FieldBits |-> coordinates[i - 1]]))
DenominatorOf(s, basis) == Worked([i \in Coordinates |-> EvalLinear(s[i], basis[i])])
denominator == DenominatorOf(linear, coordinates)
InverseDenominator(d) == Worked([i \in Coordinates |-> InverseOf(d[i])])
inverse == InverseDenominator(denominator)
DerivativeOf(s, d) == Worked([i \in Coordinates |-> Div(s[i][1], d[i])])
derivative == DerivativeOf(linear, denominator)

\* The coefficient of the butterflies of level i at base.
TwiddlesOf(s, p, inv) ==
  Worked([i \in Coordinates |-> Worked([base \in Elements |-> Times(EvalLinear(s[i], p[base]), inv[i])])])
twiddles == TwiddlesOf(linear, points, inverse)
Twiddle(i, base) == twiddles[i][base]

-----------------------------------------------------------------------------
Levels(v) == Log2(Cardinality(DOMAIN v))
\* x lies in the block of level i at BlockOf(x, i): two halves of 2^i entries.
BlockOf(x, i) == x - (x % 2^(i + 1))

\* Every block of level i takes (divides by s_i) or gives back its entry half + r.
Spread(v, i, r) ==
  Worked([x \in DOMAIN v |->
            LET base == BlockOf(x, i)  targets == {j \in 0..(i - 1) : x = base + r + 2^j} IN
            IF targets = {} THEN v[x]
            ELSE Plus(v[x], Times(v[base + 2^i + r], linear[i][Min(targets) + 1]))])
Rescaled(v, i, r, c) ==
  Worked([x \in DOMAIN v |-> IF x = BlockOf(x, i) + 2^i + r THEN Times(v[x], c) ELSE v[x]])

RECURSIVE Divide(_, _, _), Expand(_, _, _)
Divide(v, i, r) == IF r < 0 THEN v
                   ELSE Divide(Rescaled(Spread(v, i, r), i, r, denominator[i]), i, r - 1)
Expand(v, i, r) == IF r = 2^i THEN v
                   ELSE Expand(Spread(Rescaled(v, i, r, inverse[i]), i, r), i, r + 1)

RECURSIVE ToNovelFrom(_, _), FromNovelFrom(_, _)
ToNovelFrom(v, i) == IF i < 0 THEN v ELSE ToNovelFrom(Divide(v, i, 2^i - 1), i - 1)
FromNovelFrom(v, i) == IF i = Levels(v) THEN v ELSE FromNovelFrom(Expand(v, i, 0), i + 1)
ToNovel(v) == ToNovelFrom(v, Levels(v) - 1)
FromNovel(v) == FromNovelFrom(v, 0)

\* The butterfly of coefficient c: (low, high) becomes (low + c high, low + c high + high),
\* or is brought back.
Butterfly(low, high, c, inv) ==
  LET sum == Plus(low, Times(c, IF inv THEN Plus(high, low) ELSE high))
  IN  [low |-> sum, high |-> Plus(high, IF inv THEN low ELSE sum)]
Butterflies(v, i, inv) ==
  Worked([x \in DOMAIN v |->
     LET l == BlockOf(x, i) + (x % 2^i) IN
     Butterfly(v[l], v[l + 2^i], Twiddle(i, BlockOf(x, i)), inv)[IF x = l THEN "low" ELSE "high"]])
RECURSIVE FftFrom(_, _, _)
FftFrom(v, step, inv) ==
  IF step = Levels(v) THEN v
  ELSE FftFrom(Butterflies(v, IF inv THEN step ELSE Levels(v) - 1 - step, inv), step + 1, inv)
Fft(v, inv) == FftFrom(v, 0, inv)

\* Entry j is added to the entries one bit below it, and cleared.
RECURSIVE DifferentiateFrom(_, _)
DifferentiateFrom(v, j) ==
  IF j \notin DOMAIN v THEN v
  ELSE DifferentiateFrom(
         Worked([x \in DOMAIN v |->
            LET bits == {i \in 0..(Levels(v) - 1) : Bit(j, i) = 1 /\ x = j - 2^i} IN
            IF x = j THEN 0
            ELSE IF bits = {} THEN v[x] ELSE Plus(v[x], Times(v[j], derivative[Min(bits)]))]),
         j + 1)
Differentiate(v) == DifferentiateFrom(v, 0)

-----------------------------------------------------------------------------
\* Polynomials as the sequence of their coefficients, the constant first.
Coefficient(p, i) == IF i \in 1..Len(p) THEN p[i] ELSE 0
Padded(p, n) == Worked([x \in 0..(n - 1) |-> Coefficient(p, x + 1)])
NaiveProduct(a, c) ==
  SubSeq([s \in 1..(Len(a) + Len(c) - 1) |->
            SumUpTo([i \in 0..(Len(a) - 1) |-> Times(a[i + 1], Coefficient(c, s - i))], Len(a))],
         1, Len(a) + Len(c) - 1)
EntryProducts(x, y) == Worked([i \in DOMAIN x |-> Times(x[i], y[i])])
ValuesOf(p, n) == Fft(ToNovel(Padded(p, n)), FALSE)
TransformProduct(a, c) ==
  LET count == Len(a) + Len(c) - 1
      n == Min({k \in {2^l : l \in 0..FieldBits} : k >= count})
  IN  ToSequence(FromNovel(Fft(EntryProducts(ValuesOf(a, n), ValuesOf(c, n)), TRUE)), count)
Product(a, c) == IF Len(a) + Len(c) - 1 <= NaiveCount THEN NaiveProduct(a, c) ELSE TransformProduct(a, c)

\* The monic polynomial that vanishes at the given points, by halves.
RECURSIVE Locator(_)
Locator(xs) ==
  CASE Len(xs) = 0 -> <<1>>
    [] Len(xs) = 1 -> <<xs[1], 1>>
    [] OTHER -> LET mid == Len(xs) \div 2 IN
                Product(Locator(SubSeq(xs, 1, mid)), Locator(SubSeq(xs, mid + 1, Len(xs))))
===============================================================================
