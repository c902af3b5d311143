------------------------------ MODULE GaloisField ------------------------------
(***************************************************************************)
(* The field of gf2p16/t.go, with FieldBits bits instead of 16: its         *)
(* elements, the tables that init builds from a generator, and the          *)
(* arithmetic that reads them.  An element is the number whose bits are     *)
(* the coefficients of a polynomial over the integers modulo two.           *)
(***************************************************************************)
EXTENDS Naturals, Bitwise, TLC

CONSTANTS
  FieldBits,   \* 16 in the code
  Modulus,     \* the irreducible polynomial: 0x1100b in the code
  Generator    \* the element whose powers fill the tables: 3 in the code

Order == 2^FieldBits
Elements == 0..(Order - 1)
NonZero == Elements \ {0}
Powers == 0..(Order - 2)

\* f itself, whose values TLC then works out once and not at every application.
Worked(f) == f @@ <<>>

\* t ^ u, and the exclusive or of polynomials of any degree.
sums == Worked([t \in Elements |-> Worked([u \in Elements |-> t ^^ u])])
Plus(t, u) == sums[t][u]

\* gf2.Poly64: the product of two polynomials, and its remainder.
RECURSIVE PolyTimes(_, _), PolyMod(_, _)
PolyTimes(x, y) == IF y = 0 THEN 0
                   ELSE PolyTimes(2 * x, y \div 2) ^^ (IF y % 2 = 1 THEN x ELSE 0)
PolyMod(x, shift) == IF x < Order THEN x
                     ELSE PolyMod(IF x >= Order * 2^shift THEN x ^^ (Modulus * 2^shift) ELSE x, shift - 1)
PolyProduct(x, y) == PolyMod(PolyTimes(x, y), FieldBits - 1)

\* expTable and logTable, as init fills them.
power[p \in Powers] == IF p = 0 THEN 1 ELSE PolyProduct(power[p - 1], Generator)
expTable == Worked(power)
LogsOf(exp) == Worked([x \in NonZero |-> CHOOSE p \in Powers : exp[p] = x])
logTable == LogsOf(expTable)

ProductsOf(exp, log) ==
  Worked([t \in Elements |-> Worked([u \in Elements |->
            IF t = 0 \/ u = 0 THEN 0 ELSE exp[(log[t] + log[u]) % (Order - 1)]])])
products == ProductsOf(expTable, logTable)
Times(t, u) == products[t][u]
InversesOf(exp, log) == Worked([t \in NonZero |-> exp[((Order - 1) - log[t]) % (Order - 1)]])
inverses == InversesOf(expTable, logTable)
InverseOf(t) == inverses[t]
Div(t, u) == IF t = 0 THEN 0 ELSE expTable[(logTable[t] + (Order - 1) - logTable[u]) % (Order - 1)]
Pow(t, p) == IF t = 0 THEN (IF p = 0 THEN 1 ELSE 0) ELSE expTable[(logTable[t] * p) % (Order - 1)]

\* The tables multiply as the polynomials do: Generator has every non-zero element
\* among its powers, and Modulus is irreducible.
FieldAssumption ==
  /\ {expTable[p] : p \in Powers} = NonZero
  /\ \A t, u \in Elements : Times(t, u) = PolyProduct(t, u) /\ (u # 0 => Times(Div(t, u), u) = t)

\* The sum of f[x], over 0 <= x < n.
RECURSIVE SumUpTo(_, _)
SumUpTo(f, n) == IF n = 0 THEN 0 ELSE Plus(SumUpTo(f, n - 1), f[n - 1])
===============================================================================
