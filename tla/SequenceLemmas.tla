----------------------------- MODULE SequenceLemmas -----------------------------
(***************************************************************************)
(* Facts about the operators the models are built from, for the proofs of   *)
(* several components: least elements and induction over the naturals,      *)
(* multiples, products, FlattenSeq, SetToSeq and sorting.                   *)
(*                                                                          *)
(* The induction theorems of the library take a predicate, which a prover   *)
(* cannot supply; here induction is over a set, which it can.  It follows   *)
(* from the well-foundedness of < on the naturals.                          *)
(***************************************************************************)
EXTENDS Naturals, SequencesExt, FiniteSetTheorems, WellFoundedInduction, TLAPS

-----------------------------------------------------------------------------
\* A set of naturals that is not empty has a least element.
LEMMA Least ==
  ASSUME NEW S \in SUBSET Nat, S # {}
  PROVE  \E n \in S : \A m \in S : n <= m
<1> DEFINE R == {p \in Nat \X Nat : p[1] < p[2]}
<1>1. IsWellFoundedOn(R, Nat)
  BY NatLessThanWellFounded DEF OpToRel
<1> HIDE DEF R
<1>2. PICK x \in S : \A y \in S : ~ (<<y, x>> \in R)
  BY <1>1, WFMin
<1>3. ASSUME NEW y \in S PROVE x <= y
  <2>1. y \in Nat /\ x \in Nat /\ <<y, x>> \in Nat \X Nat
    OBVIOUS
  <2>2. ~(y < x)
    BY <1>2, <2>1 DEF R
  <2> QED BY <2>1, <2>2
<1> QED BY <1>3

\* Induction: a set that holds 0, and with n also n + 1, holds every natural.
LEMMA Induction ==
  ASSUME NEW S, 0 \in S, \A n \in Nat : n \in S => n + 1 \in S
  PROVE  Nat \subseteq S
<1> SUFFICES ASSUME Nat \ S # {} PROVE FALSE
  OBVIOUS
<1>1. PICK n \in Nat \ S : \A m \in Nat \ S : n <= m
  BY Least
<1>2. n # 0 /\ n \in Nat
  OBVIOUS
<1>3. n - 1 \in Nat /\ n - 1 \in S
  BY <1>1, <1>2
<1> QED BY <1>2, <1>3

\* A finite set of naturals that is not empty has a greatest element.
LEMMA Greatest ==
  ASSUME NEW S \in SUBSET Nat, S # {}, NEW b \in Nat, \A n \in S : n <= b
  PROVE  \E n \in S : \A m \in S : m <= n
<1> DEFINE T == {b - n : n \in S}
<1>1. T \in SUBSET Nat /\ T # {}
  <2>1. ASSUME NEW n \in S PROVE b - n \in Nat
    OBVIOUS
  <2>2. PICK n \in S : TRUE
    OBVIOUS
  <2>3. b - n \in T
    OBVIOUS
  <2> QED BY <2>1, <2>3
<1>2. PICK t \in T : \A u \in T : t <= u
  BY <1>1, Least
<1>3. PICK n \in S : t = b - n
  OBVIOUS
<1>4. ASSUME NEW m \in S PROVE m <= n
  <2>1. b - m \in T
    OBVIOUS
  <2> QED BY <1>2, <1>3, <2>1
<1> QED BY <1>4

-----------------------------------------------------------------------------
\* A multiple of n below n is zero.
LEMMA SmallMultiple ==
  ASSUME NEW n \in Nat \ {0}, NEW k \in Int, 0 <= n * k, n * k < n
  PROVE  k = 0
<1>1. CASE k >= 1
  <2>1. n * k >= n * 1
    BY <1>1
  <2> QED BY <2>1
<1>2. CASE k <= -1
  <2>1. n * k <= n * (-1)
    BY <1>2
  <2> QED BY <2>1
<1> QED BY <1>1, <1>2

\* The multiples of n are those that leave no remainder.
LEMMA Multiples ==
  ASSUME NEW n \in Nat \ {0}, NEW a \in Int
  PROVE  a % n = 0 <=> \E q \in Int : a = n * q
<1> DEFINE d == a \div n
           e == a % n
<1>1. a \in Int /\ d \in Int /\ e \in 0..(n - 1) /\ a = n * d + e
  OBVIOUS
<1> HIDE DEF d, e
<1>2. ASSUME NEW q \in Int, a = n * q PROVE e = 0
  <2>1. e = n * (q - d)
    BY <1>1, <1>2
  <2>2. q - d \in Int /\ 0 <= n * (q - d) /\ n * (q - d) < n
    BY <1>1, <2>1
  <2>3. q - d = 0
    BY <2>2, SmallMultiple
  <2> QED BY <2>1, <2>3
<1>3. e = 0 => a = n * d
  BY <1>1
<1> QED BY <1>1, <1>2, <1>3 DEF e

\* Slice boundaries are a slice apart, and sums of them are slice boundaries.
LEMMA Boundaries ==
  ASSUME NEW n \in Nat \ {0}, NEW a \in Int, NEW b \in Int, a % n = 0, b % n = 0
  PROVE  (a + b) % n = 0 /\ (a - b) % n = 0 /\ (a < b => a + n <= b)
<1>1. PICK q \in Int : a = n * q
  BY Multiples
<1>2. PICK r \in Int : b = n * r
  BY Multiples
<1>3. a + b = n * (q + r) /\ a - b = n * (q - r)
  BY <1>1, <1>2
<1>4. (a + b) % n = 0 /\ (a - b) % n = 0
  <2>1. q + r \in Int /\ q - r \in Int /\ a + b \in Int /\ a - b \in Int
    OBVIOUS
  <2>2. (a + b) % n = 0
    BY <1>3, <2>1, Multiples
  <2>3. (a - b) % n = 0
    BY <1>3, <2>1, Multiples
  <2> QED BY <2>2, <2>3
<1>5. ASSUME a < b PROVE a + n <= b
  <2>1. b - a = n * (r - q)
    BY <1>1, <1>2
  <2>2. CASE b - a < n
    <3>1. r - q = 0
      BY <1>5, <2>1, <2>2, SmallMultiple
    <3> QED BY <1>5, <2>1, <3>1
  <2> QED BY <2>2
<1> QED BY <1>4, <1>5

\* A range of L, cut into pieces of n and a rest: the k-th begins at (k - 1) * n + 1.
LEMMA Pieces ==
  ASSUME NEW L \in Nat, NEW n \in Nat \ {0}
  PROVE  LET N == (L + n - 1) \div n IN
         /\ N \in Nat
         /\ \A k \in 1..N : (k - 1) * n + 1 \in 1..L /\ ((k - 1) * n) % n = 0
         /\ \A k, m \in 1..N : k < m => (k - 1) * n + n <= (m - 1) * n
         /\ \A p \in 1..L : (p - 1) % n = 0 => \E k \in 1..N : p = (k - 1) * n + 1
         /\ \A q \in 1..L : \E k \in 1..N : (k - 1) * n + 1 <= q /\ q <= k * n
<1> DEFINE N == (L + n - 1) \div n
           r == (L + n - 1) % n
<1>1. N \in Int /\ r \in 0..(n - 1) /\ L + n - 1 = n * N + r
  <2>1. L + n - 1 \in Int
    OBVIOUS
  <2> QED BY <2>1
<1> HIDE DEF N, r
<1>2. N >= 0
  <2> SUFFICES ASSUME N <= -1 PROVE FALSE
    BY <1>1
  <2>1. n * N <= n * (-1)
    BY <1>1
  <2> QED BY <1>1, <2>1
<1>3. ASSUME NEW k \in 1..N PROVE (k - 1) * n + 1 \in 1..L /\ ((k - 1) * n) % n = 0
  <2>1. n * k <= n * N /\ n * (k - 1) >= 0 /\ (k - 1) * n = n * (k - 1) /\ n * (k - 1) = n * k - n
    BY <1>1
  <2>2. (k - 1) * n + 1 \in 1..L
    BY <1>1, <2>1
  <2>3. k - 1 \in Int /\ (k - 1) * n \in Int
    OBVIOUS
  <2>4. ((k - 1) * n) % n = 0
    BY <2>1, <2>3, Multiples
  <2> QED BY <2>2, <2>4
<1>4. ASSUME NEW k \in 1..N, NEW m \in 1..N, k < m PROVE (k - 1) * n + n <= (m - 1) * n
  <2>1. n * k <= n * (m - 1) /\ n * (m - 1) = (m - 1) * n /\ (k - 1) * n + n = n * k
    BY <1>4
  <2> QED BY ONLY <2>1
<1>5. ASSUME NEW q \in 1..L PROVE \E k \in 1..N : (k - 1) * n + 1 <= q /\ q <= k * n /\ q - 1 = (k - 1) * n + ((q - 1) % n)
  <2> DEFINE j == (q - 1) \div n
             e == (q - 1) % n
  <2>1. j \in Int /\ e \in 0..(n - 1) /\ q - 1 = n * j + e /\ q \in Int /\ q >= 1 /\ q <= L
    <3>1. q - 1 \in Int
      OBVIOUS
    <3> QED BY <3>1
  <2> HIDE DEF j, e
  <2>2. j >= 0
    <3> SUFFICES ASSUME j <= -1 PROVE FALSE
      BY <2>1
    <3>1. n * j <= n * (-1)
      BY <2>1
    <3> QED BY <2>1, <3>1
  <2>3. j < N
    <3> SUFFICES ASSUME N <= j PROVE FALSE
      BY <1>1, <2>1
    <3>1. n * N <= n * j
      BY <1>1, <2>1
    <3> QED BY <1>1, <2>1, <3>1
  <2>4. j + 1 \in 1..N /\ (j + 1) - 1 = j /\ j * n = n * j /\ (j + 1) * n = n * j + n
    BY <1>1, <2>1, <2>2, <2>3
  <2>5. j * n + 1 <= q /\ q <= (j + 1) * n /\ q - 1 = j * n + e
    BY <2>1, <2>4
  <2> QED BY <2>4, <2>5 DEF e
<1>6. ASSUME NEW p \in 1..L, (p - 1) % n = 0 PROVE \E k \in 1..N : p = (k - 1) * n + 1
  <2>1. PICK k \in 1..N : p - 1 = (k - 1) * n + ((p - 1) % n)
    BY <1>5
  <2> QED BY <1>6, <2>1
<1>7. /\ N \in Nat
      /\ \A k \in 1..N : (k - 1) * n + 1 \in 1..L /\ ((k - 1) * n) % n = 0
      /\ \A k, m \in 1..N : k < m => (k - 1) * n + n <= (m - 1) * n
      /\ \A p \in 1..L : (p - 1) % n = 0 => \E k \in 1..N : p = (k - 1) * n + 1
  BY <1>1, <1>2, <1>3, <1>4, <1>6
<1>8. \A q \in 1..L : \E k \in 1..N : (k - 1) * n + 1 <= q /\ q <= k * n
  BY <1>5
<1> QED BY ONLY <1>7, <1>8 DEF N

-----------------------------------------------------------------------------
\* The function FlattenSeq chooses exists: it is the concatenation of a prefix.
LEMMA FlattenPrefixes ==
  ASSUME NEW ss, NEW N \in Nat
  PROVE  LET flatten[i \in 1..N] == IF i = 1 THEN ss[i] ELSE flatten[i - 1] \o ss[i]
         IN  flatten = [i \in 1..N |-> IF i = 1 THEN ss[i] ELSE flatten[i - 1] \o ss[i]]
<1> DEFINE Joins(n, f) == f = [i \in 1..n |-> IF i = 1 THEN ss[i] ELSE f[i - 1] \o ss[i]]
           S == {n \in Nat : \E f : Joins(n, f)}
<1>1. 0 \in S
  <2>1. Joins(0, [i \in 1..0 |-> 0])
    OBVIOUS
  <2> QED BY <2>1
<1>2. ASSUME NEW n \in Nat, n \in S PROVE n + 1 \in S
  <2>1. PICK f : Joins(n, f)
    BY <1>2
  <2> DEFINE last == IF n + 1 = 1 THEN ss[n + 1] ELSE f[n] \o ss[n + 1]
             g == [i \in 1..(n + 1) |-> IF i = n + 1 THEN last ELSE f[i]]
  <2>2. ASSUME NEW i \in 1..(n + 1)
        PROVE  g[i] = IF i = 1 THEN ss[i] ELSE g[i - 1] \o ss[i]
    <3>1. CASE i = n + 1
      <4>1. n + 1 # 1 => g[n] = f[n]
        OBVIOUS
      <4> QED BY <3>1, <4>1
    <3>2. CASE i # n + 1
      <4>1. i \in 1..n /\ g[i] = f[i]
        BY <3>2
      <4>2. f[i] = IF i = 1 THEN ss[i] ELSE f[i - 1] \o ss[i]
        BY <2>1, <4>1
      <4>3. i # 1 => i - 1 \in 1..n /\ g[i - 1] = f[i - 1]
        BY <4>1
      <4> QED BY <4>1, <4>2, <4>3
    <3> QED BY <3>1, <3>2
  <2>3. g = [i \in 1..(n + 1) |-> g[i]]
    OBVIOUS
  <2> HIDE DEF g
  <2>4. Joins(n + 1, g)
    BY <2>2, <2>3
  <2>5. \E f1 : Joins(n + 1, f1)
    BY <2>4
  <2> HIDE DEF Joins
  <2> QED BY <2>5
<1> HIDE DEF S
<1>3. N \in S
  BY <1>1, <1>2, Induction
<1>4. PICK f : Joins(N, f)
  BY <1>3 DEF S
<1> DEFINE flatten[i \in 1..N] == IF i = 1 THEN ss[i] ELSE flatten[i - 1] \o ss[i]
<1>5. flatten = [i \in 1..N |-> IF i = 1 THEN ss[i] ELSE flatten[i - 1] \o ss[i]]
  BY <1>4
<1> QED BY <1>5

\* Concatenation: the type, the elements, and when no element occurs twice.
LEMMA Concatenation ==
  ASSUME NEW T, NEW a \in Seq(T), NEW b \in Seq(T)
  PROVE  /\ a \o b \in Seq(T)
         /\ ToSet(a \o b) = ToSet(a) \cup ToSet(b)
         /\ IsInjective(a) /\ IsInjective(b) /\ ToSet(a) \cap ToSet(b) = {} => IsInjective(a \o b)
<1>1. a \o b \in Seq(T) /\ Len(a \o b) = Len(a) + Len(b)
  OBVIOUS
<1>2. \A i \in 1..Len(a) : (a \o b)[i] = a[i]
  OBVIOUS
<1>3. \A i \in 1..Len(b) : (a \o b)[Len(a) + i] = b[i]
  OBVIOUS
<1>4. DOMAIN a = 1..Len(a) /\ DOMAIN b = 1..Len(b) /\ DOMAIN (a \o b) = 1..(Len(a) + Len(b))
       /\ Len(a) \in Nat /\ Len(b) \in Nat
  BY <1>1
<1>5. ASSUME NEW i \in 1..(Len(a) + Len(b)), i \notin 1..Len(a)
      PROVE  i - Len(a) \in 1..Len(b) /\ (a \o b)[i] = b[i - Len(a)]
  <2>1. i - Len(a) \in 1..Len(b) /\ Len(a) + (i - Len(a)) = i
    BY <1>4, <1>5
  <2> QED BY <2>1, <1>3
<1> DEFINE c == a \o b
<1> HIDE DEF c
<1>6. ToSet(c) = ToSet(a) \cup ToSet(b)
  <2>1. ASSUME NEW x \in ToSet(c) PROVE x \in ToSet(a) \cup ToSet(b)
    BY <1>2, <1>4, <1>5 DEF ToSet, c
  <2>2. ASSUME NEW x \in ToSet(a) PROVE x \in ToSet(c)
    BY <1>2, <1>4 DEF ToSet, c
  <2>3. ASSUME NEW x \in ToSet(b) PROVE x \in ToSet(c)
    <3>1. PICK i \in 1..Len(b) : x = b[i]
      BY <1>4 DEF ToSet
    <3>2. Len(a) + i \in DOMAIN c /\ c[Len(a) + i] = x
      BY <1>3, <1>4, <3>1 DEF c
    <3> QED BY <3>2 DEF ToSet
  <2> QED BY <2>1, <2>2, <2>3
<1>7. ASSUME IsInjective(a), IsInjective(b), ToSet(a) \cap ToSet(b) = {}
      PROVE  IsInjective(c)
  <2> SUFFICES ASSUME NEW i \in DOMAIN c, NEW j \in DOMAIN c, c[i] = c[j] PROVE i = j
    BY DEF IsInjective
  <2>1. CASE i \in 1..Len(a) /\ j \in 1..Len(a)
    BY <2>1, <1>2, <1>4, <1>7 DEF IsInjective, c
  <2>2. CASE i \notin 1..Len(a) /\ j \notin 1..Len(a)
    <3>1. i - Len(a) = j - Len(a)
      BY <2>2, <1>4, <1>5, <1>7 DEF IsInjective, c
    <3> QED BY <3>1, <1>4 DEF c
  <2>3. CASE i \in 1..Len(a) /\ j \notin 1..Len(a)
    BY <2>3, <1>2, <1>4, <1>5, <1>7 DEF ToSet, c
  <2>4. CASE i \notin 1..Len(a) /\ j \in 1..Len(a)
    BY <2>4, <1>2, <1>4, <1>5, <1>7 DEF ToSet, c
  <2> QED BY <2>1, <2>2, <2>3, <2>4
<1> QED BY <1>1, <1>6, <1>7 DEF c

\* What FlattenSeq returns: the type, the elements, and when none occurs twice.
LEMMA Flattened ==
  ASSUME NEW T, NEW ss \in Seq(Seq(T))
  PROVE  /\ FlattenSeq(ss) \in Seq(T)
         /\ ToSet(FlattenSeq(ss)) = UNION {ToSet(ss[i]) : i \in DOMAIN ss}
         /\ (/\ \A i \in DOMAIN ss : IsInjective(ss[i])
             /\ \A i, j \in DOMAIN ss : i # j => ToSet(ss[i]) \cap ToSet(ss[j]) = {})
            => IsInjective(FlattenSeq(ss))
<1>1. CASE Len(ss) = 0
  <2>1. ss = <<>> /\ FlattenSeq(ss) = <<>> /\ DOMAIN ss = {}
    BY <1>1 DEF FlattenSeq
  <2>2. <<>> \in Seq(T) /\ ToSet(<<>>) = {} /\ IsInjective(<<>>)
    BY DEF ToSet, IsInjective
  <2>3. UNION {ToSet(ss[i]) : i \in DOMAIN ss} = {}
    BY <2>1
  <2> QED BY <2>1, <2>2, <2>3
<1>2. CASE Len(ss) # 0
  <2> DEFINE N == Len(ss)
             flatten[i \in 1..N] == IF i = 1 THEN ss[i] ELSE flatten[i - 1] \o ss[i]
             Apart == /\ \A i \in DOMAIN ss : IsInjective(ss[i])
                      /\ \A i, j \in DOMAIN ss : i # j => ToSet(ss[i]) \cap ToSet(ss[j]) = {}
             Joined(n) == /\ flatten[n] \in Seq(T)
                          /\ ToSet(flatten[n]) = UNION {ToSet(ss[i]) : i \in 1..n}
                          /\ Apart => IsInjective(flatten[n])
             S == {n \in Nat : n + 1 \in 1..N => Joined(n + 1)}
  <2>1. N \in Nat /\ N # 0 /\ DOMAIN ss = 1..N /\ \A i \in 1..N : ss[i] \in Seq(T)
    BY <1>2
  <2>2. flatten = [i \in 1..N |-> IF i = 1 THEN ss[i] ELSE flatten[i - 1] \o ss[i]]
    BY <2>1, FlattenPrefixes
  <2>3. FlattenSeq(ss) = flatten[N]
    BY <1>2 DEF FlattenSeq
  <2> HIDE DEF flatten, N
  <2>4. /\ flatten[1] = ss[1]
        /\ \A n \in 1..N : n # 1 => flatten[n] = flatten[n - 1] \o ss[n]
    <3> DEFINE f == [i \in 1..N |-> IF i = 1 THEN ss[i] ELSE flatten[i - 1] \o ss[i]]
    <3>1. 1 \in 1..N
      BY <2>1
    <3>2. f[1] = ss[1] /\ \A n \in 1..N : n # 1 => f[n] = flatten[n - 1] \o ss[n]
      BY <3>1
    <3>3. flatten = f
      BY <2>2
    <3> HIDE DEF f
    <3> QED BY <3>2, <3>3
  <2>5. 0 \in S
    <3>1. Joined(1)
      <4>1. {ToSet(ss[i]) : i \in 1..1} = {ToSet(ss[1])}
        OBVIOUS
      <4>2. UNION {ToSet(ss[i]) : i \in 1..1} = ToSet(ss[1])
        BY <4>1
      <4>3. ss[1] \in Seq(T) /\ 1 \in DOMAIN ss
        BY <2>1
      <4> QED BY <2>4, <4>2, <4>3
    <3> QED BY <3>1
  <2>6. ASSUME NEW n \in Nat, n \in S PROVE n + 1 \in S
    <3> HIDE DEF Joined
    <3> SUFFICES ASSUME n + 2 \in 1..N PROVE Joined(n + 2)
      <4>1. n + 1 + 1 = n + 2
        OBVIOUS
      <4> QED BY <4>1
    <3>0. n + 1 \in 1..N /\ Joined(n + 1) /\ n + 2 \in DOMAIN ss
      BY <2>1, <2>6
    <3> USE DEF Joined
    <3>1. n + 1 \in 1..N /\ Joined(n + 1) /\ n + 2 \in DOMAIN ss
      BY <3>0
    <3>2. flatten[n + 2] = flatten[n + 1] \o ss[n + 2]
      <4>1. \A m \in 1..N : m = n + 2 => m # 1 /\ m - 1 = n + 1
        OBVIOUS
      <4>2. \A m \in 1..N : m = n + 2 => flatten[m] = flatten[n + 1] \o ss[m]
        BY <2>4, <4>1
      <4> QED BY <4>2
    <3>3. ss[n + 2] \in Seq(T)
      BY <2>1
    <3> DEFINE a == flatten[n + 1]
               b == ss[n + 2]
    <3>4. /\ a \o b \in Seq(T)
          /\ ToSet(a \o b) = ToSet(a) \cup ToSet(b)
          /\ IsInjective(a) /\ IsInjective(b) /\ ToSet(a) \cap ToSet(b) = {} => IsInjective(a \o b)
      BY <3>1, <3>3, Concatenation
    <3>5. UNION {ToSet(ss[i]) : i \in 1..(n + 2)} = ToSet(a) \cup ToSet(b)
      <4>1. 1..(n + 2) = 1..(n + 1) \cup {n + 2}
        OBVIOUS
      <4>2. ToSet(a) = UNION {ToSet(ss[i]) : i \in 1..(n + 1)}
        BY <3>1
      <4> HIDE DEF a
      <4> QED BY <4>1, <4>2
    <3>6. Apart => IsInjective(a \o b)
      <4> SUFFICES ASSUME Apart PROVE IsInjective(a \o b)
        OBVIOUS
      <4>1. ToSet(a) = UNION {ToSet(ss[i]) : i \in 1..(n + 1)}
        BY <3>1
      <4>2. IsInjective(a) /\ IsInjective(b)
        BY <3>1
      <4>3. \A i \in 1..(n + 1) : ToSet(ss[i]) \cap ToSet(b) = {}
        <5>1. \A i \in 1..(n + 1) : i \in DOMAIN ss /\ i # n + 2
          BY <2>1, <3>1
        <5> QED BY <3>1, <5>1
      <4> HIDE DEF a, b
      <4>4. ToSet(a) \cap ToSet(b) = {}
        BY <4>1, <4>3
      <4> QED BY <3>4, <4>2, <4>4
    <3> QED BY <3>2, <3>4, <3>5, <3>6
  <2> HIDE DEF S
  <2>7. N - 1 \in S
    BY <2>1, <2>5, <2>6, Induction
  <2>8. Joined(N)
    <3>1. N - 1 + 1 = N /\ N \in 1..N
      BY <2>1
    <3> QED BY <2>7, <3>1 DEF S
  <2> QED BY <2>1, <2>3, <2>8
<1>3. Len(ss) \in Nat
  OBVIOUS
<1> QED BY <1>1, <1>2

\* SetToSeq lists a finite set, each element once.
LEMMA Listed ==
  ASSUME NEW S, IsFiniteSet(S)
  PROVE  /\ SetToSeq(S) \in [1..Cardinality(S) -> S]
         /\ SetToSeq(S) \in Seq(S) /\ Len(SetToSeq(S)) = Cardinality(S)
         /\ ToSet(SetToSeq(S)) = S
         /\ IsInjective(SetToSeq(S))
<1>1. Cardinality(S) \in Nat /\ ExistsBijection(1..Cardinality(S), S)
  BY FS_CardinalityType
<1>2. \E f \in [1..Cardinality(S) -> S] : IsInjective(f)
  BY <1>1 DEF ExistsBijection, Bijection, Injection
<1> DEFINE f == SetToSeq(S)
           n == Cardinality(S)
<1>3. f \in [1..n -> S] /\ IsInjective(f)
  BY <1>2 DEF SetToSeq
<1>4. IsFiniteSet(1..n) /\ Cardinality(1..n) = n
  BY <1>1, FS_Interval
<1> HIDE DEF f
<1>5. f \in Injection(1..n, S)
  BY <1>3 DEF Injection
<1>6. f \in Surjection(1..n, S)
  BY <1>1, <1>4, <1>5, FS_Injection
<1>7. ToSet(f) = S
  BY <1>3, <1>6 DEF Surjection, ToSet
<1>8. f \in Seq(S) /\ Len(f) = n
  BY <1>1, <1>3
<1> QED BY <1>3, <1>7, <1>8 DEF f

-----------------------------------------------------------------------------
\* R orders the set E strictly and totally.
StrictOrder(R, E) ==
  /\ \A a \in E : <<a, a>> \notin R
  /\ \A a, b \in E : a # b => <<a, b>> \in R \/ <<b, a>> \in R
  /\ \A a, b, c \in E : <<a, b>> \in R /\ <<b, c>> \in R => <<a, c>> \in R

\* The positions of the elements that R puts before the i-th.
Under(s, R, i) == {j \in DOMAIN s : <<s[j], s[i]>> \in R}

\* Among distinct elements under a strict total order, every rank is taken, and a
\* smaller element has a smaller rank.
LEMMA Ranks ==
  ASSUME NEW E, NEW s \in Seq(E), IsInjective(s), NEW R, StrictOrder(R, ToSet(s))
  PROVE  /\ \A i, k \in DOMAIN s :
               <<s[i], s[k]>> \in R => Cardinality(Under(s, R, i)) < Cardinality(Under(s, R, k))
         /\ \A n \in DOMAIN s : \E i \in DOMAIN s : Cardinality(Under(s, R, i)) = n - 1
<1> DEFINE r == [i \in DOMAIN s |-> Cardinality(Under(s, R, i))]
           N == Len(s)
           D == DOMAIN s
           U(i) == {j \in D : <<s[j], s[i]>> \in R}
<1>1. N \in Nat /\ D = 1..N /\ IsFiniteSet(D) /\ Cardinality(D) = N
  <2>1. N \in Nat /\ D = 1..N
    OBVIOUS
  <2> HIDE DEF N, D
  <2>2. IsFiniteSet(1..N) /\ Cardinality(1..N) = N
    BY <2>1, FS_Interval
  <2> QED BY <2>1, <2>2
<1>2. \A i \in D : s[i] \in ToSet(s)
  BY DEF ToSet
<1> HIDE DEF D, N
<1>3. ASSUME NEW i \in D
      PROVE  IsFiniteSet(U(i)) /\ Cardinality(U(i)) \in 0..(N - 1)
  <2>1. U(i) \subseteq D \ {i}
    BY <1>2 DEF StrictOrder
  <2>2. IsFiniteSet(D \ {i}) /\ Cardinality(D \ {i}) = N - 1
    BY <1>1, FS_RemoveElement
  <2> HIDE DEF U
  <2>3. IsFiniteSet(U(i)) /\ Cardinality(U(i)) <= N - 1
    BY <2>1, <2>2, FS_Subset
  <2>4. Cardinality(U(i)) \in Nat
    BY <2>3, FS_CardinalityType
  <2> QED BY <1>1, <2>3, <2>4
<1>4. ASSUME NEW i \in D, NEW k \in D, <<s[i], s[k]>> \in R
      PROVE  Cardinality(U(i)) < Cardinality(U(k))
  <2>1. U(i) \subseteq U(k)
    BY <1>2, <1>4 DEF StrictOrder
  <2>2. i \in U(k) /\ i \notin U(i)
    BY <1>2, <1>4 DEF StrictOrder
  <2> HIDE DEF U
  <2>3. /\ Cardinality(U(i)) <= Cardinality(U(k))
        /\ Cardinality(U(k)) = Cardinality(U(i)) => U(k) = U(i)
    BY <1>3, <2>1, FS_Subset
  <2>4. Cardinality(U(i)) \in Nat /\ Cardinality(U(k)) \in Nat
    BY <1>3
  <2> QED BY <2>2, <2>3, <2>4
<1>5. \A i \in D : r[i] = Cardinality(U(i))
  BY DEF D, Under
<1> HIDE DEF U, r
<1>6. \A i, k \in D : <<s[i], s[k]>> \in R => r[i] < r[k]
  BY <1>4, <1>5
<1> DEFINE q == [i \in D |-> r[i]]
<1>7. q \in [D -> 0..(N - 1)]
  BY <1>3, <1>5
<1>8. ASSUME NEW i \in D, NEW k \in D, q[i] = q[k] PROVE i = k
  <2>1. r[i] \in Nat /\ r[k] \in Nat /\ r[i] = r[k]
    BY <1>3, <1>5, <1>8
  <2>2. i # k => s[i] # s[k]
    BY DEF IsInjective, D
  <2>3. i # k => <<s[i], s[k]>> \in R \/ <<s[k], s[i]>> \in R
    BY <1>2, <2>2 DEF StrictOrder
  <2>4. i # k => r[i] < r[k] \/ r[k] < r[i]
    BY <1>6, <2>3
  <2> QED BY <2>1, <2>4
<1>9. q \in Injection(D, 0..(N - 1))
  BY <1>7, <1>8 DEF Injection, IsInjective
<1>10. IsFiniteSet(0..(N - 1)) /\ Cardinality(0..(N - 1)) = N
  BY <1>1, FS_Interval
<1> HIDE DEF q
<1>11. q \in Surjection(D, 0..(N - 1))
  BY <1>1, <1>9, <1>10, FS_Injection
<1>12. ASSUME NEW n \in D PROVE \E i \in D : r[i] = n - 1
  <2>1. n - 1 \in 0..(N - 1)
    BY <1>1
  <2>2. PICK i \in D : q[i] = n - 1
    BY <1>11, <2>1 DEF Surjection
  <2> QED BY <2>2 DEF q
<1> QED BY <1>6, <1>12 DEF D, r

\* The elements by their ranks: all of them, each once, and sorted.
LEMMA RankedAreSorted ==
  ASSUME NEW E, NEW s \in Seq(E), IsInjective(s), NEW R, StrictOrder(R, ToSet(s)),
         NEW t \in [DOMAIN s -> E],
         \A n \in DOMAIN s : \E i \in DOMAIN s : Cardinality(Under(s, R, i)) = n - 1 /\ t[n] = s[i]
  PROVE  /\ t \in Seq(E) /\ Len(t) = Len(s)
         /\ ToSet(t) = ToSet(s) /\ IsInjective(t)
         /\ \A n, m \in DOMAIN t : n < m => <<t[n], t[m]>> \in R
<1> DEFINE D == DOMAIN s
           r == [i \in DOMAIN s |-> Cardinality(Under(s, R, i))]
<1>1. /\ \A i, k \in D : <<s[i], s[k]>> \in R => r[i] < r[k]
      /\ \A n \in D : \E i \in D : r[i] = n - 1
  BY Ranks
<1>2. D = 1..Len(s) /\ Len(s) \in Nat /\ D \subseteq Nat
  OBVIOUS
<1>3. t \in Seq(E) /\ Len(t) = Len(s) /\ DOMAIN t = D
  <2>1. t \in [1..Len(s) -> E] /\ Len(s) \in Nat
    BY <1>2
  <2>2. DOMAIN t = 1..Len(s) /\ t \in Seq(E)
    BY <2>1
  <2>3. Len(t) = Len(s)
    BY <2>1, <2>2
  <2> HIDE DEF r, D
  <2> QED BY <1>2, <2>2, <2>3
<1>4. \A i \in D : s[i] \in ToSet(s)
  BY DEF ToSet
<1>5. ASSUME NEW i \in D PROVE r[i] \in Nat
  <2>1. IsFiniteSet(D)
    BY <1>2, FS_Interval
  <2>2. IsFiniteSet(Under(s, R, i))
    BY <2>1, FS_Subset DEF Under
  <2> QED BY <2>2, FS_CardinalityType
<1>a. \A n \in D : \E i \in D : r[i] = n - 1 /\ t[n] = s[i]
  OBVIOUS
<1> HIDE DEF D, r
<1>6. \A i, k \in D : r[i] = r[k] => i = k
  <2> SUFFICES ASSUME NEW i \in D, NEW k \in D, i # k PROVE r[i] # r[k]
    OBVIOUS
  <2>1. s[i] # s[k]
    BY DEF IsInjective, D
  <2>2. <<s[i], s[k]>> \in R \/ <<s[k], s[i]>> \in R
    BY <1>4, <2>1 DEF StrictOrder
  <2>3. r[i] < r[k] \/ r[k] < r[i]
    BY <1>1, <2>2 DEF D
  <2>4. r[i] \in Nat /\ r[k] \in Nat
    BY <1>5
  <2> QED BY <2>3, <2>4
<1>7. ASSUME NEW n \in D, NEW m \in D, n < m PROVE <<t[n], t[m]>> \in R
  <2>1. PICK i \in D : r[i] = n - 1 /\ t[n] = s[i]
    BY <1>a
  <2>2. PICK k \in D : r[k] = m - 1 /\ t[m] = s[k]
    BY <1>a
  <2>3. r[i] < r[k] /\ n \in Nat /\ m \in Nat
    BY <1>2, <1>7, <2>1, <2>2
  <2>4. i # k /\ ~(r[k] < r[i])
    BY <1>5, <2>3
  <2>5. s[i] # s[k]
    BY <2>4 DEF IsInjective, D
  <2>6. <<s[i], s[k]>> \in R \/ <<s[k], s[i]>> \in R
    BY <1>4, <2>5 DEF StrictOrder
  <2> QED BY <1>1, <2>1, <2>2, <2>4, <2>6
<1>8. \A n \in D : t[n] \in ToSet(s)
  BY <1>4, <1>a
<1>9. IsInjective(t)
  <2> SUFFICES ASSUME NEW n \in D, NEW m \in D, n # m PROVE t[n] # t[m]
    BY <1>3 DEF IsInjective
  <2>1. <<t[n], t[m]>> \in R \/ <<t[m], t[n]>> \in R
    <3>1. n \in Int /\ m \in Int
      BY <1>2
    <3>2. n < m \/ m < n
      BY ONLY <3>1, n # m
    <3> QED BY <1>7, <3>2
  <2> QED BY <1>8, <2>1 DEF StrictOrder
<1>10. ToSet(t) = ToSet(s)
  <2>1. ToSet(t) \subseteq ToSet(s)
    BY <1>3, <1>8 DEF ToSet
  <2>2. IsFiniteSet(D) /\ Cardinality(D) = Len(s)
    BY <1>2, FS_Interval
  <2>3. t \in [D -> ToSet(s)] /\ s \in [D -> ToSet(s)]
    BY <1>3, <1>4, <1>8 DEF D
  <2>4. s \in Surjection(D, ToSet(s)) /\ s \in Injection(D, ToSet(s))
    BY <2>3 DEF Surjection, Injection, ToSet, D
  <2>5. IsFiniteSet(ToSet(s)) /\ Cardinality(ToSet(s)) = Cardinality(D)
    BY <2>2, <2>4, FS_Surjection
  <2>6. t \in Injection(D, ToSet(s))
    BY <1>9, <2>3 DEF Injection
  <2>7. t \in Surjection(D, ToSet(s))
    BY <2>5, <2>6, FS_Injection
  <2>8. ToSet(s) \subseteq ToSet(t)
    BY <1>3, <2>7 DEF Surjection, ToSet
  <2> QED BY <2>1, <2>8
<1> QED BY <1>3, <1>7, <1>9, <1>10

\* A set has one sorted enumeration.
LEMMA SortedOnce ==
  ASSUME NEW E, NEW t \in Seq(E), NEW u \in Seq(E), NEW R, StrictOrder(R, ToSet(t)),
         ToSet(t) = ToSet(u), Len(t) = Len(u),
         \A n, m \in DOMAIN t : n < m => <<t[n], t[m]>> \in R,
         \A n, m \in DOMAIN u : n < m => <<u[n], u[m]>> \in R
  PROVE  t = u
<1> DEFINE D == DOMAIN t
<1>1. D = 1..Len(t) /\ Len(t) \in Nat /\ DOMAIN u = D /\ D \subseteq Nat
  OBVIOUS
<1>2. \A n \in D : t[n] \in ToSet(t) /\ u[n] \in ToSet(t)
  BY <1>1 DEF ToSet
<1> HIDE DEF D
<1>3. ASSUME NEW n \in D, t[n] # u[n], \A m \in D : m < n => t[m] = u[m] PROVE FALSE
  <2>1. PICK m \in D : u[n] = t[m]
    BY <1>2 DEF ToSet, D
  <2>2. PICK k \in D : t[n] = u[k]
    BY <1>1, <1>2 DEF ToSet
  <2>3. ~(m < n) /\ m # n
    <3>1. m < n => u[m] = u[n]
      BY <1>3, <2>1
    <3>2. m < n => <<u[m], u[n]>> \in R
      BY <1>1
    <3> QED BY <1>2, <1>3, <2>1, <3>1, <3>2 DEF StrictOrder
  <2>4. ~(k < n) /\ k # n
    <3>1. k < n => t[k] = t[n]
      BY <1>3, <2>2
    <3>2. k < n => <<t[k], t[n]>> \in R
      BY <1>1 DEF D
    <3> QED BY <1>2, <1>3, <2>2, <3>1, <3>2 DEF StrictOrder
  <2>5. n < m /\ n < k
    BY <1>1, <2>3, <2>4
  <2>6. <<t[n], t[m]>> \in R /\ <<u[n], u[k]>> \in R
    BY <1>1, <2>5 DEF D
  <2> QED BY <1>2, <2>1, <2>2, <2>6 DEF StrictOrder
<1>4. \A n \in D : t[n] = u[n]
  <2> SUFFICES ASSUME {n \in D : t[n] # u[n]} # {} PROVE FALSE
    OBVIOUS
  <2>1. PICK n \in {m \in D : t[m] # u[m]} : \A m \in {k \in D : t[k] # u[k]} : n <= m
    BY <1>1, Least
  <2>2. \A m \in D : m < n => t[m] = u[m]
    BY <1>1, <2>1
  <2> QED BY <1>3, <2>1, <2>2
<1> QED BY <1>1, <1>4 DEF D

-----------------------------------------------------------------------------
\* What is left of distinct elements when the first is taken.
LEMMA Rest ==
  ASSUME NEW T, NEW s \in Seq(T), s # <<>>, IsInjective(s)
  PROVE  /\ Head(s) \in ToSet(s) /\ Head(s) \in T
         /\ Tail(s) \in Seq(T) /\ IsInjective(Tail(s))
         /\ ToSet(Tail(s)) = ToSet(s) \ {Head(s)}
<1>1. /\ Len(s) \in Nat \ {0} /\ DOMAIN s = 1..Len(s) /\ Head(s) = s[1]
      /\ Tail(s) \in Seq(T) /\ Len(Tail(s)) = Len(s) - 1 /\ DOMAIN Tail(s) = 1..(Len(s) - 1)
      /\ \A n \in 1..(Len(s) - 1) : Tail(s)[n] = s[n + 1]
  OBVIOUS
<1>2. \A n, m \in 1..Len(s) : s[n] = s[m] => n = m
  BY <1>1 DEF IsInjective
<1>3. IsInjective(Tail(s))
  <2> SUFFICES ASSUME NEW n \in 1..(Len(s) - 1), NEW m \in 1..(Len(s) - 1), Tail(s)[n] = Tail(s)[m] PROVE n = m
    BY <1>1 DEF IsInjective
  <2>1. n + 1 \in 1..Len(s) /\ m + 1 \in 1..Len(s) /\ s[n + 1] = s[m + 1]
    BY <1>1
  <2>2. n + 1 = m + 1
    BY <1>2, <2>1
  <2> QED BY <2>2
<1>4. ASSUME NEW x \in ToSet(Tail(s)) PROVE x \in ToSet(s) /\ x # Head(s)
  <2>1. PICK n \in 1..(Len(s) - 1) : x = s[n + 1]
    BY <1>1 DEF ToSet
  <2>2. n + 1 \in 1..Len(s) /\ n + 1 # 1 /\ 1 \in 1..Len(s)
    BY <1>1
  <2> QED BY <1>1, <1>2, <2>1, <2>2 DEF ToSet
<1>5. ASSUME NEW x \in ToSet(s), x # Head(s) PROVE x \in ToSet(Tail(s))
  <2>1. PICK n \in 1..Len(s) : x = s[n]
    BY <1>1 DEF ToSet
  <2>2. n # 1 /\ n - 1 \in 1..(Len(s) - 1) /\ (n - 1) + 1 = n
    BY <1>1, <1>5, <2>1
  <2> QED BY <1>1, <2>1, <2>2 DEF ToSet
<1>6. Head(s) \in ToSet(s) /\ Head(s) \in T
  BY <1>1 DEF ToSet
<1> QED BY <1>1, <1>3, <1>4, <1>5, <1>6

\* A sequence of numbers is bounded.
LEMMA Bounded ==
  ASSUME NEW s \in Seq(Nat)
  PROVE  \E b \in Nat : \A i \in DOMAIN s : s[i] <= b
<1> DEFINE S == {n \in Nat : \E b \in Nat : \A i \in DOMAIN s : i <= n => s[i] <= b}
<1>1. DOMAIN s = 1..Len(s) /\ Len(s) \in Nat /\ \A i \in DOMAIN s : s[i] \in Nat /\ i \in Nat
  OBVIOUS
<1>2. 0 \in S
  <2>1. \A i \in DOMAIN s : ~(i <= 0)
    BY <1>1
  <2> QED BY <2>1
<1>3. ASSUME NEW n \in Nat, n \in S PROVE n + 1 \in S
  <2>1. PICK b \in Nat : \A i \in DOMAIN s : i <= n => s[i] <= b
    BY <1>3
  <2>2. PICK c \in Nat : n + 1 \in DOMAIN s => c = s[n + 1]
    BY <1>1
  <2> DEFINE d == b + c
  <2>3. d \in Nat /\ b <= d /\ c <= d
    OBVIOUS
  <2> HIDE DEF d
  <2>4. ASSUME NEW i \in DOMAIN s, i <= n + 1 PROVE s[i] <= d
    <3>1. CASE i <= n
      BY <1>1, <2>1, <2>3, <3>1
    <3>2. CASE i = n + 1
      BY <1>1, <2>2, <2>3, <3>2
    <3> QED BY <1>1, <2>4, <3>1, <3>2
  <2> QED BY <2>3, <2>4
<1> HIDE DEF S
<1>4. Nat \subseteq S
  BY <1>2, <1>3, Induction
<1>5. Len(s) \in S
  BY <1>1, <1>4
<1> QED BY <1>1, <1>5 DEF S

-----------------------------------------------------------------------------
\* The least and the greatest of two numbers.
LEMMA LeastOfTwo ==
  ASSUME NEW x \in Int, NEW y \in Int
  PROVE  Min({x, y}) = IF x <= y THEN x ELSE y
BY DEF Min

LEMMA MostOfTwo ==
  ASSUME NEW x \in Int, NEW y \in Int
  PROVE  Max({x, y}) = IF x >= y THEN x ELSE y
BY DEF Max

\* Multiplying keeps the order.
LEMMA TimesKeepsOrder ==
  ASSUME NEW x \in Int, NEW y \in Int, x <= y, NEW n \in Nat
  PROVE  n * x <= n * y
<1>1. n * (y - x) >= 0
  <2> DEFINE z == y - x
  <2>1. z \in Nat
    OBVIOUS
  <2> HIDE DEF z
  <2>2. n * z \in Nat
    BY <2>1
  <2> QED BY <2>2 DEF z
<1> QED BY <1>1

\* A quotient, taken back as often as its divisor, is no more than what was divided.
LEMMA QuotientFits ==
  ASSUME NEW x \in Int, NEW n \in Nat \ {0}
  PROVE  x \div n \in Int /\ n * (x \div n) <= x /\ x - n < n * (x \div n)
<1>1. x \div n \in Int /\ x % n \in 0..(n - 1)
  OBVIOUS
<1>2. x = n * (x \div n) + (x % n)
  OBVIOUS
<1> DEFINE q == n * (x \div n)
<1>3. q \in Int
  BY <1>1
<1> HIDE DEF q
<1>4. x = q + (x % n)
  BY <1>2 DEF q
<1>5. q <= x /\ x - n < q
  BY <1>1, <1>3, <1>4
<1> QED BY <1>1, <1>5 DEF q
===============================================================================
