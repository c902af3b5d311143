------------------------------ MODULE FoldProofs ------------------------------
(***************************************************************************)
(* Proofs about the folds of rsec16/fold.go, for any number of inputs, rows *)
(* and goroutines and any batch size.  Without SIMD: PureInv is inductive,  *)
(* the buffer being folded is never read into, no goroutine outlives the    *)
(* call, and the fold implements FoldInputs.  With SIMD: FoldInv is         *)
(* inductive, the banks never race, no range has two folders, inputs are    *)
(* asked for in order where that is promised, no goroutine outlives the     *)
(* call, and the pipeline implements FoldInputs.                            *)
(***************************************************************************)
EXTENDS MCFold, Integers, TLAPS


-----------------------------------------------------------------------------
\* Type correctness, but for the rows, of which PureSumHolds says more.
PureTypeOK ==
  /\ pureMain \in {"called", "receive", "fold", "returned"}
  /\ j \in 0..(PureInputs - 1) /\ ask \in 0..(PureInputs - 1) /\ cur \in {0, 1}
  /\ bufs \in [{0, 1} -> 0..PureInputs]
  /\ reading \in BOOLEAN /\ pureRefused \in BOOLEAN
  /\ rest \in [PureGo!Workers -> SUBSET PureGo!Rows]
  /\ pureOutcome \in {"running", "ok", "error"}

\* Input d has been asked for: it is being read, or it is in its buffer, or it was refused.
Asked(d) ==
  /\ ask = d
  /\ \/ reading /\ sent = {} /\ ~pureRefused
     \/ /\ ~reading
        /\ sent = {[buf |-> PureGo!Buffer(d), err |-> pureRefused]}
        /\ ~pureRefused => bufs[PureGo!Buffer(d)] = d

Nothing == ~reading /\ sent = {} /\ ~pureRefused

\* One input is read ahead, never more, and the last is followed by none.
PureReadHolds ==
  /\ pureMain = "called" => Nothing /\ j = 0
  /\ pureMain = "receive" => Asked(j)
  /\ pureMain = "fold" => /\ cur = PureGo!Buffer(j) /\ bufs[cur] = j
                      /\ IF PureGo!More THEN Asked(j + 1) ELSE Nothing
  /\ pureMain = "returned" => ~reading /\ sent = {} /\ (pureOutcome = "ok" <=> ~pureRefused)
  /\ pureOutcome = "running" <=> pureMain # "returned"

\* A row that no goroutine still has to fold holds one input more.
Folding(i) == \E w \in PureGo!Workers : i \in rest[w]
PureSumHolds ==
  /\ pureMain = "called" => \A i \in PureGo!Rows : rows[i] = PureGo!Stale
  /\ pureMain = "receive" => \A i \in PureGo!Rows : rows[i] = PureGo!SumOf(j)
  /\ pureMain = "fold" => \A i \in PureGo!Rows : rows[i] = IF Folding(i) THEN PureGo!SumOf(j) ELSE PureGo!SumOf(j + 1)
  /\ pureOutcome = "ok" => \A i \in PureGo!Rows : rows[i] = PureGo!SumOf(PureInputs)
  /\ pureMain # "fold" => PureGo!AllFolded
  /\ \A v, w \in PureGo!Workers : v # w => rest[v] \cap rest[w] = {}
  /\ rows = [i \in PureGo!Rows |-> rows[i]]

PureInv == PureTypeOK /\ PureReadHolds /\ PureSumHolds

-----------------------------------------------------------------------------
\* A multiple of d below d is zero.
LEMMA SmallMultiple ==
  ASSUME NEW d \in Nat \ {0}, NEW c \in Int, 0 <= d * c, d * c < d
  PROVE  c = 0
<1>1. CASE c >= 1
  <2>1. d * c >= d * 1
    BY <1>1
  <2> QED BY <2>1
<1>2. CASE c <= -1
  <2>1. d * c <= d * (-1)
    BY <1>2
  <2> QED BY <2>1
<1> QED BY <1>1, <1>2

\* A multiple of d leaves no remainder.
LEMMA NoRemainder ==
  ASSUME NEW d \in Nat \ {0}, NEW q \in Int
  PROVE  (d * q) % d = 0
<1> DEFINE x == d * q
<1>1. x \in Int /\ x \div d \in Int /\ x % d \in 0..(d - 1) /\ x = d * (x \div d) + (x % d)
  OBVIOUS
<1>2. x % d = d * (q - x \div d)
  BY <1>1
<1>3. q - x \div d = 0
  BY <1>1, <1>2, SmallMultiple
<1> QED BY <1>2, <1>3

\* The parameters a caller gives, and the goroutines made of them.
LEMMA PureSizes ==
  /\ PureInputs \in Nat \ {0} /\ PureRows \in Nat \ {0}
  /\ PureGo!WorkerCount \in Nat \ {0} /\ PureGo!Workers = 1..PureGo!WorkerCount /\ PureGo!Rows = 1..PureRows
  /\ PureRefuse \subseteq 0..(PureInputs - 1)
BY PureAssumption DEF PureGo!FoldAssumption, PureGo!WorkerCount, PureGo!Workers, PureGo!Rows

\* Every row is in one goroutine's stride.
LEMMA EveryRowFolded ==
  ASSUME NEW i \in PureGo!Rows
  PROVE  \E w \in PureGo!Workers : i \in PureGo!Stride(w)
<1> DEFINE d == PureGo!WorkerCount
           w == ((i - 1) % d) + 1
           q == (i - 1) \div d
<1>1. d \in Nat \ {0} /\ i \in Int /\ PureGo!Workers = 1..d
  BY PureSizes
<1>2. q \in Int /\ (i - 1) % d \in 0..(d - 1) /\ i - 1 = d * q + ((i - 1) % d)
  BY <1>1
<1>3. w \in PureGo!Workers
  BY <1>1, <1>2
<1>4. i - w = d * q
  BY <1>1, <1>2
<1>5. (d * q) % d = 0
  BY <1>1, <1>2, NoRemainder
<1>6. (i - w) % d = 0
  BY <1>4, <1>5
<1> HIDE DEF w, q
<1> QED BY <1>3, <1>6 DEF PureGo!Stride

\* No row is in two strides.
LEMMA OneStridePerRow ==
  ASSUME NEW v \in PureGo!Workers, NEW w \in PureGo!Workers, NEW i \in PureGo!Stride(v) \cap PureGo!Stride(w)
  PROVE  v = w
<1> DEFINE d == PureGo!WorkerCount
           a == (i - v) \div d
           b == (i - w) \div d
<1>1. d \in Nat \ {0} /\ i \in Int /\ v \in 1..d /\ w \in 1..d
  BY PureSizes DEF PureGo!Stride
<1>2. (i - v) % d = 0 /\ (i - w) % d = 0
  BY DEF PureGo!Stride
<1>3. a \in Int /\ b \in Int /\ i - v = d * a /\ i - w = d * b
  <2>1. a \in Int /\ i - v = d * a + ((i - v) % d)
    BY <1>1
  <2>2. b \in Int /\ i - w = d * b + ((i - w) % d)
    BY <1>1
  <2> QED BY <1>1, <1>2, <2>1, <2>2
<1>4. w - v = d * (a - b) /\ v - w = d * (b - a)
  BY <1>1, <1>3
<1>5. CASE w >= v
  <2>1. a - b = 0
    BY <1>1, <1>3, <1>4, <1>5, SmallMultiple
  <2> QED BY <1>1, <1>3, <1>4, <2>1
<1>6. CASE v >= w
  <2>1. b - a = 0
    BY <1>1, <1>3, <1>4, <1>6, SmallMultiple
  <2> QED BY <1>1, <1>3, <1>4, <2>1
<1> QED BY <1>1, <1>5, <1>6

\* Inputs that follow each other have different buffers.
LEMMA BuffersAlternate ==
  ASSUME NEW d \in Nat
  PROVE  PureGo!Buffer(d) \in {0, 1} /\ PureGo!Buffer(d + 1) \in {0, 1} /\ PureGo!Buffer(d) # PureGo!Buffer(d + 1)
BY DEF PureGo!Buffer

\* Sums of different numbers of inputs have different lengths.
LEMMA SumsDiffer ==
  ASSUME NEW m \in Nat, NEW d \in Nat, m < d
  PROVE  PureGo!SumOf(m) # PureGo!SumOf(d)
<1>1. DOMAIN PureGo!SumOf(m) = 1..m /\ DOMAIN PureGo!SumOf(d) = 1..d
  BY DEF PureGo!SumOf
<1>2. d \in 1..d /\ d \notin 1..m
  OBVIOUS
<1> QED BY <1>1, <1>2

\* One more product makes the next sum.
LEMMA SumGrows ==
  ASSUME NEW m \in Nat
  PROVE  Append(PureGo!SumOf(m), <<m, m>>) = PureGo!SumOf(m + 1)
BY DEF PureGo!SumOf

LEMMA NoSum ==
  PureGo!SumOf(0) = <<>>
BY DEF PureGo!SumOf

\* What a caller's row holds is not the sum.
LEMMA StaleIsNoSum ==
  PureGo!Stale # PureGo!SumOf(PureInputs)
<1>1. PureGo!Stale[1] = <<PureInputs, PureInputs>> /\ PureInputs \in Nat \ {0}
  BY PureSizes DEF PureGo!Stale, PureGo!Blank
<1>2. PureGo!SumOf(PureInputs)[1] = <<0, 0>>
  <2>1. 1 \in 1..PureInputs /\ 1 - 1 = 0
    BY <1>1
  <2>2. PureGo!SumOf(PureInputs)[1] = <<1 - 1, 1 - 1>>
    BY <2>1 DEF PureGo!SumOf
  <2> QED BY <2>1, <2>2
<1>3. <<PureInputs, PureInputs>> # <<0, 0>>
  BY <1>1
<1> QED BY <1>1, <1>2, <1>3

-----------------------------------------------------------------------------
\* The call starts with stale rows and nothing asked for.
LEMMA PureInitInv == PureGo!Init => PureInv
<1> SUFFICES ASSUME PureGo!Init PROVE PureInv
  OBVIOUS
<1> USE PureSizes DEF PureGo!Init
<1>1. PureTypeOK
  <2>1. /\ j \in 0..(PureInputs - 1) /\ ask \in 0..(PureInputs - 1) /\ cur \in {0, 1}
        /\ bufs \in [{0, 1} -> 0..PureInputs]
    BY DEF PureGo!Blank
  <2>2. rest \in [PureGo!Workers -> SUBSET PureGo!Rows]
    OBVIOUS
  <2>3. pureMain \in {"called", "receive", "fold", "returned"} /\ pureOutcome \in {"running", "ok", "error"}
    OBVIOUS
  <2>4. reading \in BOOLEAN /\ pureRefused \in BOOLEAN
    OBVIOUS
  <2> QED BY <2>1, <2>2, <2>3, <2>4 DEF PureTypeOK
<1>2. PureReadHolds
  BY DEF PureReadHolds, Nothing
<1>3. PureSumHolds
  BY DEF PureSumHolds, PureGo!AllFolded
<1> QED BY <1>1, <1>2, <1>3 DEF PureInv

\* Clearing the rows makes them the sum of no input, and asks for the first.
LEMMA PureEnterInv ==
  ASSUME PureInv, PureGo!Enter
  PROVE  PureInv'
<1> USE DEF PureInv, PureGo!Enter
<1>1. /\ j' = j /\ cur' = cur /\ bufs' = bufs /\ sent' = sent /\ rest' = rest /\ pureOutcome' = pureOutcome
      /\ pureRefused' = pureRefused /\ pureMain = "called" /\ pureMain' = "receive" /\ reading' = TRUE /\ ask' = 0
  OBVIOUS
<1>2. PureTypeOK'
  BY <1>1, PureSizes DEF PureTypeOK
<1>3. j = 0 /\ sent = {} /\ ~pureRefused
  BY <1>1 DEF PureReadHolds, Nothing
<1>4. PureReadHolds'
  <2>1. Asked(j)'
    BY <1>1, <1>3 DEF Asked
  <2> QED BY <1>1, <2>1 DEF PureReadHolds
<1>5. PureSumHolds'
  <2>1. \A i \in PureGo!Rows : rows'[i] = PureGo!SumOf(j')
    BY <1>1, <1>3, NoSum
  <2>2. pureOutcome' # "ok" /\ PureGo!AllFolded' /\ rows' = [i \in PureGo!Rows |-> rows'[i]]
    BY <1>1 DEF PureReadHolds, PureSumHolds, PureGo!AllFolded
  <2> QED BY <1>1, <2>1, <2>2 DEF PureSumHolds
<1> QED BY <1>2, <1>4, <1>5

\* What is read goes into the buffer that is not being folded.
LEMMA ReadInv ==
  ASSUME PureInv, PureGo!Read
  PROVE  PureInv'
<1> USE DEF PureInv, PureGo!Read
<1>1. /\ pureMain' = pureMain /\ j' = j /\ cur' = cur /\ ask' = ask /\ rest' = rest /\ rows' = rows
      /\ pureOutcome' = pureOutcome /\ reading /\ reading' = FALSE
  OBVIOUS
<1>2. /\ pureMain \in {"receive", "fold"} /\ ~pureRefused
      /\ pureMain = "receive" => ask = j
      /\ pureMain = "fold" => PureGo!More /\ ask = j + 1 /\ cur = PureGo!Buffer(j) /\ bufs[cur] = j
  BY <1>1 DEF PureTypeOK, PureReadHolds, Asked, Nothing
<1>3. j \in Nat /\ ask \in Nat /\ PureGo!Buffer(ask) \in {0, 1} /\ cur \in {0, 1} /\ PureInputs \in Nat /\ ask \in 0..PureInputs
  BY PureSizes, BuffersAlternate DEF PureTypeOK
<1>4. /\ bufs' \in [{0, 1} -> 0..PureInputs] /\ pureRefused' \in BOOLEAN
      /\ \A b \in {0, 1} : b # PureGo!Buffer(ask) => bufs'[b] = bufs[b]
      /\ sent' = {[buf |-> PureGo!Buffer(ask), err |-> pureRefused']}
      /\ ~pureRefused' => bufs'[PureGo!Buffer(ask)] = ask
  <2>1. CASE /\ bufs' = [bufs EXCEPT ![PureGo!Buffer(ask)] = ask]
             /\ sent' = {[buf |-> PureGo!Buffer(ask), err |-> FALSE]}
             /\ UNCHANGED pureRefused
    <3>1. pureRefused' = FALSE
      BY <2>1, <1>2 DEF PureTypeOK
    <3> QED BY <2>1, <3>1, <1>3 DEF PureTypeOK
  <2>2. CASE /\ ask \in PureRefuse
             /\ bufs' = [bufs EXCEPT ![PureGo!Buffer(ask)] = PureGo!Blank]
             /\ sent' = {[buf |-> PureGo!Buffer(ask), err |-> TRUE]}
             /\ pureRefused' = TRUE
    <3>1. pureRefused' \in BOOLEAN /\ (~pureRefused' => bufs'[PureGo!Buffer(ask)] = ask)
      BY <2>2
    <3>2. sent' = {[buf |-> PureGo!Buffer(ask), err |-> pureRefused']}
      BY <2>2
    <3>3. /\ bufs' \in [{0, 1} -> 0..PureInputs]
          /\ \A b \in {0, 1} : b # PureGo!Buffer(ask) => bufs'[b] = bufs[b]
      BY <2>2, <1>3 DEF PureTypeOK, PureGo!Blank
    <3> QED BY <3>1, <3>2, <3>3
  <2> QED BY <2>1, <2>2
<1>5. PureTypeOK'
  BY <1>1, <1>4 DEF PureTypeOK
<1>6. PureReadHolds'
  <2>1. pureMain = "receive" => Asked(j)'
    BY <1>1, <1>2, <1>4 DEF Asked
  <2>2. pureMain = "fold" => Asked(j + 1)' /\ PureGo!More' /\ bufs'[cur] = j
    BY <1>1, <1>2, <1>3, <1>4, BuffersAlternate DEF Asked, PureGo!More
  <2> QED BY <1>1, <1>2, <2>1, <2>2 DEF PureReadHolds
<1>7. PureSumHolds'
  BY <1>1 DEF PureSumHolds, PureGo!AllFolded, Folding
<1> QED BY <1>5, <1>6, <1>7

\* An input that was read is folded into every row while the next one is asked for.
LEMMA ReceiveInv ==
  ASSUME PureInv, NEW r \in sent, PureGo!Receive(r)
  PROVE  PureInv'
<1> USE DEF PureInv, PureGo!Receive
<1>1. /\ pureMain = "receive" /\ j' = j /\ bufs' = bufs /\ rows' = rows /\ pureRefused' = pureRefused /\ sent' = {}
  OBVIOUS
<1>2. /\ ~reading /\ ask = j /\ r = [buf |-> PureGo!Buffer(j), err |-> pureRefused]
      /\ ~pureRefused => bufs[PureGo!Buffer(j)] = j
      /\ pureOutcome = "running" /\ PureGo!AllFolded
  BY <1>1 DEF PureReadHolds, Asked, PureSumHolds
<1>3. r.buf = PureGo!Buffer(j) /\ r.err = pureRefused /\ j \in Nat /\ PureGo!Buffer(j) \in {0, 1} /\ PureInputs \in Nat
      /\ j \in 0..(PureInputs - 1)
  BY <1>2, PureSizes, BuffersAlternate DEF PureTypeOK
<1>4. CASE pureRefused
  <2>1. /\ pureMain' = "returned" /\ pureOutcome' = "error" /\ cur' = cur /\ reading' = reading /\ ask' = ask /\ rest' = rest
    BY <1>3, <1>4
  <2>2. PureTypeOK'
    BY <1>1, <2>1 DEF PureTypeOK
  <2>3. PureReadHolds'
    BY <1>1, <1>2, <1>4, <2>1 DEF PureReadHolds
  <2>4. PureSumHolds'
    BY <1>1, <2>1 DEF PureSumHolds, PureGo!AllFolded
  <2> QED BY <2>2, <2>3, <2>4
<1>5. CASE ~pureRefused
  <2>1. /\ pureMain' = "fold" /\ cur' = PureGo!Buffer(j) /\ rest' = [w \in PureGo!Workers |-> PureGo!Stride(w)] /\ pureOutcome' = pureOutcome
        /\ IF PureGo!More THEN reading' = TRUE /\ ask' = j + 1 ELSE reading' = reading /\ ask' = ask
    BY <1>3, <1>5
  <2>2. ask' \in 0..(PureInputs - 1) /\ reading' \in BOOLEAN
    <3>1. CASE PureGo!More
      BY <3>1, <1>3, <2>1 DEF PureGo!More
    <3>2. CASE ~PureGo!More
      BY <3>2, <2>1 DEF PureTypeOK
    <3> QED BY <3>1, <3>2
  <2>3. rest' \in [PureGo!Workers -> SUBSET PureGo!Rows]
    BY <2>1 DEF PureGo!Stride
  <2>4. PureTypeOK'
    BY <1>1, <1>3, <2>1, <2>2, <2>3 DEF PureTypeOK
  <2>5. PureReadHolds'
    <3>1. PureGo!More => Asked(j + 1)'
      BY <1>1, <1>5, <2>1 DEF Asked
    <3>2. ~PureGo!More => Nothing'
      BY <1>1, <1>2, <1>5, <2>1 DEF Nothing
    <3>3. PureGo!More' <=> PureGo!More
      BY <1>1 DEF PureGo!More
    <3>4. cur' = PureGo!Buffer(j)' /\ bufs'[cur'] = j'
      BY <1>1, <1>2, <1>5, <2>1 DEF PureGo!Buffer
    <3> QED BY <1>1, <1>2, <2>1, <3>1, <3>2, <3>3, <3>4 DEF PureReadHolds
  <2>6. PureSumHolds'
    <3>1. \A i \in PureGo!Rows : Folding(i)'
      BY <2>1, EveryRowFolded DEF Folding
    <3>2. \A i \in PureGo!Rows : rows'[i] = PureGo!SumOf(j')
      BY <1>1 DEF PureSumHolds
    <3>3. \A v, w \in PureGo!Workers : v # w => rest'[v] \cap rest'[w] = {}
      BY <2>1, OneStridePerRow
    <3>4. pureOutcome' # "ok" /\ rows' = [i \in PureGo!Rows |-> rows'[i]]
      BY <1>1, <1>2, <2>1 DEF PureSumHolds
    <3> QED BY <2>1, <3>1, <3>2, <3>3, <3>4 DEF PureSumHolds
  <2> QED BY <2>4, <2>5, <2>6
<1> QED BY <1>4, <1>5

\* A goroutine adds the input to the first row it still has, which nobody else has.
LEMMA FoldRowInv ==
  ASSUME PureInv, NEW w \in PureGo!Workers, PureGo!FoldRow(w)
  PROVE  PureInv'
<1> USE DEF PureInv, PureGo!FoldRow
<1>1. /\ pureMain = "fold" /\ pureMain' = pureMain /\ j' = j /\ cur' = cur /\ bufs' = bufs /\ reading' = reading /\ ask' = ask
      /\ sent' = sent /\ pureOutcome' = pureOutcome /\ pureRefused' = pureRefused
  OBVIOUS
<1>2. PICK i \in rest[w] : /\ rows' = [rows EXCEPT ![i] = Append(@, <<j, bufs[cur]>>)]
                           /\ rest' = [rest EXCEPT ![w] = @ \ {i}]
  OBVIOUS
<1>3. i \in PureGo!Rows /\ j \in Nat /\ bufs[cur] = j /\ Folding(i)
  BY <1>1, <1>2, PureSizes DEF PureTypeOK, PureReadHolds, Folding
<1>4. /\ rest' \in [PureGo!Workers -> SUBSET PureGo!Rows] /\ rest'[w] = rest[w] \ {i}
      /\ \A v \in PureGo!Workers : v # w => rest'[v] = rest[v]
  BY <1>2 DEF PureTypeOK
<1>5. PureTypeOK'
  BY <1>1, <1>4 DEF PureTypeOK
<1>6. PureReadHolds'
  BY <1>1 DEF PureReadHolds, Asked, Nothing, PureGo!More, PureGo!Buffer
<1>7. /\ ~Folding(i)'
      /\ \A h \in PureGo!Rows : h # i => (Folding(h)' <=> Folding(h))
  <2>1. \A v \in PureGo!Workers : v # w => i \notin rest[v]
    BY <1>2 DEF PureSumHolds
  <2>2. ~Folding(i)'
    BY <1>4, <2>1 DEF Folding
  <2>3. ASSUME NEW h \in PureGo!Rows, h # i PROVE Folding(h)' <=> Folding(h)
    <3>1. \A v \in PureGo!Workers : h \in rest'[v] <=> h \in rest[v]
      BY <1>4, <2>3
    <3> QED BY <3>1 DEF Folding
  <2> QED BY <2>2, <2>3
<1>8. /\ rows'[i] = PureGo!SumOf(j + 1) /\ rows' = [h \in PureGo!Rows |-> rows'[h]]
      /\ \A h \in PureGo!Rows : h # i => rows'[h] = rows[h]
  <2>1. rows[i] = PureGo!SumOf(j)
    BY <1>1, <1>3 DEF PureSumHolds
  <2>2. rows = [h \in PureGo!Rows |-> rows[h]]
    BY DEF PureSumHolds
  <2>3. rows'[i] = Append(rows[i], <<j, j>>) /\ \A h \in PureGo!Rows : h # i => rows'[h] = rows[h]
    BY <1>2, <1>3, <2>2
  <2>4. rows' = [h \in PureGo!Rows |-> rows'[h]]
    BY <1>2, <2>2
  <2> QED BY <1>3, <2>1, <2>3, <2>4, SumGrows
<1>9. PureSumHolds'
  <2>1. \A h \in PureGo!Rows : rows'[h] = IF Folding(h)' THEN PureGo!SumOf(j) ELSE PureGo!SumOf(j + 1)
    BY <1>1, <1>7, <1>8 DEF PureSumHolds
  <2>2. \A u, v \in PureGo!Workers : u # v => rest'[u] \cap rest'[v] = {}
    BY <1>4 DEF PureSumHolds
  <2>3. pureOutcome' # "ok"
    BY <1>1 DEF PureReadHolds
  <2> QED BY <1>1, <1>8, <2>1, <2>2, <2>3 DEF PureSumHolds
<1> QED BY <1>5, <1>6, <1>9

\* Every row holds the input: the next one is received, or the rows are returned.
LEMMA EndFoldInv ==
  ASSUME PureInv, PureGo!EndFold
  PROVE  PureInv'
<1> USE DEF PureInv, PureGo!EndFold
<1>1. /\ pureMain = "fold" /\ PureGo!AllFolded /\ cur' = cur /\ bufs' = bufs /\ reading' = reading /\ ask' = ask
      /\ sent' = sent /\ rest' = rest /\ rows' = rows /\ pureRefused' = pureRefused
  OBVIOUS
<1>2. j \in 0..(PureInputs - 1) /\ PureInputs \in Nat /\ \A i \in PureGo!Rows : rows[i] = PureGo!SumOf(j + 1)
  BY <1>1, PureSizes DEF PureTypeOK, PureSumHolds, PureGo!AllFolded, Folding
<1>3. CASE PureGo!More
  <2>1. pureMain' = "receive" /\ j' = j + 1 /\ pureOutcome' = pureOutcome /\ j' \in 0..(PureInputs - 1)
    BY <1>2, <1>3 DEF PureGo!More
  <2>2. PureTypeOK'
    BY <1>1, <2>1 DEF PureTypeOK
  <2>3. PureReadHolds'
    <3>1. Asked(j)'
      BY <1>1, <1>3, <2>1 DEF PureReadHolds, Asked, PureGo!Buffer
    <3> QED BY <1>1, <2>1, <3>1 DEF PureReadHolds
  <2>4. PureSumHolds'
    BY <1>1, <1>2, <2>1 DEF PureSumHolds, PureGo!AllFolded, PureReadHolds
  <2> QED BY <2>2, <2>3, <2>4
<1>4. CASE ~PureGo!More
  <2>1. pureMain' = "returned" /\ pureOutcome' = "ok" /\ j' = j /\ j + 1 = PureInputs
    BY <1>2, <1>4 DEF PureGo!More
  <2>2. PureTypeOK'
    BY <1>1, <2>1 DEF PureTypeOK
  <2>3. PureReadHolds'
    BY <1>1, <1>4, <2>1 DEF PureReadHolds, Nothing
  <2>4. PureSumHolds'
    BY <1>1, <1>2, <2>1 DEF PureSumHolds, PureGo!AllFolded
  <2> QED BY <2>2, <2>3, <2>4
<1> QED BY <1>3, <1>4

-----------------------------------------------------------------------------
\* PureInv is inductive.
LEMMA PureStepInv == PureInv /\ [PureGo!Next]_(PureGo!vars) => PureInv'
<1> SUFFICES ASSUME PureInv, [PureGo!Next]_(PureGo!vars) PROVE PureInv'
  OBVIOUS
<1>1. CASE PureGo!Next
  BY <1>1, PureEnterInv, ReadInv, ReceiveInv, FoldRowInv, EndFoldInv DEF PureGo!Next
<1>2. CASE UNCHANGED PureGo!vars
  BY <1>2 DEF PureGo!vars, PureInv, PureTypeOK, PureReadHolds, PureSumHolds, Asked, Nothing, PureGo!More, PureGo!Buffer, PureGo!AllFolded, Folding
<1> QED BY <1>1, <1>2

\* One input is read ahead and the rows hold the sum of those before it, in every round
\* (fold.go:293-341).
THEOREM PureInvariance == PureGo!Spec => []PureInv
<1>1. PureGo!Init => PureInv
  BY PureInitInv
<1>2. PureInv /\ [PureGo!Next]_(PureGo!vars) => PureInv'
  BY PureStepInv
<1> QED BY <1>1, <1>2, PTL DEF PureGo!Spec

\* Without SIMD the buffer that is being folded is never read into ("Distinct buffer from the
\* one being folded", fold.go:320-321), and no goroutine is left when the call returns
\* (fold.go:325-341).
THEOREM PureFoldIsQuiet == PureGo!Spec => []PureGoroutinesBehave
<1>1. PureInv => PureGo!BufferIsQuiet
  BY BuffersAlternate DEF PureInv, PureTypeOK, PureReadHolds, Asked, Nothing, PureGo!BufferIsQuiet
<1>2. PureInv => PureGo!NoneLeft
  BY DEF PureInv, PureReadHolds, PureSumHolds, PureGo!NoneLeft
<1>3. PureInv => PureGoroutinesBehave
  BY <1>1, <1>2 DEF PureGoroutinesBehave
<1> QED BY <1>3, PureInvariance, PTL

-----------------------------------------------------------------------------
\* The rows that hold the whole sum.
FullRows == {i \in PureGo!Rows : rows[i] = PureGo!SumOf(PureInputs)}

\* Before the last input is folded no row is whole, and whole rows are left alone.
LEMMA NoneFull ==
  PureInv /\ pureMain \in {"called", "receive"} => FullRows = {}
<1> SUFFICES ASSUME PureInv, pureMain \in {"called", "receive"} PROVE FullRows = {}
  OBVIOUS
<1>1. CASE pureMain = "called"
  BY <1>1, StaleIsNoSum DEF PureInv, PureSumHolds, FullRows
<1>2. CASE pureMain = "receive"
  <2>1. j \in Nat /\ PureInputs \in Nat /\ j < PureInputs
    BY PureSizes DEF PureInv, PureTypeOK
  <2>2. PureGo!SumOf(j) # PureGo!SumOf(PureInputs)
    BY <2>1, SumsDiffer
  <2> QED BY <1>2, <2>2 DEF PureInv, PureSumHolds, FullRows
<1> QED BY <1>1, <1>2

\* Every way a step of the running fold may go is one the promise has.
LEMMA RunningStep ==
  ASSUME pureOutcome = "running", pureOutcome' = "running", FullRows \subseteq FullRows', FullRows' \subseteq PureGo!Rows,
         pureRefused' = pureRefused \/ (FullRows' = FullRows /\ pureRefused' = TRUE)
  PROVE  [PureGo!Promise!SumNext]_(PureGo!Promise!sumVars)
<1>1. CASE pureRefused' = pureRefused
  <2>1. FullRows' \in SUBSET PureGo!Rows
    OBVIOUS
  <2> QED BY <1>1, <2>1 DEF PureGo!Promise!SumNext, PureGo!Promise!Complete, FullRows
<1>2. CASE FullRows' = FullRows /\ pureRefused' = TRUE
  BY <1>2 DEF PureGo!Promise!SumNext, PureGo!Promise!Refuse, FullRows
<1> QED BY <1>1, <1>2

LEMMA ReturnStep ==
  ASSUME pureOutcome = "running", FullRows' = FullRows, pureRefused' = pureRefused,
         \/ pureOutcome' = "ok" /\ ~pureRefused /\ FullRows = PureGo!Rows
         \/ pureOutcome' = "error" /\ pureRefused
  PROVE  [PureGo!Promise!SumNext]_(PureGo!Promise!sumVars)
BY DEF PureGo!Promise!SumNext, PureGo!Promise!Succeed, PureGo!Promise!Fail, FullRows

LEMMA SameRows ==
  ASSUME rows' = rows
  PROVE  FullRows' = FullRows /\ FullRows \subseteq FullRows' /\ FullRows' \subseteq PureGo!Rows
BY DEF FullRows

\* The fold implements FoldInputs, step by step.
LEMMA PromiseStep ==
  ASSUME PureInv, PureInv', [PureGo!Next]_(PureGo!vars)
  PROVE  [PureGo!Promise!SumNext]_(PureGo!Promise!sumVars)
<1>1. CASE PureGo!Enter
  <2>1. pureMain = "called" /\ pureMain' = "receive" /\ pureOutcome' = pureOutcome /\ pureRefused' = pureRefused
    BY <1>1 DEF PureGo!Enter
  <2>2. pureOutcome = "running" /\ pureOutcome' = "running"
    BY <2>1 DEF PureInv, PureReadHolds
  <2>3. FullRows = {} /\ FullRows' \subseteq PureGo!Rows
    BY <2>1, NoneFull DEF FullRows
  <2>4. /\ FullRows \subseteq FullRows' /\ FullRows' \subseteq PureGo!Rows
        /\ pureRefused' = pureRefused \/ (FullRows' = FullRows /\ pureRefused' = TRUE)
    BY <2>1, <2>3
  <2> QED BY <2>2, <2>4, RunningStep
<1>2. CASE PureGo!Read
  <2>1. reading /\ rows' = rows /\ pureOutcome' = pureOutcome /\ (pureRefused' = pureRefused \/ pureRefused' = TRUE)
    BY <1>2 DEF PureGo!Read
  <2>2. pureOutcome = "running" /\ pureOutcome' = "running"
    BY <2>1 DEF PureInv, PureTypeOK, PureReadHolds
  <2>3. FullRows' = FullRows /\ FullRows \subseteq FullRows' /\ FullRows' \subseteq PureGo!Rows
    BY <2>1, SameRows
  <2>4. pureRefused' = pureRefused \/ (FullRows' = FullRows /\ pureRefused' = TRUE)
    BY <2>1, <2>3
  <2> QED BY <2>2, <2>3, <2>4, RunningStep
<1>3. CASE \E r \in sent : PureGo!Receive(r)
  <2>1. PICK r \in sent : PureGo!Receive(r)
    BY <1>3
  <2>2. pureMain = "receive" /\ rows' = rows /\ pureRefused' = pureRefused
    BY <2>1 DEF PureGo!Receive
  <2>3. pureOutcome = "running" /\ r.err = pureRefused
    BY <2>2 DEF PureInv, PureReadHolds, Asked
  <2>4. FullRows' = FullRows /\ FullRows \subseteq FullRows' /\ FullRows' \subseteq PureGo!Rows
    BY <2>2, SameRows
  <2>5. CASE pureRefused
    <3>1. pureOutcome' = "error" /\ pureRefused
      BY <2>1, <2>3, <2>5 DEF PureGo!Receive
    <3> QED BY <2>2, <2>3, <2>4, <3>1, ReturnStep
  <2>6. CASE ~pureRefused
    <3>1. pureOutcome' = "running"
      BY <2>1, <2>3, <2>6 DEF PureGo!Receive
    <3>2. pureRefused' = pureRefused \/ (FullRows' = FullRows /\ pureRefused' = TRUE)
      BY <2>2
    <3> QED BY <2>3, <2>4, <3>1, <3>2, RunningStep
  <2> QED BY <2>5, <2>6
<1>4. CASE \E w \in PureGo!Workers : PureGo!FoldRow(w)
  <2>1. PICK w \in PureGo!Workers : PureGo!FoldRow(w)
    BY <1>4
  <2>2. PICK i \in rest[w] : rows' = [rows EXCEPT ![i] = Append(@, <<j, bufs[cur]>>)]
    BY <2>1 DEF PureGo!FoldRow
  <2>3. pureMain = "fold" /\ pureOutcome' = pureOutcome /\ pureRefused' = pureRefused
    BY <2>1 DEF PureGo!FoldRow
  <2>4. pureOutcome = "running" /\ pureOutcome' = "running"
    BY <2>3 DEF PureInv, PureReadHolds
  <2>5. i \in PureGo!Rows /\ rows[i] = PureGo!SumOf(j) /\ j \in Nat /\ PureInputs \in Nat /\ j < PureInputs
    BY <2>1, <2>2, <2>3, PureSizes DEF PureInv, PureTypeOK, PureSumHolds, Folding
  <2>6. i \notin FullRows
    BY <2>5, SumsDiffer DEF FullRows
  <2>7. rows = [h \in PureGo!Rows |-> rows[h]]
    BY DEF PureInv, PureSumHolds
  <2>8. \A h \in PureGo!Rows : h # i => rows'[h] = rows[h]
    BY <2>2, <2>7
  <2>9. FullRows \subseteq FullRows' /\ FullRows' \subseteq PureGo!Rows
    BY <2>6, <2>8 DEF FullRows
  <2>10. pureRefused' = pureRefused \/ (FullRows' = FullRows /\ pureRefused' = TRUE)
    BY <2>3
  <2> QED BY <2>4, <2>9, <2>10, RunningStep
<1>5. CASE PureGo!EndFold
  <2>1. pureMain = "fold" /\ PureGo!AllFolded /\ rows' = rows /\ pureRefused' = pureRefused
    BY <1>5 DEF PureGo!EndFold
  <2>2. pureOutcome = "running"
    BY <2>1 DEF PureInv, PureReadHolds
  <2>3. FullRows' = FullRows /\ FullRows \subseteq FullRows' /\ FullRows' \subseteq PureGo!Rows
    BY <2>1, SameRows
  <2>4. CASE PureGo!More
    <3>1. pureOutcome' = "running"
      BY <1>5, <2>2, <2>4 DEF PureGo!EndFold
    <3>2. pureRefused' = pureRefused \/ (FullRows' = FullRows /\ pureRefused' = TRUE)
      BY <2>1
    <3> QED BY <2>2, <2>3, <3>1, <3>2, RunningStep
  <2>5. CASE ~PureGo!More
    <3>1. pureOutcome' = "ok"
      BY <1>5, <2>5 DEF PureGo!EndFold
    <3>2. ~pureRefused
      BY <2>1, <2>5 DEF PureInv, PureReadHolds, Nothing
    <3>3. j + 1 = PureInputs
      BY <2>5, PureSizes DEF PureInv, PureTypeOK, PureGo!More
    <3>4. FullRows = PureGo!Rows
      BY <2>1, <3>3 DEF PureInv, PureSumHolds, Folding, PureGo!AllFolded, FullRows
    <3>5. pureOutcome' = "ok" /\ ~pureRefused /\ FullRows = PureGo!Rows
      BY <3>1, <3>2, <3>4
    <3> QED BY <2>1, <2>2, <2>3, <3>5, ReturnStep
  <2> QED BY <2>4, <2>5
<1>6. CASE UNCHANGED PureGo!vars
  BY <1>6 DEF PureGo!vars, PureGo!Promise!sumVars
<1> QED BY <1>1, <1>2, <1>3, <1>4, <1>5, <1>6 DEF PureGo!Next

\* Without SIMD too, a fold succeeds only with every row whole, fails only on an input that was
\* refused, and leaves the rows alone once it has returned (fold.go:16-33, 293-341).
THEOREM PureFoldKeepsPromise == PureGo!Spec => PureKeepsPromise
<1>1. PureGo!Init => PureGo!Promise!SumInit
  <2> SUFFICES ASSUME PureGo!Init PROVE PureGo!Promise!SumInit
    OBVIOUS
  <2>1. PureInv /\ pureMain = "called"
    BY PureInitInv DEF PureGo!Init
  <2>2. FullRows = {}
    BY <2>1, NoneFull
  <2> QED BY <2>2 DEF PureGo!Init, PureGo!Promise!SumInit, FullRows
<1>2. PureInv /\ PureInv' /\ [PureGo!Next]_(PureGo!vars) => [PureGo!Promise!SumNext]_(PureGo!Promise!sumVars)
  BY PromiseStep
<1> QED BY <1>1, <1>2, PureInvariance, PTL DEF PureGo!Spec, PureKeepsPromise, PureGo!KeepsPromise, PureGo!Promise!SumSpec


-----------------------------------------------------------------------------
\* Sizes: a batch and the loader lanes are empty only when there is no input.
LEMMA Sizes ==
  /\ NumInputs \in Nat /\ NumRows \in Nat \ {0} /\ NumRanges \in Nat \ {0}
  /\ NumWorkers \in Nat \ {0}
  /\ BatchSize \in Nat /\ BatchSize <= NumInputs /\ NumLanes \in Nat
  /\ NumInputs # 0 => BatchSize > 0 /\ NumLanes > 0 /\ NumLanes <= BatchSize
BY FoldAssumption DEF BatchSize, NumLanes, Lesser

\* The lanes of a read cover its batch: striding leaves no slot out.
LEMMA StridesCover ==
  ASSUME NumInputs # 0, NEW m \in Nat, NEW s \in 1..m
  PROVE  \E l \in Lanes : s \in Stride(l, m)
<1>1. (s - 1) % NumLanes \in 0..(NumLanes - 1)
  BY Sizes
<1>2. ((s - 1) % NumLanes) + 1 \in Lanes /\ 1 \in Lanes
  BY <1>1, Sizes DEF Lanes
<1>3. CASE parallel
  <2> DEFINE l == ((s - 1) % NumLanes) + 1
  <2>1. (s - 1) % NumLanes = l - 1
    BY <1>1, Sizes
  <2>2. l \in Lanes
    BY <1>2
  <2> HIDE DEF l
  <2>3. s \in Stride(l, m)
    BY <1>3, <2>1 DEF Stride
  <2> QED BY <2>2, <2>3
<1>4. CASE ~parallel
  BY <1>2, <1>4 DEF Stride
<1> QED BY <1>3, <1>4

\* Folding the next input into a sum of the inputs before it extends the sum.
LEMMA SumExtends ==
  ASSUME NEW m \in Nat
  PROVE  Append(SumOf(m), <<m + 1, m + 1>>) = SumOf(m + 1)
BY DEF SumOf

\* Sums are sequences of products.
LEMMA SumType ==
  ASSUME NEW m \in 0..NumInputs
  PROVE  SumOf(m) \in Seq(Product) /\ Sum(m) \in [Ranges -> Seq(Product)]
BY Sizes DEF SumOf, Sum, Product

\* What the rows hold before the call is a row per range.
LEMMA StaleType == Stale \in [Ranges -> Seq(Product)]
BY Sizes DEF Stale, Product

\* A row that holds a sum is not stale.
LEMMA SumIsFresh == NumInputs # 0 => Sum(NumInputs) # Stale
<1> SUFFICES ASSUME NumInputs # 0 PROVE Sum(NumInputs) # Stale
  OBVIOUS
<1>1. 1 \in Ranges
  BY Sizes DEF Ranges
<1>2. Sum(NumInputs)[1] = SumOf(NumInputs) /\ Stale[1] = <<<<0, 0>>>>
  BY <1>1 DEF Sum, Stale
<1>3. SumOf(NumInputs)[1] = <<1, 1>>
  BY Sizes DEF SumOf
<1>4. <<<<0, 0>>>>[1] = <<0, 0>>
  OBVIOUS
<1> QED BY <1>2, <1>3, <1>4

USE FoldAssumption DEF Lesser
-----------------------------------------------------------------------------
\* The call starts with empty accumulators and idle workers.
LEMMA InitInv == Init => FoldInv
<1> SUFFICES ASSUME Init PROVE FoldInv
  OBVIOUS
<1> USE DEF Init, loopVars, workVars, readVars, callVars
<1>1. TypeOK
  <2>1. unit \in [Workers -> Units]
    BY Sizes DEF Units, Banks, Rows, Ranges
  <2>2. acc \in [Rows -> [Ranges -> Seq(Product)]] /\ out \in [Rows -> [Ranges -> Seq(Product)]]
    BY Sizes, SumType, StaleType
  <2>3. call \in Calls /\ result \in Results
    BY Sizes DEF Calls, Results, Banks
  <2>4. bank \in [Banks -> [Slots -> 0..NumInputs]] /\ worker \in [Workers -> {"idle", "busy", "gone"}]
    BY Sizes
  <2>5. todo \in [Lanes -> SUBSET Slots] /\ raw \in [Lanes -> 0..NumInputs]
    BY Sizes
  <2>6. k \in Banks /\ base \in 0..NumInputs /\ n \in 0..BatchSize /\ row \in Rows
        /\ range \in 1..(NumRanges + 1) /\ nextJ \in 0..NumInputs /\ asked \in 0..NumInputs
    BY Sizes DEF Banks, Rows
  <2>7. foldErr \in BOOLEAN /\ loading \in BOOLEAN /\ ready \in BOOLEAN /\ refused \in BOOLEAN
    BY Zenon
  <2> QED BY <2>1, <2>2, <2>3, <2>4, <2>5, <2>6, <2>7 DEF TypeOK
<1>2. ReadHolds
  BY DEF ReadHolds, InLoop
<1>3. WorkHolds
  BY DEF WorkHolds, OneFolderPerRange
<1>4. SumHolds
  BY DEF SumHolds, Sum
<1> QED BY <1>1, <1>2, <1>3, <1>4 DEF FoldInv

\* The early return leaves everything as it was; otherwise the first bank is read.
LEMMA EnterInv == FoldInv /\ Enter /\ UNCHANGED parallel => FoldInv'
<1> SUFFICES ASSUME FoldInv, Enter, UNCHANGED parallel PROVE FoldInv'
  OBVIOUS
<1> USE DEF loopVars, workVars, readVars, callVars
<1>1. CASE NumInputs = 0
  <2>1. TypeOK'
    BY <1>1 DEF Enter, FoldInv, TypeOK
  <2>2. ReadHolds'
    BY <1>1 DEF Enter, FoldInv, ReadHolds, InLoop, SumHolds
  <2>3. WorkHolds'
    BY <1>1 DEF Enter, FoldInv, WorkHolds, OneFolderPerRange
  <2>4. SumHolds'
    BY <1>1 DEF Enter, FoldInv, SumHolds
  <2> QED BY <2>1, <2>2, <2>3, <2>4 DEF FoldInv
<1>2. CASE NumInputs # 0
  <2>0. /\ main = "called" /\ main' = "first" /\ loading' = TRUE /\ ready' = ready
        /\ call' = [bank |-> 0, base |-> 0, n |-> BatchSize]
        /\ todo' = [l \in Lanes |-> Stride(l, BatchSize)] /\ outcome' = outcome
    BY <1>2, Sizes DEF Enter, Batch
  <2>1. TypeOK'
    <3>1. call' \in Calls
      BY <2>0, Sizes DEF Calls, Banks
    <3>2. todo' \in [Lanes -> SUBSET Slots]
      BY <2>0 DEF Stride, Slots
    <3> QED BY <2>0, <3>1, <3>2 DEF Enter, FoldInv, TypeOK
  <2>2. ReadHolds'
    <3>1. \A s \in 1..BatchSize : \E l \in Lanes : s \in todo'[l]
      BY <1>2, <2>0, StridesCover, Sizes
    <3>2. \A l \in Lanes : todo'[l] \subseteq 1..BatchSize
      BY <2>0 DEF Stride
    <3>3. ~loading /\ ~ready /\ holding' = {} /\ nextJ' = 0 /\ base' = 0 /\ n' = 0
      BY <2>0 DEF Enter, FoldInv, ReadHolds, SumHolds, InLoop
    <3>4. ~refused /\ ~foldErr /\ failed' = {} /\ refused' = refused /\ foldErr' = foldErr
      BY <2>0, <3>3 DEF Enter, FoldInv, ReadHolds, SumHolds
    <3> QED BY <2>0, <3>1, <3>2, <3>3, <3>4, Sizes DEF ReadHolds, InLoop
  <2>3. WorkHolds'
    BY <2>0 DEF Enter, FoldInv, WorkHolds, OneFolderPerRange
  <2>4. SumHolds'
    BY <2>0 DEF Enter, FoldInv, SumHolds
  <2> QED BY <2>1, <2>2, <2>3, <2>4 DEF FoldInv
<1> QED BY <1>1, <1>2

\* A lane asks for its next input, which no other lane asks for.
LEMMA AskNextInv == ASSUME FoldInv, NEW l \in Lanes, AskNext(l), UNCHANGED parallel PROVE FoldInv'
<1> USE DEF loopVars, workVars, readVars, callVars
<1>0. PICK s \in todo[l] :
        /\ First(l, s) /\ asked' = call.base + s
        /\ \/ /\ raw' = [raw EXCEPT ![l] = call.base + s]
              /\ holding' = holding \cup {l}
              /\ UNCHANGED <<todo, failed, refused>>
           \/ /\ call.base + s \in MayRefuse
              /\ failed' = failed \cup {s} /\ refused' = TRUE
              /\ todo' = [todo EXCEPT ![l] = @ \ {s}]
              /\ UNCHANGED <<raw, holding>>
  BY DEF AskNext
<1>1. /\ loading /\ l \notin holding /\ s \in 1..call.n /\ s \in Slots
      /\ call.base + s \in 0..NumInputs /\ call.base \in Nat /\ call.n \in Nat
  <2>1. loading /\ l \notin holding
    BY DEF AskNext
  <2>2. s \in 1..call.n /\ call.base = nextJ /\ call.n = Lesser(BatchSize, NumInputs - nextJ)
    BY <2>1 DEF FoldInv, ReadHolds
  <2>3. nextJ \in 0..NumInputs
    BY DEF FoldInv, TypeOK
  <2> QED BY <2>1, <2>2, <2>3, Sizes DEF Slots
<1>2. TypeOK'
  <2>0. /\ raw \in [Lanes -> 0..NumInputs] /\ holding \subseteq Lanes
        /\ todo \in [Lanes -> SUBSET Slots] /\ failed \subseteq Slots /\ refused \in BOOLEAN
    BY DEF FoldInv, TypeOK
  <2>1. asked' \in 0..NumInputs
    BY <1>0, <1>1
  <2>2. raw' \in [Lanes -> 0..NumInputs] /\ holding' \subseteq Lanes
    <3>1. CASE raw' = raw /\ holding' = holding
      BY <2>0, <3>1
    <3>2. CASE raw' = [raw EXCEPT ![l] = call.base + s] /\ holding' = holding \cup {l}
      BY <1>1, <2>0, <3>2
    <3> QED BY <1>0, <3>1, <3>2
  <2>3. todo' \in [Lanes -> SUBSET Slots] /\ failed' \subseteq Slots /\ refused' \in BOOLEAN
    <3>1. CASE todo' = todo /\ failed' = failed /\ refused' = refused
      BY <2>0, <3>1
    <3>2. CASE /\ todo' = [todo EXCEPT ![l] = @ \ {s}]
               /\ failed' = failed \cup {s} /\ refused' = TRUE
      BY <1>1, <2>0, <3>2
    <3> QED BY <1>0, <3>1, <3>2
  <2> QED BY <2>1, <2>2, <2>3 DEF AskNext, FoldInv, TypeOK
<1>3. ReadHolds'
  <2>1. \A t \in 1..call.n : \/ t \in failed'
                             \/ \E m \in Lanes : t \in todo'[m]
                             \/ bank'[call.bank][t] = call.base + t
    <3> SUFFICES ASSUME NEW t \in 1..call.n
                 PROVE  \/ t \in failed'
                        \/ \E m \in Lanes : t \in todo'[m]
                        \/ bank'[call.bank][t] = call.base + t
      OBVIOUS
    <3>1. \/ t \in failed \/ (\E m \in Lanes : t \in todo[m]) \/ bank[call.bank][t] = call.base + t
      BY <1>1 DEF FoldInv, ReadHolds
    <3>2. bank' = bank
      BY DEF AskNext
    <3>3. CASE todo' = todo /\ failed' = failed
      BY <3>1, <3>2, <3>3
    <3>4. CASE failed' = failed \cup {s} /\ todo' = [todo EXCEPT ![l] = @ \ {s}]
      <4>1. todo \in [Lanes -> SUBSET Slots]
        BY DEF FoldInv, TypeOK
      <4>2. t # s => \A m \in Lanes : t \in todo[m] => t \in todo'[m]
        BY <3>4, <4>1
      <4> QED BY <3>1, <3>2, <3>4, <4>2
    <3> QED BY <1>0, <3>3, <3>4
  <2>2. \A m \in holding' : \A t \in todo'[m] : First(m, t)' => raw'[m] = call.base + t
    <3> SUFFICES ASSUME NEW m \in holding', NEW t \in todo'[m], First(m, t)'
                 PROVE  raw'[m] = call.base + t
      OBVIOUS
    <3>1. CASE m = l
      <4>1. holding' = holding \cup {l} /\ todo' = todo /\ raw' = [raw EXCEPT ![l] = call.base + s]
        BY <1>0, <1>1, <3>1
      <4>2. t = s
        BY <1>0, <1>1, <3>1, <4>1 DEF First, FoldInv, TypeOK, Slots
      <4> QED BY <3>1, <4>1, <4>2 DEF FoldInv, TypeOK
    <3>2. CASE m # l
      <4>1. m \in holding /\ todo'[m] = todo[m] /\ raw'[m] = raw[m]
        BY <1>0, <3>2 DEF FoldInv, TypeOK
      <4>2. First(m, t)
        BY <4>1 DEF First
      <4> QED BY <4>1, <4>2, <1>1 DEF FoldInv, ReadHolds
    <3> QED BY <3>1, <3>2
  <2>3. \A m \in Lanes : todo'[m] \subseteq todo[m]
    BY <1>0 DEF FoldInv, TypeOK
  <2> QED BY <1>0, <1>1, <2>1, <2>2, <2>3 DEF AskNext, FoldInv, ReadHolds, InLoop
<1>4. WorkHolds'
  <2>1. /\ main' = main /\ n' = n /\ base' = base /\ k' = k /\ bank' = bank /\ pending' = pending
        /\ worker' = worker /\ unit' = unit /\ acc' = acc /\ row' = row /\ range' = range
    BY DEF AskNext
  <2> QED BY <2>1 DEF FoldInv, WorkHolds, OneFolderPerRange, Dispatched
<1>5. SumHolds'
  <2>1. /\ main' = main /\ n' = n /\ base' = base /\ foldErr' = foldErr /\ nextJ' = nextJ
        /\ pending' = pending /\ acc' = acc /\ row' = row /\ range' = range /\ out' = out
        /\ outcome' = outcome
    BY DEF AskNext
  <2>2. main # "called"
    BY <1>1 DEF AskNext, FoldInv, ReadHolds, InLoop
  <2> QED BY <2>1, <2>2 DEF FoldInv, SumHolds, Dispatched
<1> QED BY <1>2, <1>3, <1>4, <1>5 DEF FoldInv

\* A lane prepares an input into its own slot of the bank being read.
LEMMA PrepareSlotInv == ASSUME FoldInv, NEW l \in Lanes, PrepareSlot(l), UNCHANGED parallel PROVE FoldInv'
<1> USE DEF loopVars, workVars, readVars, callVars
<1>0. PICK s \in todo[l] :
        /\ First(l, s)
        /\ bank' = [bank EXCEPT ![call.bank][s] = raw[l]]
        /\ todo' = [todo EXCEPT ![l] = @ \ {s}]
  BY DEF PrepareSlot
<1>1. /\ loading /\ ~ready /\ l \in holding /\ s \in 1..call.n /\ s \in Slots
      /\ call.bank \in Banks /\ raw[l] = call.base + s
  BY <1>0, Sizes DEF PrepareSlot, FoldInv, ReadHolds, TypeOK, Calls, Slots
<1>2. TypeOK'
  BY <1>0, <1>1 DEF PrepareSlot, FoldInv, TypeOK
<1>3. ReadHolds'
  <2>1. ASSUME NEW t \in 1..call.n
        PROVE  \/ t \in failed'
               \/ \E m \in Lanes : t \in todo'[m]
               \/ bank'[call.bank][t] = call.base + t
    <3>1. CASE t = s
      BY <1>0, <1>1, <3>1 DEF FoldInv, TypeOK
    <3>2. CASE t # s
      <4>1. \/ t \in failed \/ (\E m \in Lanes : t \in todo[m]) \/ bank[call.bank][t] = call.base + t
        BY <1>1, <2>1 DEF FoldInv, ReadHolds
      <4>2. \A m \in Lanes : t \in todo[m] => t \in todo'[m]
        BY <1>0, <3>2 DEF FoldInv, TypeOK
      <4>3. bank'[call.bank][t] = bank[call.bank][t]
        BY <1>0, <1>1, <3>2 DEF FoldInv, TypeOK
      <4>4. failed' = failed
        BY DEF PrepareSlot
      <4> QED BY <4>1, <4>2, <4>3, <4>4
    <3> QED BY <3>1, <3>2
  <2>2. \A m \in holding' : \A t \in todo'[m] : First(m, t)' => raw'[m] = call.base + t
    BY <1>0, <1>1 DEF PrepareSlot, First, FoldInv, TypeOK, ReadHolds
  <2>3. \A m \in Lanes : todo'[m] \subseteq todo[m]
    BY <1>0 DEF FoldInv, TypeOK
  <2> QED BY <1>0, <1>1, <2>1, <2>2, <2>3 DEF PrepareSlot, FoldInv, ReadHolds, InLoop
<1>4. WorkHolds'
  <2>1. main \in {"dispatch", "receive"} => call.bank = 1 - k
    BY <1>1 DEF FoldInv, ReadHolds, InLoop
  <2>2. main \in {"dispatch", "receive"} => \A t \in 1..n : bank'[k][t] = bank[k][t]
    BY <1>0, <1>1, <2>1 DEF FoldInv, TypeOK, Banks, Slots
  <2> QED BY <2>2 DEF PrepareSlot, FoldInv, WorkHolds, OneFolderPerRange, Dispatched
<1>5. SumHolds'
  BY DEF PrepareSlot, FoldInv, SumHolds, Dispatched
<1> QED BY <1>2, <1>3, <1>4, <1>5 DEF FoldInv

\* A bank that is read holds a batch, or the read has failed.
LEMMA EndReadInv == FoldInv /\ EndRead /\ UNCHANGED parallel => FoldInv'
<1> SUFFICES ASSUME FoldInv, EndRead, UNCHANGED parallel PROVE FoldInv'
  OBVIOUS
<1> USE DEF loopVars, workVars, readVars, callVars
<1>1. /\ loading /\ call \in Calls /\ call.base = nextJ
      /\ call.n = Lesser(BatchSize, NumInputs - nextJ) /\ nextJ \in 0..NumInputs
  BY DEF EndRead, FoldInv, TypeOK, ReadHolds
<1>2. TypeOK'
  <2>1. call.base \in 0..NumInputs /\ call.n \in 0..BatchSize /\ nextJ + call.n \in 0..NumInputs
    BY <1>1, Sizes DEF Calls
  <2>2. result' \in Results
    BY <2>1, Sizes DEF EndRead, Results
  <2>3. nextJ' \in 0..NumInputs
    BY <1>1, <2>1 DEF EndRead, Advanced
  <2> QED BY <2>2, <2>3 DEF EndRead, FoldInv, TypeOK
<1>3. ReadHolds'
  <2>1. failed = {} => \A s \in 1..call.n : bank[call.bank][s] = call.base + s
    BY <1>1 DEF EndRead, FoldInv, ReadHolds
  <2>2. /\ call.base \in Nat /\ call.n \in Nat /\ loading' = FALSE /\ ready' = TRUE /\ call' = call
        /\ holding' = {} /\ bank' = bank /\ failed' = failed /\ main' = main
    BY <1>1 DEF EndRead, Calls
  <2>3. /\ result'.base = call.base
        /\ failed = {} => result'.n = call.n /\ nextJ' = call.base + call.n /\ result'.err = FALSE
        /\ failed # {} => result'.n = 0 /\ result'.err = TRUE
    BY <1>1 DEF EndRead, Advanced
  <2>4. /\ result'.err => result'.n = 0
        /\ ~result'.err => nextJ' = result'.base + result'.n
                          /\ result'.n = Lesser(BatchSize, NumInputs - result'.base)
        /\ \A s \in 1..result'.n : bank[call.bank][s] = result'.base + s
    BY <1>1, <2>1, <2>2, <2>3
  <2>5. InLoop /\ InLoop' /\ call.base = base + n /\ call.bank = IF main = "first" THEN 0 ELSE 1 - k
    BY <1>1, <2>2 DEF FoldInv, ReadHolds, InLoop
  <2>6. k' = k /\ base' = base /\ n' = n /\ foldErr' = foldErr /\ refused' = refused
    BY DEF EndRead
  <2>7. refused <=> foldErr \/ failed # {}
    BY <1>1 DEF FoldInv, ReadHolds
  <2> QED BY <2>2, <2>3, <2>4, <2>5, <2>6, <2>7 DEF ReadHolds, InLoop
<1>4. WorkHolds'
  BY DEF EndRead, FoldInv, WorkHolds, OneFolderPerRange, Dispatched
<1>5. SumHolds'
  BY <1>1 DEF EndRead, FoldInv, SumHolds, Dispatched, ReadHolds, InLoop
<1> QED BY <1>2, <1>3, <1>4, <1>5 DEF FoldInv

\* Taking a batch, whether the loop is entered or left; b is the bank it is in.
LEMMA TakeBatchInv ==
  ASSUME FoldInv, NEW b \in Banks, TakeBatch(b), UNCHANGED parallel,
         \/ main = "first" /\ b = 0
         \/ main = "receive" /\ b = 1 - k
  PROVE  FoldInv'
<1> USE DEF loopVars, workVars, readVars, callVars
<1>1. /\ ready /\ ~loading /\ holding = {} /\ result \in Results /\ call.bank = b
      /\ result.base = base + n /\ ~foldErr /\ InLoop /\ pending = {}
      /\ \A s \in 1..result.n : bank[b][s] = result.base + s
      /\ result.err => result.n = 0
      /\ ~result.err => nextJ = result.base + result.n
                       /\ result.n = Lesser(BatchSize, NumInputs - result.base)
      /\ refused <=> result.err
  BY DEF TakeBatch, FoldInv, TypeOK, ReadHolds, WorkHolds, SumHolds, InLoop
<1>2. \A i \in Rows, r \in Ranges : acc[i][r] = SumOf(result.base)
  BY <1>1 DEF FoldInv, SumHolds
<1>3. \A w \in Workers : worker[w] # "busy"
  BY DEF FoldInv, WorkHolds
<1>4. /\ k' = b /\ base' = result.base /\ n' = result.n /\ foldErr' = result.err
      /\ row' = 1 /\ range' = 1 /\ ready' = FALSE /\ pending' = {} /\ bank' = bank
      /\ worker' = worker /\ unit' = unit /\ acc' = acc /\ nextJ' = nextJ /\ holding' = {}
      /\ raw' = raw /\ asked' = asked /\ refused' = refused /\ result' = result
      /\ out' = out /\ outcome' = outcome
  BY <1>1 DEF TakeBatch
<1>5. result.base \in 0..NumInputs /\ result.n \in 0..BatchSize /\ result.err \in BOOLEAN
  BY <1>1 DEF Results
<1>6. \A i \in Rows : out[i] = Stale
  BY <1>1 DEF FoldInv, SumHolds, InLoop
<1>7. outcome = "running"
  BY <1>1 DEF FoldInv, SumHolds, InLoop
<1>7a. 1 \in Rows /\ 1 \in 1..(NumRanges + 1)
  BY Sizes DEF Rows
<1>8. CASE ~result.err /\ result.n > 0
  <2>1. /\ main' = "dispatch" /\ loading' = TRUE /\ failed' = {}
        /\ call' = Batch(1 - b, nextJ)
        /\ todo' = [l \in Lanes |-> Stride(l, Batch(1 - b, nextJ).n)]
    BY <1>8 DEF TakeBatch
  <2> DEFINE m == Lesser(BatchSize, NumInputs - nextJ)
  <2>2. /\ nextJ \in 0..NumInputs /\ m \in 0..BatchSize /\ NumInputs # 0
        /\ nextJ = result.base + result.n
        /\ call' = [bank |-> 1 - b, base |-> nextJ, n |-> m]
        /\ todo' = [l \in Lanes |-> Stride(l, m)]
    <3>1. nextJ \in 0..NumInputs
      BY DEF FoldInv, TypeOK
    <3>2. m \in 0..BatchSize /\ NumInputs # 0 /\ nextJ = result.base + result.n
      BY <1>1, <1>5, <1>8, <3>1, Sizes
    <3>3. Batch(1 - b, nextJ) = [bank |-> 1 - b, base |-> nextJ, n |-> m]
      BY DEF Batch
    <3> QED BY <2>1, <3>1, <3>2, <3>3
  <2> HIDE DEF m
  <2>3. TypeOK'
    <3>1. call' \in Calls
      BY <2>2 DEF Calls, Banks
    <3>2. todo' \in [Lanes -> SUBSET Slots]
      BY <2>2, Sizes DEF Stride, Slots
    <3> QED BY <1>4, <1>5, <1>7a, <2>1, <2>2, <3>1, <3>2 DEF FoldInv, TypeOK
  <2>4. ReadHolds'
    <3>1. \A s \in 1..m : \E l \in Lanes : s \in todo'[l]
      BY <2>2, StridesCover, Sizes
    <3>2. \A l \in Lanes : todo'[l] \subseteq 1..m
      BY <2>2 DEF Stride
    <3>3. m = Lesser(BatchSize, NumInputs - nextJ)
      BY DEF m
    <3> QED BY <1>1, <1>4, <1>8, <2>1, <2>2, <3>1, <3>2, <3>3 DEF ReadHolds, InLoop
  <2>5. WorkHolds'
    <3>1. base' + n' <= NumInputs
      BY <1>4, <2>2
    <3> QED BY <1>1, <1>3, <1>4, <1>8, <2>1, <3>1 DEF WorkHolds, OneFolderPerRange
  <2>6. SumHolds'
    <3>1. \A i \in Rows, r \in Ranges : ~Dispatched(i, r)'
      BY <1>4, Sizes DEF Dispatched, Rows, Ranges
    <3> QED BY <1>2, <1>4, <1>6, <1>7, <1>8, <2>1, <3>1 DEF SumHolds
  <2> QED BY <2>3, <2>4, <2>5, <2>6 DEF FoldInv
<1>9. CASE ~(~result.err /\ result.n > 0)
  <2>1. main' = "close" /\ loading' = FALSE /\ call' = call /\ failed' = failed /\ todo' = todo
    BY <1>1, <1>9 DEF TakeBatch
  <2>2. TypeOK'
    BY <1>4, <1>5, <1>7a, <2>1 DEF FoldInv, TypeOK
  <2>3. ReadHolds'
    BY <1>1, <1>4, <2>1 DEF ReadHolds, InLoop
  <2>4. WorkHolds'
    BY <1>3, <1>4, <2>1 DEF WorkHolds, OneFolderPerRange
  <2>5. SumHolds'
    <3>1. ~result.err => result.base = NumInputs
      BY <1>1, <1>5, <1>9, Sizes
    <3> QED BY <1>2, <1>4, <1>6, <1>7, <2>1, <3>1 DEF SumHolds
  <2> QED BY <2>2, <2>3, <2>4, <2>5 DEF FoldInv
<1> QED BY <1>8, <1>9

\* Handing out a unit: the range it folds was not handed out before.
LEMMA DispatchInv == ASSUME FoldInv, NEW w \in Workers, Dispatch(w), UNCHANGED parallel PROVE FoldInv'
<1> USE DEF loopVars, workVars, readVars, callVars
<1> DEFINE u == [row |-> row, range |-> range, bank |-> k, base |-> base, n |-> n, next |-> 1]
           After(i, r) == r < range' \/ (r = range' /\ i < row')
<1>1. /\ main = "dispatch" /\ main' = main /\ worker[w] = "idle" /\ row \in Rows /\ range \in Ranges
      /\ row \in Nat /\ range \in Nat /\ n \in Nat /\ base \in Nat /\ n > 0
  BY Sizes DEF Dispatch, FoldInv, TypeOK, WorkHolds, Ranges, Rows
<1>2. /\ pending' = pending \cup {<<row, range>>}
      /\ worker' = [worker EXCEPT ![w] = "busy"] /\ unit' = [unit EXCEPT ![w] = u]
      /\ k' = k /\ base' = base /\ n' = n /\ bank' = bank /\ acc' = acc
  BY DEF Dispatch
<1>3. u \in Units
  BY <1>1, Sizes DEF Units, FoldInv, TypeOK
<1>4. ~Dispatched(row, range)
  BY <1>1 DEF Dispatched
<1>5. \A i \in Rows, r \in Ranges :
        After(i, r) <=> Dispatched(i, r) \/ <<i, r>> = <<row, range>>
  BY <1>1, Sizes DEF Dispatch, Dispatched, Rows, Ranges
<1>6. worker'[w] = "busy" /\ unit'[w] = u
  BY <1>2 DEF FoldInv, TypeOK
<1>7. \A v \in Workers : v # w => worker'[v] = worker[v] /\ unit'[v] = unit[v]
  BY <1>2 DEF FoldInv, TypeOK
<1>8. \A v \in Workers : unit[v].row \in Rows /\ unit[v].range \in Ranges
  BY DEF FoldInv, TypeOK, Units
<1> HIDE DEF u, After
<1>9. TypeOK'
  <2>1. row' \in Rows /\ range' \in 1..(NumRanges + 1)
    BY <1>1, Sizes DEF Dispatch, Rows, Ranges
  <2>2. pending' \subseteq Rows \X Ranges
    BY <1>1, <1>2 DEF FoldInv, TypeOK
  <2>3. worker' \in [Workers -> {"idle", "busy", "gone"}] /\ unit' \in [Workers -> Units]
    BY <1>2, <1>3 DEF FoldInv, TypeOK
  <2> QED BY <2>1, <2>2, <2>3 DEF Dispatch, FoldInv, TypeOK
<1>10. ReadHolds'
  BY DEF Dispatch, FoldInv, ReadHolds, InLoop, First
<1>11. WorkHolds'
  <2>1. ASSUME NEW v \in Workers, worker'[v] = "busy"
        PROVE  /\ <<unit'[v].row, unit'[v].range>> \in pending'
               /\ After(unit'[v].row, unit'[v].range)
               /\ unit'[v].bank = k /\ unit'[v].base = base /\ unit'[v].n = n /\ unit'[v].next <= n + 1
               /\ acc[unit'[v].row][unit'[v].range] = SumOf(base + unit'[v].next - 1)
    <3>1. CASE v = w
      <4>1. acc[row][range] = SumOf(base)
        BY <1>1, <1>4 DEF FoldInv, SumHolds
      <4>2. base + 1 - 1 = base
        BY <1>1
      <4>3. <<row, range>> \in pending' /\ After(row, range)
        BY <1>1, <1>2, <1>5
      <4>4. /\ unit'[v].row = row /\ unit'[v].range = range /\ unit'[v].bank = k
            /\ unit'[v].base = base /\ unit'[v].n = n /\ unit'[v].next = 1
        BY <1>6, <3>1 DEF u
      <4>5. 1 <= n + 1
        BY <1>1
      <4> QED BY <4>1, <4>2, <4>3, <4>4, <4>5
    <3>2. CASE v # w
      <4>1. worker[v] = "busy" /\ unit'[v] = unit[v]
        BY <1>7, <2>1, <3>2
      <4>2. /\ <<unit[v].row, unit[v].range>> \in pending /\ Dispatched(unit[v].row, unit[v].range)
            /\ unit[v].bank = k /\ unit[v].base = base /\ unit[v].n = n /\ unit[v].next <= n + 1
            /\ acc[unit[v].row][unit[v].range] = SumOf(base + unit[v].next - 1)
        BY <4>1 DEF FoldInv, WorkHolds
      <4>3. After(unit[v].row, unit[v].range)
        BY <1>5, <1>8, <4>2
      <4> QED BY <1>2, <4>1, <4>2, <4>3
    <3> QED BY <3>1, <3>2
  <2>2. OneFolderPerRange'
    <3>1. \A v \in Workers : v # w /\ worker[v] = "busy" =>
            <<unit[v].row, unit[v].range>> # <<row, range>>
      BY <1>4 DEF FoldInv, WorkHolds
    <3>2. unit'[w].row = row /\ unit'[w].range = range
      BY <1>6 DEF u
    <3> QED BY <1>7, <3>1, <3>2 DEF FoldInv, WorkHolds, OneFolderPerRange
  <2> QED BY <1>1, <1>2, <2>1, <2>2 DEF FoldInv, WorkHolds, After, Dispatched
<1>12. SumHolds'
  <2>1. \A i \in Rows, r \in Ranges :
          /\ ~After(i, r) => acc[i][r] = SumOf(base)
          /\ After(i, r) /\ <<i, r>> \notin pending' => acc[i][r] = SumOf(base + n)
    BY <1>1, <1>2, <1>5 DEF FoldInv, SumHolds
  <2> QED BY <1>1, <1>2, <2>1 DEF Dispatch, FoldInv, SumHolds, After, Dispatched
<1> QED BY <1>9, <1>10, <1>11, <1>12 DEF FoldInv

\* Folding one source: the bank slot still holds the input of its column, and
\* no other worker touches the range.
LEMMA MulAddInv == ASSUME FoldInv, NEW w \in Workers, MulAdd(w), UNCHANGED parallel PROVE FoldInv'
<1> USE DEF loopVars, workVars, readVars, callVars
<1> DEFINE i == unit[w].row
           r == unit[w].range
           x == unit[w].next
<1>1. /\ main = "dispatch" /\ worker[w] = "busy" /\ unit[w] \in Units
      /\ unit[w].bank = k /\ unit[w].base = base /\ unit[w].n = n /\ x <= n
      /\ <<i, r>> \in pending /\ Dispatched(i, r)
      /\ acc[i][r] = SumOf(base + x - 1) /\ bank[k][x] = base + x
  <2>1. worker[w] = "busy" /\ x <= unit[w].n
    BY DEF MulAdd
  <2>2. unit[w] \in Units
    BY DEF FoldInv, TypeOK
  <2>3. /\ main = "dispatch" /\ <<i, r>> \in pending /\ Dispatched(i, r)
        /\ unit[w].bank = k /\ unit[w].base = base /\ unit[w].n = n
        /\ acc[i][r] = SumOf(base + x - 1)
    BY <2>1 DEF FoldInv, WorkHolds
  <2>4. x \in 1..n
    BY <2>1, <2>2, <2>3, Sizes DEF Units
  <2>5. bank[k][x] = base + x
    BY <2>3, <2>4 DEF FoldInv, WorkHolds
  <2> QED BY <2>1, <2>2, <2>3, <2>4, <2>5
<1>2. /\ i \in Rows /\ r \in Ranges /\ x \in Nat /\ x >= 1 /\ base \in Nat /\ n \in Nat
      /\ n <= BatchSize /\ base + n <= NumInputs
  BY <1>1, Sizes DEF Units, FoldInv, TypeOK, WorkHolds
<1>3. /\ acc' = [acc EXCEPT ![i][r] = Append(@, <<base + x, base + x>>)]
      /\ unit' = [unit EXCEPT ![w].next = @ + 1]
  BY <1>1 DEF MulAdd
<1>4. acc'[i][r] = SumOf(base + x)
  <2>1. base + x - 1 \in Nat /\ (base + x - 1) + 1 = base + x
    BY <1>2
  <2>2. acc'[i][r] = Append(SumOf(base + x - 1), <<base + x, base + x>>)
    BY <1>1, <1>2, <1>3 DEF FoldInv, TypeOK
  <2> QED BY <2>1, <2>2, SumExtends
<1>5. \A a \in Rows, b \in Ranges : <<a, b>> # <<i, r>> => acc'[a][b] = acc[a][b]
  BY <1>2, <1>3 DEF FoldInv, TypeOK
<1>6. \A v \in Workers : v # w => unit'[v] = unit[v]
  BY <1>3 DEF FoldInv, TypeOK
<1>7. /\ unit'[w].row = i /\ unit'[w].range = r /\ unit'[w].bank = k /\ unit'[w].base = base
      /\ unit'[w].n = n /\ unit'[w].next = x + 1
  BY <1>1, <1>3 DEF FoldInv, TypeOK, Units
<1>8. \A v \in Workers : unit[v].row \in Rows /\ unit[v].range \in Ranges
  BY DEF FoldInv, TypeOK, Units
<1>9. acc'[i][r] \in Seq(Product)
  <2>1. base + x \in 0..NumInputs
    BY <1>1, <1>2, Sizes
  <2> QED BY <1>4, <2>1, SumType
<1>10. unit'[w] \in Units
  <2>1. unit'[w] = [unit[w] EXCEPT !.next = x + 1]
    BY <1>3 DEF FoldInv, TypeOK
  <2>2. x + 1 \in 1..(BatchSize + 1)
    BY <1>1, <1>2, Sizes
  <2> QED BY <1>1, <2>1, <2>2 DEF Units
<1> HIDE DEF i, r, x
<1>11. TypeOK'
  <2>1. unit' \in [Workers -> Units]
    BY <1>3, <1>6, <1>10 DEF FoldInv, TypeOK
  <2>2. acc' \in [Rows -> [Ranges -> Seq(Product)]]
    BY <1>2, <1>3, <1>9 DEF FoldInv, TypeOK
  <2> QED BY <2>1, <2>2 DEF MulAdd, FoldInv, TypeOK
<1>12. ReadHolds'
  BY DEF MulAdd, FoldInv, ReadHolds, InLoop, First
<1>13. WorkHolds'
  <2>1. ASSUME NEW v \in Workers, worker[v] = "busy"
        PROVE  /\ <<unit'[v].row, unit'[v].range>> \in pending
               /\ Dispatched(unit'[v].row, unit'[v].range)
               /\ unit'[v].bank = k /\ unit'[v].base = base /\ unit'[v].n = n /\ unit'[v].next <= n + 1
               /\ acc'[unit'[v].row][unit'[v].range] = SumOf(base + unit'[v].next - 1)
    <3>1. CASE v = w
      <4>1. base + (x + 1) - 1 = base + x /\ x + 1 <= n + 1
        BY <1>1, <1>2 DEF x
      <4> QED BY <1>1, <1>4, <1>7, <3>1, <4>1 DEF i, r, x
    <3>2. CASE v # w
      <4>1. <<unit[v].row, unit[v].range>> # <<i, r>>
        BY <1>1, <2>1, <3>2 DEF i, r, FoldInv, WorkHolds, OneFolderPerRange
      <4>2. acc'[unit[v].row][unit[v].range] = acc[unit[v].row][unit[v].range]
        BY <1>5, <1>8, <4>1
      <4>3. unit'[v] = unit[v]
        BY <1>6, <3>2
      <4>4. /\ <<unit[v].row, unit[v].range>> \in pending
            /\ Dispatched(unit[v].row, unit[v].range)
            /\ unit[v].bank = k /\ unit[v].base = base /\ unit[v].n = n /\ unit[v].next <= n + 1
            /\ acc[unit[v].row][unit[v].range] = SumOf(base + unit[v].next - 1)
        BY <2>1 DEF FoldInv, WorkHolds
      <4> QED BY <4>2, <4>3, <4>4
    <3> QED BY <3>1, <3>2
  <2>2. \A v \in Workers : unit'[v].row = unit[v].row /\ unit'[v].range = unit[v].range
    BY <1>6, <1>7 DEF i, r
  <2>3. OneFolderPerRange'
    <3>1. OneFolderPerRange /\ worker' = worker
      BY DEF MulAdd, FoldInv, WorkHolds
    <3> QED BY <2>2, <3>1 DEF OneFolderPerRange
  <2>4. /\ main' = main /\ pending' = pending /\ worker' = worker /\ k' = k /\ base' = base /\ n' = n
        /\ bank' = bank /\ row' = row /\ range' = range
    BY DEF MulAdd
  <2> QED BY <1>1, <2>1, <2>3, <2>4 DEF FoldInv, WorkHolds, Dispatched
<1>14. SumHolds'
  <2>1. \A a \in Rows, b \in Ranges :
          /\ ~Dispatched(a, b) => acc'[a][b] = SumOf(base)
          /\ Dispatched(a, b) /\ <<a, b>> \notin pending => acc'[a][b] = SumOf(base + n)
    <3> SUFFICES ASSUME NEW a \in Rows, NEW b \in Ranges
                 PROVE  /\ ~Dispatched(a, b) => acc'[a][b] = SumOf(base)
                        /\ Dispatched(a, b) /\ <<a, b>> \notin pending => acc'[a][b] = SumOf(base + n)
      OBVIOUS
    <3>1. CASE <<a, b>> = <<i, r>>
      BY <1>1, <3>1 DEF i, r
    <3>2. CASE <<a, b>> # <<i, r>>
      BY <1>1, <1>5, <3>2 DEF FoldInv, SumHolds
    <3> QED BY <3>1, <3>2
  <2>2. /\ main = "dispatch" /\ main' = main /\ base' = base /\ n' = n /\ row' = row
        /\ range' = range /\ pending' = pending /\ foldErr' = foldErr /\ outcome' = outcome
        /\ out' = out
    BY <1>1 DEF MulAdd
  <2>3. \A a \in Rows, b \in Ranges : Dispatched(a, b)' = Dispatched(a, b)
    BY <2>2 DEF Dispatched
  <2>4. /\ ~foldErr /\ outcome = "running"
        /\ \A a \in Rows : out[a] = Stale
    BY <2>2 DEF FoldInv, SumHolds
  <2>5. \A a \in Rows, b \in Ranges :
          /\ ~Dispatched(a, b)' => acc'[a][b] = SumOf(base')
          /\ Dispatched(a, b)' /\ <<a, b>> \notin pending' => acc'[a][b] = SumOf(base' + n')
    BY <2>1, <2>2, <2>3
  <2> HIDE <2>1, <2>3
  <2> QED BY <2>2, <2>4, <2>5 DEF SumHolds
<1> QED BY <1>11, <1>12, <1>13, <1>14 DEF FoldInv

\* A unit is done when every source of the batch is in its range.
LEMMA UnitDoneInv == ASSUME FoldInv, NEW w \in Workers, UnitDone(w), UNCHANGED parallel PROVE FoldInv'
<1> USE DEF loopVars, workVars, readVars, callVars
<1>1. /\ main = "dispatch" /\ worker[w] = "busy" /\ unit[w].base = base /\ unit[w].n = n
      /\ unit[w].next = n + 1 /\ n \in Nat /\ base \in Nat
      /\ acc[unit[w].row][unit[w].range] = SumOf(base + (n + 1) - 1)
  <2>1. worker[w] = "busy" /\ unit[w].next > unit[w].n
    BY DEF UnitDone
  <2>2. unit[w] \in Units /\ n \in Nat /\ base \in Nat
    BY Sizes DEF FoldInv, TypeOK
  <2>3. /\ main = "dispatch" /\ unit[w].base = base /\ unit[w].n = n /\ unit[w].next <= n + 1
        /\ acc[unit[w].row][unit[w].range] = SumOf(base + unit[w].next - 1)
    BY <2>1 DEF FoldInv, WorkHolds
  <2>4. unit[w].next = n + 1
    BY <2>1, <2>2, <2>3, Sizes DEF Units
  <2> QED BY <2>1, <2>2, <2>3, <2>4
<1>2. acc[unit[w].row][unit[w].range] = SumOf(base + n)
  <2>1. base + (n + 1) - 1 = base + n
    BY <1>1
  <2> QED BY <1>1, <2>1
<1>3. /\ pending' = pending \ {<<unit[w].row, unit[w].range>>}
      /\ worker' = [worker EXCEPT ![w] = "idle"]
  BY DEF UnitDone
<1>4. TypeOK'
  BY <1>3 DEF UnitDone, FoldInv, TypeOK
<1>5. ReadHolds'
  BY DEF UnitDone, FoldInv, ReadHolds, InLoop, First
<1>6. \A v \in Workers : worker'[v] = "busy" => v # w /\ worker[v] = "busy"
  BY <1>3 DEF FoldInv, TypeOK
<1>7. WorkHolds'
  <2>1. \A v \in Workers : worker'[v] = "busy" =>
          <<unit[v].row, unit[v].range>> # <<unit[w].row, unit[w].range>>
    BY <1>1, <1>6 DEF FoldInv, WorkHolds, OneFolderPerRange
  <2>2. OneFolderPerRange'
    BY <1>6 DEF UnitDone, FoldInv, WorkHolds, OneFolderPerRange
  <2> QED BY <1>1, <1>3, <1>6, <2>1, <2>2 DEF UnitDone, FoldInv, WorkHolds, Dispatched
<1>8. SumHolds'
  BY <1>1, <1>2, <1>3 DEF UnitDone, FoldInv, SumHolds, Dispatched
<1> QED BY <1>4, <1>5, <1>7, <1>8 DEF FoldInv

\* Past the barrier every range holds the whole batch.
LEMMA BarrierInv == FoldInv /\ Barrier /\ UNCHANGED parallel => FoldInv'
<1> SUFFICES ASSUME FoldInv, Barrier, UNCHANGED parallel PROVE FoldInv'
  OBVIOUS
<1> USE DEF loopVars, workVars, readVars, callVars
<1>1. TypeOK'
  BY DEF Barrier, FoldInv, TypeOK
<1>2. ReadHolds'
  BY DEF Barrier, FoldInv, ReadHolds, InLoop, First
<1>3. WorkHolds'
  BY DEF Barrier, FoldInv, WorkHolds, OneFolderPerRange
<1>4. SumHolds'
  <2>1. \A i \in Rows, r \in Ranges : Dispatched(i, r)
    BY Sizes DEF Barrier, FoldInv, TypeOK, Dispatched, Rows, Ranges
  <2> QED BY <2>1 DEF Barrier, FoldInv, SumHolds
<1> QED BY <1>1, <1>2, <1>3, <1>4 DEF FoldInv

\* A worker that leaves has no unit.
LEMMA WorkerExitInv == ASSUME FoldInv, NEW w \in Workers, WorkerExit(w), UNCHANGED parallel PROVE FoldInv'
<1> USE DEF loopVars, workVars, readVars, callVars
<1>1. TypeOK'
  BY DEF WorkerExit, FoldInv, TypeOK
<1>2. ReadHolds'
  BY DEF WorkerExit, FoldInv, ReadHolds, InLoop, First
<1>3. \A v \in Workers : worker'[v] = "busy" => worker[v] = "busy"
  BY DEF WorkerExit, FoldInv, TypeOK
<1>4. WorkHolds'
  BY <1>3 DEF WorkerExit, FoldInv, WorkHolds, OneFolderPerRange
<1>5. SumHolds'
  BY DEF WorkerExit, FoldInv, SumHolds
<1> QED BY <1>1, <1>2, <1>4, <1>5 DEF FoldInv

\* The last batch is folded when the workers have left.
LEMMA JoinInv == FoldInv /\ Join /\ UNCHANGED parallel => FoldInv'
<1> SUFFICES ASSUME FoldInv, Join, UNCHANGED parallel PROVE FoldInv'
  OBVIOUS
<1> USE DEF loopVars, workVars, readVars, callVars
<1>1. TypeOK'
  BY DEF Join, FoldInv, TypeOK
<1>2. ReadHolds'
  BY DEF Join, FoldInv, ReadHolds, InLoop, First
<1>3. WorkHolds'
  BY DEF Join, FoldInv, WorkHolds, OneFolderPerRange
<1>4. SumHolds'
  BY DEF Join, FoldInv, SumHolds
<1> QED BY <1>1, <1>2, <1>3, <1>4 DEF FoldInv

\* A finished row is the concatenation of its accumulator's ranges.
LEMMA FinishInv == ASSUME FoldInv, NEW i \in Rows, Finish(i), UNCHANGED parallel PROVE FoldInv'
<1> USE DEF loopVars, workVars, readVars, callVars
<1>1. main = "finish" /\ ~foldErr /\ out' = [out EXCEPT ![i] = acc[i]]
  BY DEF Finish, FoldInv, SumHolds
<1>2. acc[i] = Sum(NumInputs)
  <2>1. acc[i] \in [Ranges -> Seq(Product)]
    BY DEF FoldInv, TypeOK
  <2>2. \A r \in Ranges : acc[i][r] = SumOf(NumInputs)
    BY <1>1 DEF FoldInv, SumHolds
  <2> QED BY <2>1, <2>2 DEF Sum
<1>3. TypeOK'
  BY <1>1 DEF Finish, FoldInv, TypeOK
<1>4. ReadHolds'
  BY DEF Finish, FoldInv, ReadHolds, InLoop, First
<1>5. WorkHolds'
  BY DEF Finish, FoldInv, WorkHolds, OneFolderPerRange
<1>6. SumHolds'
  <2>1. \A a \in Rows : out'[a] = Stale \/ out'[a] = Sum(NumInputs)
    BY <1>1, <1>2 DEF FoldInv, TypeOK, SumHolds
  <2> QED BY <1>1, <2>1 DEF Finish, FoldInv, SumHolds
<1> QED BY <1>3, <1>4, <1>5, <1>6 DEF FoldInv

\* The rows are returned.
LEMMA ReturnInv == FoldInv /\ Return /\ UNCHANGED parallel => FoldInv'
<1> SUFFICES ASSUME FoldInv, Return, UNCHANGED parallel PROVE FoldInv'
  OBVIOUS
<1> USE DEF loopVars, workVars, readVars, callVars
<1>1. TypeOK'
  BY DEF Return, FoldInv, TypeOK
<1>2. ReadHolds'
  BY DEF Return, FoldInv, ReadHolds, InLoop, First
<1>3. WorkHolds'
  BY DEF Return, FoldInv, WorkHolds, OneFolderPerRange
<1>4. SumHolds'
  BY DEF Return, FoldInv, SumHolds
<1> QED BY <1>1, <1>2, <1>3, <1>4 DEF FoldInv

-----------------------------------------------------------------------------
\* Every step keeps the invariant.
LEMMA StepInv == FoldInv /\ [Next]_vars => FoldInv'
<1> SUFFICES ASSUME FoldInv, [Next]_vars PROVE FoldInv'
  OBVIOUS
<1>0. UNCHANGED parallel
  BY DEF Next, vars
<1>1. ASSUME NEW l \in Lanes, AskNext(l) PROVE FoldInv'
  BY <1>0, <1>1, AskNextInv
<1>2. ASSUME NEW l \in Lanes, PrepareSlot(l) PROVE FoldInv'
  BY <1>0, <1>2, PrepareSlotInv
<1>3. ASSUME NEW w \in Workers, Dispatch(w) PROVE FoldInv'
  BY <1>0, <1>3, DispatchInv
<1>4. ASSUME NEW w \in Workers, MulAdd(w) PROVE FoldInv'
  BY <1>0, <1>4, MulAddInv
<1>5. ASSUME NEW w \in Workers, UnitDone(w) PROVE FoldInv'
  BY <1>0, <1>5, UnitDoneInv
<1>6. ASSUME NEW w \in Workers, WorkerExit(w) PROVE FoldInv'
  BY <1>0, <1>6, WorkerExitInv
<1>7. ASSUME NEW i \in Rows, Finish(i) PROVE FoldInv'
  BY <1>0, <1>7, FinishInv
<1>8. CASE FirstBatch
  BY <1>0, <1>8, TakeBatchInv DEF FirstBatch, Banks
<1>9. CASE NextBatch
  <2>1. 1 - k \in Banks
    BY DEF FoldInv, TypeOK, Banks
  <2> QED BY <1>0, <1>9, <2>1, TakeBatchInv DEF NextBatch
<1>10. CASE UNCHANGED vars
  <2> USE <1>10 DEF vars, loopVars, workVars, readVars, callVars
  <2>1. TypeOK'
    BY DEF FoldInv, TypeOK
  <2>2. ReadHolds'
    BY DEF FoldInv, ReadHolds, InLoop, First
  <2>3. WorkHolds'
    BY DEF FoldInv, WorkHolds, OneFolderPerRange, Dispatched
  <2>4. SumHolds'
    BY DEF FoldInv, SumHolds, Dispatched
  <2> QED BY <2>1, <2>2, <2>3, <2>4 DEF FoldInv
<1> QED BY <1>0, <1>1, <1>2, <1>3, <1>4, <1>5, <1>6, <1>7, <1>8, <1>9, <1>10,
           EnterInv, EndReadInv, BarrierInv, JoinInv, ReturnInv DEF Next

\* FoldInv holds in every reachable state of the pipeline, whatever the number
\* of inputs, rows, ranges, workers and loader lanes.
THEOREM FoldInvariance == Spec => []FoldInv
<1> QED BY InitInv, StepInv, PTL DEF Spec

\* Workers never fold from the bank that is being read into (fold.go:234-235).
THEOREM BanksNeverRace == Spec => []NoBankRace
<1>1. FoldInv => NoBankRace
  <2> SUFFICES ASSUME FoldInv, loading, NEW w \in Workers, worker[w] = "busy"
               PROVE  unit[w].bank # call.bank
    BY DEF NoBankRace
  <2>1. main = "dispatch" /\ unit[w].bank = k
    BY DEF FoldInv, WorkHolds
  <2>2. call.bank = 1 - k /\ k \in {0, 1}
    BY <2>1 DEF FoldInv, TypeOK, Banks, ReadHolds, InLoop
  <2> QED BY <2>1, <2>2
<1> QED BY <1>1, FoldInvariance, PTL

\* No accumulator range has two folders at a time (the units of a batch are
\* distinct and the barrier separates batches, fold.go:257-259).
THEOREM RangesHaveOneFolder == Spec => []OneFolderPerRange
<1>1. FoldInv => OneFolderPerRange
  BY DEF FoldInv, WorkHolds
<1> QED BY <1>1, FoldInvariance, PTL

-----------------------------------------------------------------------------
\* Whoever leaves the loop waits for every worker.
LEMMA WorkersLeaveStep == FoldInv /\ WorkersLeave /\ [Next]_vars => WorkersLeave'
<1> SUFFICES ASSUME FoldInv, WorkersLeave, [Next]_vars PROVE WorkersLeave'
  OBVIOUS
<1> USE DEF loopVars, workVars, readVars, callVars
<1>1. CASE Join
  BY <1>1 DEF Join, WorkersLeave
<1>2. CASE Return
  BY <1>2 DEF Return, WorkersLeave
<1>3. CASE Enter
  BY <1>3 DEF Enter, WorkersLeave
<1>4. ASSUME NEW w \in Workers, UnitDone(w) PROVE WorkersLeave'
  BY <1>4 DEF UnitDone, FoldInv, WorkHolds, WorkersLeave
<1>5. ASSUME NEW w \in Workers, Dispatch(w) \/ MulAdd(w) \/ WorkerExit(w) PROVE WorkersLeave'
  BY <1>5 DEF Dispatch, MulAdd, WorkerExit, FoldInv, TypeOK, WorkersLeave
<1>6. ASSUME NEW l \in Lanes, AskNext(l) \/ PrepareSlot(l) PROVE WorkersLeave'
  BY <1>6 DEF AskNext, PrepareSlot, WorkersLeave
<1>7. ASSUME NEW i \in Rows, Finish(i) PROVE WorkersLeave'
  BY <1>7 DEF Finish, WorkersLeave
<1>8. CASE EndRead \/ FirstBatch \/ NextBatch \/ Barrier \/ UNCHANGED vars
  BY <1>8 DEF EndRead, FirstBatch, NextBatch, TakeBatch, Barrier, vars, WorkersLeave
<1> QED BY <1>1, <1>2, <1>3, <1>4, <1>5, <1>6, <1>7, <1>8 DEF Next

\* When the call returns, also from a read that failed half way, it leaves no reader and no
\* worker behind (fold.go:233-235, 261-272).
THEOREM NoWorkerOutlivesFold == Spec => []NoneLeft
<1>1. Init => WorkersLeave
  BY DEF Init, WorkersLeave
<1>2. FoldInv /\ WorkersLeave => NoneLeft
  BY DEF FoldInv, ReadHolds, InLoop, WorkersLeave, NoneLeft
<1> QED BY <1>1, <1>2, WorkersLeaveStep, FoldInvariance, PTL DEF Spec

-----------------------------------------------------------------------------
\* A sequential read gives all its slots to the first lane.
LEMMA OneLane ==
  ASSUME ~parallel, NEW l \in Lanes, NEW m \in Nat
  PROVE  Stride(l, m) = IF l = 1 THEN 1..m ELSE {}
BY DEF Stride

\* The next input of a sequential read follows the one asked for last.
LEMMA AskNextOrder ==
  ASSUME FoldInv, OrderHolds, ~parallel, UNCHANGED parallel, NEW l \in Lanes, AskNext(l)
  PROVE  OrderHolds' /\ InOrder
<1> USE DEF loopVars, workVars, readVars, callVars
<1>0. PICK s \in todo[l] :
        /\ First(l, s) /\ asked' = call.base + s
        /\ \/ /\ raw' = [raw EXCEPT ![l] = call.base + s]
              /\ holding' = holding \cup {l}
              /\ UNCHANGED <<todo, failed, refused>>
           \/ /\ call.base + s \in MayRefuse
              /\ failed' = failed \cup {s} /\ refused' = TRUE
              /\ todo' = [todo EXCEPT ![l] = @ \ {s}]
              /\ UNCHANGED <<raw, holding>>
  BY DEF AskNext
<1>1. /\ loading /\ l \notin holding /\ failed = {} /\ ~ready /\ main # "called"
      /\ call' = call /\ loading' = loading /\ ready' = ready /\ main' = main /\ result' = result
      /\ nextJ' = nextJ
  BY DEF AskNext, FoldInv, ReadHolds, InLoop
<1>2. l = 1
  BY <1>0, <1>1 DEF OrderHolds
<1>3. /\ todo \in [Lanes -> SUBSET Slots] /\ s \in 1..call.n /\ s \in Nat /\ call.base \in Nat /\ call.n \in Nat
      /\ todo[1] \subseteq 1..call.n
  <2>1. todo \in [Lanes -> SUBSET Slots] /\ call \in Calls
    BY DEF FoldInv, TypeOK
  <2>2. todo[1] \subseteq 1..call.n
    BY <1>1, <1>2 DEF FoldInv, ReadHolds
  <2> QED BY <1>0, <1>2, <2>1, <2>2, Sizes DEF Calls
<1>4. asked = call.base + s - 1
  BY <1>0, <1>1, <1>2 DEF OrderHolds
<1>5. \A t \in todo[1] : t \in Nat /\ s <= t /\ t..call.n \subseteq todo[1]
  BY <1>0, <1>1, <1>2, <1>3 DEF First, OrderHolds
<1>6. \A m \in Lanes : m # 1 => todo[m] = {}
  BY <1>1 DEF OrderHolds
<1>7. CASE holding' = holding \cup {l} /\ todo' = todo /\ failed' = failed
  <2>1. \A t \in todo[1] : First(1, t)' => t = s
    BY <1>0, <1>2, <1>3, <1>5, <1>7 DEF First
  <2>2. \A t \in todo[1] : First(1, t)' => asked' = call.base + t
    BY <1>0, <2>1
  <2>3. todo[1] # {} /\ 1 \in holding'
    BY <1>0, <1>2, <1>7
  <2> QED BY <1>0, <1>1, <1>3, <1>4, <1>5, <1>6, <1>7, <2>2, <2>3 DEF OrderHolds, InOrder
<1>8. CASE failed' = failed \cup {s} /\ todo' = [todo EXCEPT ![l] = @ \ {s}]
  <2>1. \A m \in Lanes : m # 1 => todo'[m] = {}
    BY <1>2, <1>3, <1>6, <1>8
  <2>2. \A t \in todo'[1] : t..call.n \subseteq todo'[1]
    <3> SUFFICES ASSUME NEW t \in todo'[1] PROVE t..call.n \subseteq todo'[1]
      OBVIOUS
    <3>1. todo'[1] = todo[1] \ {s}
      BY <1>2, <1>3, <1>8
    <3>2. t \in Nat /\ s < t /\ t..call.n \subseteq todo[1]
      BY <1>3, <1>5, <3>1
    <3> QED BY <1>3, <3>1, <3>2
  <2> QED BY <1>0, <1>1, <1>3, <1>4, <1>8, <2>1, <2>2 DEF OrderHolds, InOrder
<1> QED BY <1>0, <1>7, <1>8

\* The slot after the one that was prepared is the next to be asked for.
LEMMA PrepareSlotOrder ==
  ASSUME FoldInv, OrderHolds, ~parallel, UNCHANGED parallel, NEW l \in Lanes, PrepareSlot(l)
  PROVE  OrderHolds'
<1> USE DEF loopVars, workVars, readVars, callVars
<1>0. PICK s \in todo[l] : First(l, s) /\ todo' = [todo EXCEPT ![l] = @ \ {s}]
  BY DEF PrepareSlot
<1>1. /\ loading /\ l \in holding /\ holding' = holding \ {l} /\ failed' = failed /\ ~ready /\ main # "called"
      /\ call' = call /\ loading' = loading /\ ready' = ready /\ main' = main /\ asked' = asked
  BY DEF PrepareSlot, FoldInv, ReadHolds, InLoop
<1>2. l = 1
  BY <1>0, <1>1 DEF OrderHolds
<1>3. /\ todo \in [Lanes -> SUBSET Slots] /\ s \in 1..call.n /\ s \in Nat /\ call.base \in Nat /\ call.n \in Nat
      /\ todo[1] \subseteq 1..call.n
  <2>1. todo \in [Lanes -> SUBSET Slots] /\ call \in Calls
    BY DEF FoldInv, TypeOK
  <2>2. todo[1] \subseteq 1..call.n
    BY <1>1, <1>2 DEF FoldInv, ReadHolds
  <2> QED BY <1>0, <1>2, <2>1, <2>2, Sizes DEF Calls
<1>4. failed = {} => asked = call.base + s
  BY <1>0, <1>1, <1>2 DEF OrderHolds
<1>5. s..call.n \subseteq todo[1] /\ \A t \in todo[1] : t \in Nat /\ s <= t /\ t..call.n \subseteq todo[1]
  BY <1>0, <1>1, <1>2, <1>3 DEF First, OrderHolds
<1>6. todo'[1] = (s + 1)..call.n
  <2>1. todo'[1] = todo[1] \ {s}
    BY <1>0, <1>2, <1>3
  <2> QED BY <1>3, <1>5, <2>1
<1>7. \A m \in Lanes : m # 1 => todo'[m] = {}
  BY <1>0, <1>1, <1>2, <1>3 DEF OrderHolds
<1>8. \A t \in todo'[1] : t..call.n \subseteq todo'[1]
  BY <1>3, <1>6
<1>9. failed = {} /\ todo'[1] = {} => asked = call.base + call.n
  <2>1. s < call.n => s + 1 \in todo'[1]
    BY <1>3, <1>6
  <2> QED BY <1>3, <1>4, <2>1
<1>10. \A t \in todo'[1] : First(1, t)' => t = s + 1
  <2> SUFFICES ASSUME NEW t \in todo'[1], First(1, t)' PROVE t = s + 1
    OBVIOUS
  <2>1. t \in (s + 1)..call.n /\ s + 1 \in todo'[1]
    BY <1>3, <1>6
  <2>2. t <= s + 1
    BY <2>1 DEF First
  <2> QED BY <1>3, <2>1, <2>2
<1>11. failed = {} => \A t \in todo'[1] : First(1, t)' => asked = call.base + t - 1
  BY <1>3, <1>4, <1>10
<1>12. 1 \notin holding'
  BY <1>1, <1>2
<1> QED BY <1>1, <1>7, <1>8, <1>9, <1>11, <1>12 DEF OrderHolds

\* A read that ends without an error has asked for its whole batch, so the next one goes on from there.
LEMMA EndReadOrder ==
  ASSUME FoldInv, OrderHolds, ~parallel, UNCHANGED parallel, EndRead
  PROVE  OrderHolds'
<1>1. /\ loading /\ loading' = FALSE /\ result'.err = (failed # {}) /\ asked' = asked /\ main' = main
      /\ call.base = nextJ /\ main # "called" /\ nextJ' = Advanced
  BY DEF EndRead, readVars, callVars, FoldInv, ReadHolds, InLoop
<1>2. NumInputs # 0 /\ 1 \in Lanes
  <2>1. NumInputs # 0
    BY <1>1 DEF OrderHolds
  <2> QED BY <2>1, Sizes DEF Lanes
<1>3. failed = {} => asked = nextJ + call.n
  BY <1>1, <1>2 DEF EndRead, OrderHolds
<1> QED BY <1>1, <1>3 DEF OrderHolds, Advanced

\* A batch is taken on where the one before it ended.
LEMMA ReadStartsOrder ==
  ASSUME ~parallel', NEW m \in Nat, NEW a \in Nat, loading', ~ready', main' # "called",
         todo' = [l \in Lanes |-> IF l = 1 THEN 1..m ELSE {}], call'.base = a, call'.n = m, asked' = a,
         holding' = {}, 1 \in Lanes, NumInputs # 0
  PROVE  OrderHolds'
<1>1. todo'[1] = 1..m /\ \A l \in Lanes : l # 1 => todo'[l] = {}
  OBVIOUS
<1>2. \A s \in todo'[1] : s..m \subseteq todo'[1]
  BY <1>1
<1>3. todo'[1] = {} => m = 0
  BY <1>1
<1>4. \A s \in todo'[1] : First(1, s)' => s = 1
  <2> SUFFICES ASSUME NEW s \in todo'[1], First(1, s)' PROVE s = 1
    OBVIOUS
  <2>1. s \in 1..m /\ 1 \in todo'[1]
    BY <1>1
  <2> QED BY <2>1 DEF First
<1>5. \A s \in todo'[1] : First(1, s)' => asked' = a + s - 1
  BY <1>4
<1> QED BY <1>1, <1>2, <1>3, <1>5 DEF OrderHolds

LEMMA TakeBatchOrder ==
  ASSUME FoldInv, OrderHolds, ~parallel, UNCHANGED parallel, NEW b \in Banks, TakeBatch(b), main # "called"
  PROVE  OrderHolds'
<1> USE DEF loopVars, workVars, readVars, callVars
<1>1. /\ ready /\ ~loading /\ holding' = {} /\ asked' = asked /\ nextJ' = nextJ /\ ready' = FALSE
      /\ nextJ \in 0..NumInputs
  BY DEF TakeBatch, FoldInv, ReadHolds, TypeOK
<1>2. CASE ~result.err /\ result.n > 0
  <2> DEFINE m == Lesser(BatchSize, NumInputs - nextJ)
  <2>1. /\ main' = "dispatch" /\ loading' = TRUE /\ call' = Batch(1 - b, nextJ)
        /\ todo' = [l \in Lanes |-> Stride(l, Batch(1 - b, nextJ).n)]
    BY <1>2 DEF TakeBatch
  <2>2. call'.base = nextJ /\ call'.n = m /\ todo' = [l \in Lanes |-> Stride(l, m)]
    BY <2>1 DEF Batch
  <2>3. m \in Nat /\ NumInputs # 0
    <3>1. result.n \in 0..BatchSize
      BY DEF FoldInv, TypeOK, Results
    <3> QED BY <1>1, <1>2, <3>1, Sizes
  <2> HIDE DEF m
  <2>4. \A l \in Lanes : Stride(l, m) = IF l = 1 THEN 1..m ELSE {}
    BY <2>3, OneLane
  <2>5. asked' = nextJ
    BY <1>1, <1>2 DEF OrderHolds
  <2>6. 1 \in Lanes
    BY <2>3, Sizes DEF Lanes
  <2>7. todo' = [l \in Lanes |-> IF l = 1 THEN 1..m ELSE {}]
    BY <2>2, <2>4
  <2>8. nextJ \in Nat /\ ~parallel' /\ main' # "called" /\ loading' /\ ~ready'
    BY <1>1, <2>1, Sizes
  <2> QED BY <1>1, <2>2, <2>3, <2>5, <2>6, <2>7, <2>8, ReadStartsOrder
<1>3. CASE ~(~result.err /\ result.n > 0)
  <2>1. loading' = FALSE /\ main' = "close"
    BY <1>1, <1>3 DEF TakeBatch
  <2> QED BY <1>1, <2>1 DEF OrderHolds
<1> QED BY <1>2, <1>3

\* The first read asks for the first input.
LEMMA EnterOrder ==
  ASSUME FoldInv, OrderHolds, ~parallel, UNCHANGED parallel, Enter
  PROVE  OrderHolds'
<1> USE DEF loopVars, workVars, readVars, callVars
<1>1. /\ main = "called" /\ asked' = asked /\ ~loading /\ ~ready /\ ready' = ready /\ holding' = holding
      /\ holding = {} /\ asked = 0
  BY DEF Enter, FoldInv, ReadHolds, InLoop, OrderHolds
<1>2. CASE NumInputs = 0
  <2>1. main' = "returned" /\ loading' = loading
    BY <1>2 DEF Enter
  <2> QED BY <1>1, <2>1 DEF OrderHolds
<1>3. CASE NumInputs # 0
  <2>1. /\ main' = "first" /\ loading' = TRUE /\ call' = Batch(0, 0)
        /\ todo' = [l \in Lanes |-> Stride(l, BatchSize)]
    BY <1>3 DEF Enter
  <2>2. call'.base = 0 /\ call'.n = BatchSize
    BY <2>1, Sizes DEF Batch
  <2>3. BatchSize \in Nat /\ 1 \in Lanes
    BY <1>3, Sizes DEF Lanes
  <2>4. todo' = [l \in Lanes |-> IF l = 1 THEN 1..BatchSize ELSE {}]
    BY <2>1, <2>3, OneLane
  <2>5. ~parallel' /\ main' # "called" /\ loading' /\ ~ready' /\ asked' = 0
    BY <1>1, <2>1
  <2> QED BY <1>1, <1>3, <2>2, <2>3, <2>4, <2>5, ReadStartsOrder
<1> QED BY <1>2, <1>3

\* Every step keeps the order of a sequential read.
LEMMA OrderStep == FoldInv /\ OrderHolds /\ [Next]_vars => OrderHolds' /\ (~parallel => InOrder)
<1> SUFFICES ASSUME FoldInv, OrderHolds, [Next]_vars, ~parallel PROVE OrderHolds' /\ InOrder
  BY DEF OrderHolds, Next, vars
<1> USE DEF loopVars, workVars, readVars, callVars
<1>0. UNCHANGED parallel
  BY DEF Next, vars
<1>1. ASSUME NEW l \in Lanes, AskNext(l) PROVE OrderHolds' /\ InOrder
  BY <1>0, <1>1, AskNextOrder
<1>2. ASSUME NEW l \in Lanes, PrepareSlot(l) PROVE OrderHolds' /\ InOrder
  <2>1. OrderHolds'
    BY <1>0, <1>2, PrepareSlotOrder
  <2>2. InOrder
    BY <1>2 DEF PrepareSlot, InOrder
  <2> QED BY <2>1, <2>2
<1>3. CASE EndRead
  <2>1. OrderHolds'
    BY <1>0, <1>3, EndReadOrder
  <2>2. InOrder
    BY <1>3 DEF EndRead, InOrder
  <2> QED BY <2>1, <2>2
<1>4. ASSUME NEW b \in Banks, TakeBatch(b), main # "called" PROVE OrderHolds' /\ InOrder
  <2>1. OrderHolds'
    BY <1>0, <1>4, TakeBatchOrder
  <2>2. InOrder
    BY <1>4 DEF TakeBatch, InOrder
  <2> QED BY <2>1, <2>2
<1>5. CASE FirstBatch \/ NextBatch
  <2>1. 0 \in Banks /\ 1 - k \in Banks
    BY DEF FoldInv, TypeOK, Banks
  <2> QED BY <1>4, <1>5, <2>1 DEF FirstBatch, NextBatch
<1>6. CASE Enter
  <2>1. OrderHolds'
    BY <1>0, <1>6, EnterOrder
  <2>2. InOrder
    BY <1>6 DEF Enter, InOrder
  <2> QED BY <2>1, <2>2
<1>7. ASSUME /\ UNCHANGED <<loading, todo, call, failed, holding, asked, ready, result, nextJ>>
             /\ main' = "called" => main = "called"
      PROVE  OrderHolds' /\ InOrder
  BY <1>0, <1>7 DEF OrderHolds, InOrder, First
<1>8. ASSUME NEW w \in Workers, Dispatch(w) \/ MulAdd(w) \/ UnitDone(w) \/ WorkerExit(w)
      PROVE  /\ UNCHANGED <<loading, todo, call, failed, holding, asked, ready, result, nextJ>>
             /\ main' = "called" => main = "called"
  BY <1>8 DEF Dispatch, MulAdd, UnitDone, WorkerExit
<1>9. ASSUME NEW i \in Rows, Finish(i)
      PROVE  /\ UNCHANGED <<loading, todo, call, failed, holding, asked, ready, result, nextJ>>
             /\ main' = "called" => main = "called"
  BY <1>9 DEF Finish
<1>10. Barrier \/ Join \/ Return \/ UNCHANGED vars =>
             /\ UNCHANGED <<loading, todo, call, failed, holding, asked, ready, result, nextJ>>
             /\ main' = "called" => main = "called"
  BY DEF Barrier, Join, Return, vars
<1> QED BY <1>1, <1>2, <1>3, <1>5, <1>6, <1>7, <1>8, <1>9, <1>10 DEF Next

\* FoldInputs asks for its inputs "strictly sequential[ly]", each right after the one before it,
\* whichever goroutine reads the batch (fold.go:21-24, 169-172).
THEOREM InputsAreAskedInOrder == Spec => InputsInOrder
<1>1. Init => OrderHolds
  BY DEF Init, OrderHolds
<1> QED BY <1>1, OrderStep, FoldInvariance, PTL DEF Spec, InputsInOrder

-----------------------------------------------------------------------------
\* A step of the pipeline is a step of the abstract call, or none.
LEMMA StepRefines ==
  ASSUME NumInputs # 0, FoldInv, FoldInv', [Next]_vars
  PROVE  [Promise!SumNext]_(Promise!sumVars)
<1> USE DEF loopVars, workVars, readVars, callVars, Promise!sumVars
<1>1. ASSUME NEW l \in Lanes, AskNext(l) PROVE [Promise!SumNext]_(Promise!sumVars)
  <2>1. /\ out' = out /\ outcome' = outcome /\ loading
        /\ refused' = refused \/ refused' = TRUE
    BY <1>1 DEF AskNext
  <2>2. outcome = "running"
    BY <2>1 DEF FoldInv, SumHolds, ReadHolds, InLoop
  <2>3. CASE refused' = refused
    BY <2>1, <2>3
  <2>4. CASE refused' = TRUE
    BY <2>1, <2>2, <2>4 DEF Promise!SumNext, Promise!Refuse
  <2> QED BY <2>1, <2>3, <2>4
<1>2. CASE Join
  <2>1. main = "close" /\ out' = out /\ refused' = refused
    BY <1>2 DEF Join
  <2>2. CASE foldErr
    <3>1. outcome = "running" /\ outcome' = "error" /\ refused
      BY <1>2, <2>1, <2>2 DEF Join, FoldInv, SumHolds, ReadHolds
    <3> QED BY <2>1, <3>1 DEF Promise!SumNext, Promise!Fail
  <2>3. CASE ~foldErr
    BY <1>2, <2>1, <2>3 DEF Join
  <2> QED BY <2>2, <2>3
<1>3. ASSUME NEW i \in Rows, Finish(i) PROVE [Promise!SumNext]_(Promise!sumVars)
  <2>1. /\ main = "finish" /\ out[i] = Stale /\ out' = [out EXCEPT ![i] = acc[i]]
        /\ refused' = refused /\ outcome' = outcome
    BY <1>3 DEF Finish
  <2>2. outcome = "running"
    BY <2>1 DEF FoldInv, SumHolds
  <2>3. \A a \in Rows : out[a] = Sum(NumInputs) => out'[a] = Sum(NumInputs)
    <3>1. \A a \in Rows : a # i => out'[a] = out[a]
      BY <2>1 DEF FoldInv, TypeOK
    <3> QED BY <2>1, <3>1, SumIsFresh
  <2>4. {a \in Rows : out[a] = Sum(NumInputs)} \subseteq {a \in Rows : out'[a] = Sum(NumInputs)}
    BY <2>3
  <2> QED BY <2>1, <2>2, <2>4 DEF Promise!SumNext, Promise!Complete
<1>4. CASE Return
  <2>1. /\ main = "finish" /\ outcome' = "ok" /\ out' = out /\ refused' = refused
        /\ \A i \in Rows : out[i] # Stale
    BY <1>4 DEF Return
  <2>2. outcome = "running" /\ ~refused
    BY <2>1 DEF FoldInv, SumHolds, ReadHolds, InLoop
  <2>3. {i \in Rows : out[i] = Sum(NumInputs)} = Rows
    BY <2>1 DEF FoldInv, SumHolds
  <2> QED BY <2>1, <2>2, <2>3 DEF Promise!SumNext, Promise!Succeed
<1>5. CASE UNCHANGED <<out, outcome, refused>>
  BY <1>5
<1>6. ASSUME NEW l \in Lanes, PrepareSlot(l) PROVE UNCHANGED <<out, outcome, refused>>
  BY <1>6 DEF PrepareSlot
<1>7. ASSUME NEW w \in Workers, Dispatch(w) \/ MulAdd(w) \/ UnitDone(w) \/ WorkerExit(w)
      PROVE  UNCHANGED <<out, outcome, refused>>
  BY <1>7 DEF Dispatch, MulAdd, UnitDone, WorkerExit
<1>8. Enter \/ EndRead \/ FirstBatch \/ NextBatch \/ Barrier \/ UNCHANGED vars
        => UNCHANGED <<out, outcome, refused>>
  BY DEF Enter, EndRead, FirstBatch, NextBatch, TakeBatch, Barrier, vars
<1> QED BY <1>1, <1>2, <1>3, <1>4, <1>5, <1>6, <1>7, <1>8 DEF Next

\* The pipeline implements the promise of FoldInputs whenever there is an input:
\* when it succeeds every row holds every input exactly once under its own
\* coefficient, it fails only on a refused input and never hides one, and no row
\* changes once the call has returned.
THEOREM PipelineImplementsFold ==
  ASSUME NumInputs # 0
  PROVE  Spec => KeepsPromise
<1>1. Init => Promise!SumInit
  BY SumIsFresh DEF Init, Promise!SumInit, readVars
<1>2. FoldInv /\ FoldInv' /\ [Next]_vars => [Promise!SumNext]_(Promise!sumVars)
  BY StepRefines
<1> QED BY <1>1, <1>2, FoldInvariance, PTL DEF Spec, KeepsPromise, Promise!SumSpec

-----------------------------------------------------------------------------
\* Every call that is folded is one of a back end's own: the proofs about them hold of it.
LEMMA EachFold == FoldSpec => Spec /\ PureGo!Spec
<1>1. FoldInit => Init /\ PureGo!Init
  BY DEF FoldInit
<1>2. [FoldNext]_foldVars => [Next]_vars /\ [PureGo!Next]_(PureGo!vars)
  <2> SUFFICES ASSUME [FoldNext]_foldVars PROVE [Next]_vars /\ [PureGo!Next]_(PureGo!vars)
    OBVIOUS
  <2>1. UNCHANGED pureVars => UNCHANGED PureGo!vars
    BY DEF pureVars, PureGo!vars
  <2> QED BY <2>1 DEF FoldNext, foldVars
<1> QED BY <1>1, <1>2, PTL DEF FoldSpec, Spec, PureGo!Spec
===============================================================================
