------------------------------ MODULE CreateProofs ------------------------------
(***************************************************************************)
(* Create leaves what a decoder can use: proofs for any number of files,    *)
(* contents, blocks, calls and faults.                                      *)
(*                                                                          *)
(* The heart of it is NamesHold.  Volumes double in size, so calls that ask *)
(* for the same count write the same names in the same order: the volumes   *)
(* on the disk are always an initial part of that one list, and those the   *)
(* running call has passed are its own.                                     *)
(***************************************************************************)
EXTENDS Create, SequenceLemmas

-----------------------------------------------------------------------------
TypeOK ==
  /\ data \in [Paths -> Contents \cup {Missing}]
  /\ par \in [DOMAIN par -> PacketFiles \cup {Blank, Broken}]
  /\ DOMAIN par \subseteq {Index} \cup (Nat \X Nat)
  /\ pc \in {"idle", "load", "compute", "index", "volumes"} /\ writing \in BOOLEAN
  /\ parityShardCount \in Nat /\ i \in Nat /\ volumeCount \in Nat /\ calls \in Nat
  /\ read \in Seq(Contents) /\ Len(read) <= NumFiles
  /\ recoverySet \in Seq(FileIDs)
  /\ IsFiniteSet(counts) /\ counts \subseteq Nat

\* The sorted recovery set, of the files as they were read.
SetHolds ==
  /\ pc \in {"compute", "index", "volumes"} \/ outcome = "ok" => recoverySet # <<>>
  /\ recoverySet # <<>> =>
       /\ Len(read) = NumFiles /\ Len(recoverySet) = NumFiles
       /\ \A k, m \in 1..NumFiles : k < m => Before(recoverySet[k], recoverySet[m])

\* The blocks are computed from the slices of that set, which is on record.
ShardsHold ==
  pc \in {"index", "volumes"} \/ outcome = "ok" =>
    /\ parityShards = [e \in 0..(parityShardCount - 1) |-> [exp |-> e, of |-> DataShards]]
    /\ [id |-> recoverySet, sums |-> InOrder(recoverySet)] \in sets

\* What calls there were.
CallsHold ==
  /\ counts = {} => pc = "idle" /\ outcome = "none" /\ DOMAIN par = {} /\ calls = 0
  /\ counts # {} => parityShardCount \in counts /\ parityShardCount # 0 /\ calls # 0
  /\ calls = 1 => counts = {parityShardCount}
  /\ outcome \in {"ok", "refused", "panic"} => pc = "idle"
  /\ outcome \in {"refused", "panic"} => \E p \in Paths : read[p] = <<>>

\* Every file of packets, whoever wrote it, is of a set on record, and its blocks
\* are those its name speaks of.
FilesHold ==
  \A n \in DOMAIN par : par[n] \notin {Blank, Broken} =>
    /\ [id |-> par[n].id, sums |-> par[n].sums] \in sets
    /\ \A b \in par[n].blocks : /\ n # Index /\ b.exp \in n[1]..(n[1] + n[2] - 1)
                                /\ b.of = FlattenSeq(par[n].sums)

\* The index, and a volume of the running call.
WholeIndex == [id |-> recoverySet, sums |-> InOrder(recoverySet), blocks |-> {}]
WholeVolume(v) == [id |-> recoverySet, sums |-> InOrder(recoverySet),
                   blocks |-> {parityShards[e] : e \in v[1]..(v[1] + v[2] - 1)}]

Writes == pc = "volumes" \/ outcome = "ok"

\* The index and the volumes so far are written.
VolumesHold ==
  /\ Writes => /\ i <= parityShardCount
               /\ Index \in DOMAIN par /\ par[Index] = WholeIndex
               /\ \A e \in 0..(i - 1) : \E v \in Volumes :
                    e \in v[1]..(v[1] + v[2] - 1) /\ v[1] + v[2] <= i /\ par[v] = WholeVolume(v)
  /\ pc = "volumes" => i < parityShardCount /\ volumeCount = i + 1
  /\ outcome = "ok" => i = parityShardCount
  /\ writing => pc \in {"index", "volumes"} /\ Target \in DOMAIN par

\* The name of the volume that starts at block s.
Size(s) == IF s + s + 1 > parityShardCount THEN parityShardCount - s ELSE s + 1

\* Volumes that follow one another without a gap, and up to block m.
NamesFollow(V) ==
  /\ \A v \in V : v[1] < parityShardCount /\ v[2] = Size(v[1])
  /\ \A v, u \in V : v[1] < u[1] => v[1] + v[2] <= u[1]
  /\ V # {} => \E v \in V : v[1] = 0
  /\ \A v \in V : (\E u \in V : u[1] = v[1] + v[2]) \/ (\A u \in V : u[1] <= v[1])
NamesPassed(V, m) ==
  /\ m = 0 \/ \E v \in V : v[1] + v[2] = m
  /\ (\E v \in V : v[1] >= m) => \E v \in V : v[1] = m

\* So do the volumes there are as long as the same count is asked for, and those that
\* the running call has passed are its own.
NamesHold ==
  counts = {parityShardCount} =>
    /\ NamesFollow(Volumes)
    /\ Writes => /\ NamesPassed(Volumes, i)
                 /\ \A v \in Volumes : v[1] < i => par[v] = WholeVolume(v)

CreateInv == /\ TypeOK /\ SetHolds /\ ShardsHold /\ CallsHold /\ FilesHold /\ VolumesHold /\ NamesHold

USE CreateAssumption

-----------------------------------------------------------------------------
\* EndLoad sorts the IDs of the files it read.
LEMMA IDsAreSorted ==
  ASSUME NEW r \in Seq(Contents), Len(r) = NumFiles
  PROVE  LET t == Sorted([p \in Paths |-> FileID(p, r[p])], Before)
         IN  /\ t \in Seq(FileIDs) /\ Len(t) = NumFiles
             /\ \A k, m \in 1..NumFiles : k < m => Before(t[k], t[m])
<1> DEFINE s == [p \in Paths |-> FileID(p, r[p])]
           t == Sorted(s, Before)
           R == {x \in FileIDs \X FileIDs : Before(x[1], x[2])}
<1>1. s \in Seq(FileIDs) /\ Len(s) = NumFiles /\ DOMAIN s = Paths /\ Paths = 1..NumFiles
  <2>1. NumFiles \in Nat /\ Paths = 1..NumFiles /\ DOMAIN r = Paths
    BY DEF Paths
  <2>2. \A p \in Paths : s[p] \in FileIDs
    BY <2>1 DEF FileIDs
  <2>3. s \in [1..NumFiles -> FileIDs]
    BY <2>1, <2>2
  <2> HIDE DEF s
  <2> QED BY <2>1, <2>3
<1>2. \A a, b \in FileIDs : <<a, b>> \in R <=> Before(a, b)
  OBVIOUS
<1> HIDE DEF R
<1>3. IsInjective(s)
  BY DEF IsInjective, FileID
<1>4. ToSet(s) \subseteq FileIDs /\ \A k \in Paths : s[k] \in FileIDs
  BY <1>1 DEF ToSet
<1>5. StrictOrder(R, ToSet(s))
  <2>1. \A a \in FileIDs : <<a, a>> \notin R
    BY <1>2, OrderAssumption
  <2>2. \A a, b \in FileIDs : a # b => <<a, b>> \in R \/ <<b, a>> \in R
    BY <1>2, OrderAssumption
  <2>3. \A a, b, c \in FileIDs : <<a, b>> \in R /\ <<b, c>> \in R => <<a, c>> \in R
    BY <1>2, OrderAssumption
  <2> QED BY <1>4, <2>1, <2>2, <2>3 DEF StrictOrder
<1>6. ASSUME NEW k \in DOMAIN s
      PROVE  Rank(s, k, Before) = Cardinality(Under(s, R, k))
  <2>1. ASSUME NEW j \in DOMAIN s
        PROVE  (Before(s[j], s[k]) \/ (j < k /\ ~Before(s[k], s[j]))) <=> <<s[j], s[k]>> \in R
    <3>1. s[j] \in FileIDs /\ s[k] \in FileIDs
      BY <1>1, <1>4
    <3>2. j < k => s[j] # s[k]
      BY <1>1, <1>3 DEF IsInjective
    <3> HIDE DEF s
    <3> QED BY <1>2, <3>1, <3>2, OrderAssumption
  <2>2. {j \in DOMAIN s : Before(s[j], s[k]) \/ (j < k /\ ~Before(s[k], s[j]))} = Under(s, R, k)
    BY <2>1 DEF Under
  <2> QED BY <1>1, <2>2 DEF Rank
<1> HIDE DEF s
<1>b. s \in Seq(FileIDs)
  BY <1>1
<1>7. \A n \in DOMAIN s : \E k \in DOMAIN s : Cardinality(Under(s, R, k)) = n - 1
  BY <1>b, <1>3, <1>5, Ranks
<1>8. ASSUME NEW n \in DOMAIN s
      PROVE  t[n] \in FileIDs /\ \E k \in DOMAIN s : Cardinality(Under(s, R, k)) = n - 1 /\ t[n] = s[k]
  <2> DEFINE k == CHOOSE j \in DOMAIN s : Rank(s, j, Before) = n - 1
  <2>1. t[n] = s[k]
    BY <1>1 DEF Sorted
  <2>2. \E j \in DOMAIN s : Rank(s, j, Before) = n - 1
    BY <1>6, <1>7
  <2>3. k \in DOMAIN s /\ Rank(s, k, Before) = n - 1
    BY <2>2
  <2> QED BY <1>1, <1>4, <1>6, <2>1, <2>3
<1>9. t = [n \in DOMAIN s |-> t[n]]
  BY <1>1 DEF Sorted
<1> HIDE DEF t
<1>10. t \in [DOMAIN s -> FileIDs]
  BY <1>1, <1>8, <1>9
<1>c. \A n \in DOMAIN s : \E k \in DOMAIN s : Cardinality(Under(s, R, k)) = n - 1 /\ t[n] = s[k]
  BY <1>8
<1>11. /\ t \in Seq(FileIDs) /\ Len(t) = Len(s)
       /\ ToSet(t) = ToSet(s) /\ IsInjective(t)
       /\ \A n, m \in DOMAIN t : n < m => <<t[n], t[m]>> \in R
  BY <1>b, <1>3, <1>5, <1>c, <1>10, RankedAreSorted
<1>12. \A k, m \in 1..NumFiles : k < m => Before(t[k], t[m])
  BY <1>1, <1>2, <1>10, <1>11
<1> QED BY <1>1, <1>11, <1>12 DEF s, t

\* The sums of a recovery set, and the slices the blocks are computed from.
LEMMA SetIsTyped ==
  ASSUME TypeOK, SetHolds, recoverySet # <<>>
  PROVE  /\ \A k \in DOMAIN recoverySet : recoverySet[k][1] \in Paths
         /\ InOrder(recoverySet) \in Seq(Contents) /\ Len(InOrder(recoverySet)) = NumFiles
         /\ InOrder(recoverySet) \in Seq(Seq(Parts))
         /\ DataShards \in Seq(Parts)
         /\ ToSet(DataShards) = UNION {ToSet(InOrder(recoverySet)[k]) : k \in 1..NumFiles}
<1>1. /\ recoverySet \in Seq(FileIDs) /\ Len(recoverySet) = NumFiles
      /\ read \in Seq(Contents) /\ Len(read) = NumFiles
      /\ DOMAIN recoverySet = 1..NumFiles /\ DOMAIN read = Paths
  BY DEF TypeOK, SetHolds, Paths
<1>2. ASSUME NEW k \in DOMAIN recoverySet
      PROVE  recoverySet[k][1] \in Paths /\ read[recoverySet[k][1]] \in Contents
  <2>1. recoverySet[k] \in FileIDs
    BY <1>1
  <2>2. recoverySet[k][1] \in Paths
    BY <2>1 DEF FileIDs, FileID
  <2> QED BY <1>1, <2>2
<1> DEFINE sums == InOrder(recoverySet)
<1>3. sums \in Seq(Contents) /\ Len(sums) = NumFiles /\ DOMAIN sums = 1..NumFiles
  <2>1. sums \in [1..NumFiles -> Contents]
    BY <1>1, <1>2 DEF InOrder
  <2>2. NumFiles \in Nat
    OBVIOUS
  <2> HIDE DEF sums
  <2> QED BY <2>1, <2>2
<1> HIDE DEF sums
<1>4. sums \in Seq(Seq(Parts))
  BY <1>3
<1>5. /\ FlattenSeq(sums) \in Seq(Parts)
      /\ ToSet(FlattenSeq(sums)) = UNION {ToSet(sums[k]) : k \in 1..NumFiles}
  BY <1>3, <1>4, Flattened
<1> QED BY <1>2, <1>3, <1>4, <1>5 DEF sums, DataShards

-----------------------------------------------------------------------------
\* The file that is due: the index, or the volume from block i on.
LEMMA TargetIsTyped ==
  ASSUME TypeOK, VolumesHold, CallsHold, pc \in {"index", "volumes"}
  PROVE  /\ pc = "index" => Target = Index
         /\ pc = "volumes" => /\ Target = <<i, Count>> /\ Target \in Nat \X Nat /\ Target # Index
                              /\ Count = Size(i) /\ Count \in Nat \ {0} /\ i + Count <= parityShardCount
         /\ Target \in {Index} \cup (Nat \X Nat)
<1>1. pc = "volumes" => i < parityShardCount /\ volumeCount = i + 1 /\ i \in Nat /\ parityShardCount \in Nat
  BY DEF TypeOK, VolumesHold
<1>2. pc = "volumes" => Count = Size(i) /\ Count \in Nat \ {0} /\ i + Count <= parityShardCount
  BY <1>1 DEF Count, Size
<1>3. pc = "volumes" => Target = <<i, Count>>
  BY DEF Target
<1>4. pc = "index" => Target = Index
  BY DEF Target
<1> QED BY <1>1, <1>2, <1>3, <1>4

\* What is written into it.
LEMMA PacketsAreTyped ==
  ASSUME CreateInv, pc \in {"index", "volumes"}
  PROVE  /\ Packets \in PacketFiles
         /\ pc = "index" => Packets = WholeIndex
         /\ pc = "volumes" => Packets = WholeVolume(Target)
         /\ [id |-> Packets.id, sums |-> Packets.sums] \in sets
         /\ \A b \in Packets.blocks :
              /\ pc = "volumes" /\ b.exp \in Target[1]..(Target[1] + Target[2] - 1)
              /\ b.of = FlattenSeq(Packets.sums)
<1>1. /\ recoverySet \in Seq(FileIDs) /\ InOrder(recoverySet) \in Seq(Contents)
      /\ DataShards \in Seq(Parts) /\ DataShards = FlattenSeq(InOrder(recoverySet))
  BY SetIsTyped DEF CreateInv, TypeOK, SetHolds, DataShards
<1>2. /\ parityShards = [e \in 0..(parityShardCount - 1) |-> [exp |-> e, of |-> DataShards]]
      /\ [id |-> recoverySet, sums |-> InOrder(recoverySet)] \in sets
  BY DEF CreateInv, ShardsHold
<1>3. CASE pc = "index"
  BY <1>1, <1>2, <1>3 DEF Packets, WholeIndex, PacketFiles
<1>4. CASE pc = "volumes"
  <2>1. /\ Target = <<i, Count>> /\ Count \in Nat \ {0} /\ i + Count <= parityShardCount
        /\ i \in Nat /\ parityShardCount \in Nat
    BY <1>4, TargetIsTyped DEF CreateInv, TypeOK
  <2>2. Packets = WholeVolume(Target)
    BY <1>4, <2>1 DEF Packets, WholeVolume
  <2>3. \A e \in i..(i + Count - 1) : parityShards[e] = [exp |-> e, of |-> DataShards]
    BY <1>2, <2>1
  <2>4. \A b \in Packets.blocks : \E e \in i..(i + Count - 1) : b = [exp |-> e, of |-> DataShards]
    BY <2>1, <2>2, <2>3 DEF WholeVolume
  <2>5. Packets.blocks \subseteq [exp : Nat, of : Seq(Parts)]
    BY <1>1, <2>1, <2>4
  <2>6. Packets = [id |-> recoverySet, sums |-> InOrder(recoverySet), blocks |-> Packets.blocks]
    BY <2>2 DEF WholeVolume
  <2>7. Packets \in PacketFiles
    BY <1>1, <2>5, <2>6 DEF PacketFiles
  <2>8. Packets.id = recoverySet /\ Packets.sums = InOrder(recoverySet)
    BY <2>6
  <2>9. [id |-> Packets.id, sums |-> Packets.sums] \in sets
    BY <1>2, <2>8
  <2>10. ASSUME NEW b \in Packets.blocks
         PROVE  b.exp \in Target[1]..(Target[1] + Target[2] - 1) /\ b.of = FlattenSeq(Packets.sums)
    <3>1. PICK e \in i..(i + Count - 1) : b = [exp |-> e, of |-> DataShards]
      BY <2>4
    <3>2. b.exp = e /\ b.of = DataShards /\ Target[1] = i /\ Target[2] = Count
      BY <2>1, <3>1
    <3> QED BY <1>1, <2>8, <3>1, <3>2
  <2> QED BY <1>4, <2>2, <2>7, <2>9, <2>10
<1> QED BY <1>3, <1>4

\* What a write leaves is what was to be written, or less of it.
LEMMA RemainsAreTyped ==
  ASSUME CreateInv, pc \in {"index", "volumes"}, NEW r \in Remains \cup {Packets}
  PROVE  /\ r \in PacketFiles \cup {Blank, Broken}
         /\ r \notin {Blank, Broken} =>
              r.id = Packets.id /\ r.sums = Packets.sums /\ r.blocks \subseteq Packets.blocks
<1>1. Packets \in PacketFiles
  BY PacketsAreTyped
<1>2. CASE r \in {Blank, Broken, Packets}
  BY <1>1, <1>2
<1>3. CASE r \notin {Blank, Broken, Packets}
  <2>1. PICK c \in Packets.blocks : r = [Packets EXCEPT !.blocks = {b \in @ : b.exp < c.exp}]
    BY <1>3 DEF Remains
  <2> HIDE DEF Packets
  <2>2. r = [id |-> Packets.id, sums |-> Packets.sums, blocks |-> {b \in Packets.blocks : b.exp < c.exp}]
    BY <1>1, <2>1 DEF PacketFiles
  <2> QED BY <1>1, <2>2 DEF PacketFiles
<1> QED BY <1>2, <1>3

\* Put replaces or adds one file.
LEMMA PutIsTyped ==
  ASSUME TypeOK, NEW r \in PacketFiles \cup {Blank, Broken}, Target \in {Index} \cup (Nat \X Nat), Put(r)
  PROVE  /\ par' \in [DOMAIN par' -> PacketFiles \cup {Blank, Broken}]
         /\ DOMAIN par' = DOMAIN par \cup {Target} /\ DOMAIN par' \subseteq {Index} \cup (Nat \X Nat)
         /\ par'[Target] = r
         /\ \A n \in DOMAIN par : n # Target => par'[n] = par[n]
  BY DEF Put, TypeOK

-----------------------------------------------------------------------------
\* Nothing is there yet.
LEMMA InitHolds == Init => CreateInv
<1> SUFFICES ASSUME Init PROVE CreateInv
  OBVIOUS
<1> USE DEF Init
<1>1. TypeOK
  <2>1. IsFiniteSet(counts)
    BY FS_EmptySet
  <2>2. NumFiles \in Nat
    OBVIOUS
  <2>3. data \in [Paths -> Contents \cup {Missing}]
    OBVIOUS
  <2>4. par = [n \in DOMAIN par |-> par[n]] /\ DOMAIN par = {}
    OBVIOUS
  <2>5. /\ par \in [DOMAIN par -> PacketFiles \cup {Blank, Broken}]
        /\ DOMAIN par \subseteq {Index} \cup (Nat \X Nat)
    BY <2>4
  <2>6. read \in Seq(Contents) /\ Len(read) <= NumFiles /\ recoverySet \in Seq(FileIDs)
    BY <2>2
  <2>7. /\ pc \in {"idle", "load", "compute", "index", "volumes"} /\ writing \in BOOLEAN
        /\ parityShardCount \in Nat /\ i \in Nat /\ volumeCount \in Nat /\ calls \in Nat
        /\ counts \subseteq Nat
    OBVIOUS
  <2> QED BY <2>1, <2>3, <2>5, <2>6, <2>7 DEF TypeOK
<1>2. SetHolds /\ ShardsHold /\ CallsHold /\ FilesHold
  BY DEF SetHolds, ShardsHold, CallsHold, FilesHold
<1>3. VolumesHold /\ NamesHold
  BY DEF VolumesHold, NamesHold, Writes
<1> QED BY <1>1, <1>2, <1>3 DEF CreateInv

\* Every action keeps the types.
LEMMA TypeStep == CreateInv /\ [Next]_vars => TypeOK'
<1> SUFFICES ASSUME CreateInv, [Next]_vars PROVE TypeOK'
  OBVIOUS
<1> USE DEF dataVars, encoder, loop, history
<1>0. TypeOK
  BY DEF CreateInv
<1>1. ASSUME NEW n \in Asked, Call(n) PROVE TypeOK'
  <2>1. n \in Nat /\ parityShardCount' \in Nat
    BY <1>1 DEF Call, NumParityShardsDefault
  <2>2. IsFiniteSet(counts') /\ counts' \subseteq Nat
    BY <1>0, <1>1, <2>1, FS_AddElement DEF Call, TypeOK
  <2> QED BY <1>0, <1>1, <2>1, <2>2 DEF Call, TypeOK
<1>2. CASE LoadFile
  <2>1. read' \in Seq(Contents) /\ Len(read') <= NumFiles
    <3> DEFINE c == data[Len(read) + 1]
    <3>1. Len(read) + 1 \in Paths
      BY <1>0, <1>2 DEF LoadFile, TypeOK, Paths
    <3>2. c \in Contents \cup {Missing}
      BY <1>0, <3>1 DEF TypeOK
    <3>3. c = Missing => read' = read
      BY <1>2 DEF LoadFile
    <3>4. c # Missing => read' = Append(read, c)
      BY <1>2 DEF LoadFile
    <3>5. read \in Seq(Contents) /\ Len(read) < NumFiles
      BY <1>0, <1>2 DEF LoadFile, TypeOK
    <3> HIDE DEF c
    <3>6. CASE c = Missing
      BY <3>3, <3>5, <3>6
    <3>7. CASE c # Missing
      <4>1. c \in Contents /\ read' = Append(read, c)
        BY <3>2, <3>4, <3>7
      <4> QED BY <3>5, <4>1
    <3> QED BY <3>6, <3>7
  <2> QED BY <1>0, <1>2, <2>1 DEF LoadFile, TypeOK, Return
<1>3. CASE EndLoad
  <2>1. recoverySet' \in Seq(FileIDs)
    BY <1>0, <1>3, IDsAreSorted DEF EndLoad, TypeOK
  <2> QED BY <1>0, <1>3, <2>1 DEF EndLoad, TypeOK
<1>4. CASE ComputeParityData
  BY <1>0, <1>4 DEF ComputeParityData, Return, TypeOK
<1>5. CASE StartWrite
  <2>1. CASE Writable
    <3>1. Put(Blank)
      BY <1>5, <2>1 DEF StartWrite
    <3>2. Target \in {Index} \cup (Nat \X Nat)
      BY <1>5, TargetIsTyped DEF StartWrite, CreateInv
    <3>3. /\ par' \in [DOMAIN par' -> PacketFiles \cup {Blank, Broken}]
          /\ DOMAIN par' \subseteq {Index} \cup (Nat \X Nat)
      BY <1>0, <3>1, <3>2, PutIsTyped
    <3> QED BY <1>0, <1>5, <2>1, <3>3 DEF StartWrite, TypeOK
  <2>2. CASE ~Writable
    BY <1>0, <1>5, <2>2 DEF StartWrite, Return, TypeOK
  <2> QED BY <2>1, <2>2
<1>6. CASE EndWrite
  <2>1. pc \in {"index", "volumes"} /\ Put(Packets)
    BY <1>6 DEF EndWrite, CreateInv, VolumesHold
  <2>2. Target \in {Index} \cup (Nat \X Nat) /\ Packets \in PacketFiles
    BY <2>1, TargetIsTyped, PacketsAreTyped DEF CreateInv
  <2>3. /\ par' \in [DOMAIN par' -> PacketFiles \cup {Blank, Broken}]
        /\ DOMAIN par' \subseteq {Index} \cup (Nat \X Nat)
    BY <1>0, <2>1, <2>2, PutIsTyped
  <2>4. pc' \in {"idle", "index", "volumes"} /\ i' \in Nat /\ volumeCount' \in Nat
    <3>1. CASE pc = "index"
      BY <1>6, <3>1 DEF EndWrite
    <3>2. CASE pc = "volumes"
      <4>1. Count \in Nat /\ i \in Nat
        BY <1>0, <3>2, TargetIsTyped DEF CreateInv, TypeOK
      <4> QED BY <1>6, <3>2, <4>1 DEF EndWrite, NextVolume, Return
    <3> QED BY <2>1, <3>1, <3>2
  <2> QED BY <1>0, <1>6, <2>3, <2>4 DEF EndWrite, NextVolume, Return, TypeOK
<1>7. CASE Fail
  <2>1. /\ par' \in [DOMAIN par' -> PacketFiles \cup {Blank, Broken}]
        /\ DOMAIN par' \subseteq {Index} \cup (Nat \X Nat)
    <3>1. CASE writing
      <4>1. pc \in {"index", "volumes"}
        BY <3>1 DEF CreateInv, VolumesHold
      <4>2. PICK r \in Remains : Put(r)
        BY <1>7, <3>1 DEF Fail
      <4>3. Target \in {Index} \cup (Nat \X Nat) /\ r \in PacketFiles \cup {Blank, Broken}
        BY <4>1, TargetIsTyped, RemainsAreTyped DEF CreateInv
      <4> QED BY <1>0, <4>2, <4>3, PutIsTyped
    <3>2. CASE ~writing
      BY <1>0, <1>7, <3>2 DEF Fail, TypeOK
    <3> QED BY <3>1, <3>2
  <2> QED BY <1>0, <1>7, <2>1 DEF Fail, Return, TypeOK
<1>8. ASSUME NEW p \in Paths, Change(p) PROVE TypeOK'
  BY <1>0, <1>8 DEF Change, TypeOK
<1>9. CASE UNCHANGED vars
  BY <1>0, <1>9 DEF vars, TypeOK
<1> QED BY <1>1, <1>2, <1>3, <1>4, <1>5, <1>6, <1>7, <1>8, <1>9 DEF Next
\* The recovery set stays sorted, and the one of the files that were read.
LEMMA SetStep == CreateInv /\ [Next]_vars => SetHolds'
<1> SUFFICES ASSUME CreateInv, [Next]_vars PROVE SetHolds'
  OBVIOUS
<1> USE DEF dataVars, encoder, loop, history
<1>0. TypeOK /\ SetHolds /\ CallsHold
  BY DEF CreateInv
<1>1. ASSUME NEW n \in Asked, Call(n) PROVE SetHolds'
  BY <1>1 DEF Call, SetHolds
<1>2. CASE LoadFile
  <2>1. recoverySet = <<>> /\ recoverySet' = <<>>
    BY <1>0, <1>2 DEF LoadFile, SetHolds, TypeOK
  <2>2. pc' \notin {"compute", "index", "volumes"} /\ outcome' # "ok"
    BY <1>0, <1>2 DEF LoadFile, Return, CallsHold
  <2> QED BY <2>1, <2>2 DEF SetHolds
<1>3. CASE EndLoad
  <2>1. /\ Len(recoverySet') = NumFiles
        /\ \A k, m \in 1..NumFiles : k < m => Before(recoverySet'[k], recoverySet'[m])
    BY <1>0, <1>3, IDsAreSorted DEF EndLoad, TypeOK
  <2>2. Len(read') = NumFiles /\ recoverySet' # <<>>
    BY <1>3, <2>1 DEF EndLoad
  <2> QED BY <2>1, <2>2 DEF SetHolds
<1>4. CASE ComputeParityData
  BY <1>0, <1>4 DEF ComputeParityData, Return, SetHolds
<1>5. CASE StartWrite
  BY <1>0, <1>5 DEF StartWrite, Return, SetHolds
<1>6. CASE EndWrite
  BY <1>0, <1>6 DEF EndWrite, NextVolume, Return, SetHolds, CreateInv, VolumesHold
<1>7. CASE Fail
  BY <1>0, <1>7 DEF Fail, Return, SetHolds
<1>8. ASSUME NEW p \in Paths, Change(p) PROVE SetHolds'
  BY <1>0, <1>8 DEF Change, SetHolds
<1>9. CASE UNCHANGED vars
  BY <1>0, <1>9 DEF vars, SetHolds
<1> QED BY <1>1, <1>2, <1>3, <1>4, <1>5, <1>6, <1>7, <1>8, <1>9 DEF Next

\* The blocks are of the recovery set until the next call begins.
LEMMA ShardsStep == CreateInv /\ [Next]_vars => ShardsHold'
<1> SUFFICES ASSUME CreateInv, [Next]_vars PROVE ShardsHold'
  OBVIOUS
<1> USE DEF dataVars, encoder, loop, history
<1>0. ShardsHold /\ CallsHold
  BY DEF CreateInv
<1>1. ASSUME NEW n \in Asked, Call(n) PROVE ShardsHold'
  BY <1>1 DEF Call, ShardsHold
<1>2. CASE LoadFile
  BY <1>0, <1>2 DEF LoadFile, Return, ShardsHold, CallsHold
<1>3. CASE EndLoad
  BY <1>0, <1>3 DEF EndLoad, ShardsHold, CallsHold
<1>4. CASE ComputeParityData
  <2>1. CASE Shards = <<>>
    BY <1>4, <2>1 DEF ComputeParityData, Return, ShardsHold
  <2>2. CASE Shards # <<>>
    <3>1. /\ parityShards' = [e \in 0..(parityShardCount - 1) |-> [exp |-> e, of |-> DataShards]]
          /\ [id |-> recoverySet, sums |-> InOrder(recoverySet)] \in sets'
          /\ UNCHANGED <<parityShardCount, recoverySet, read>>
      BY <1>4, <2>2 DEF ComputeParityData, Shards
    <3>2. DataShards' = DataShards /\ InOrder(recoverySet)' = InOrder(recoverySet)
      BY <3>1 DEF DataShards, InOrder
    <3> QED BY <3>1, <3>2 DEF ShardsHold
  <2> QED BY <2>1, <2>2
<1>5. ASSUME UNCHANGED <<encoder, sets>>,
             pc' \in {"index", "volumes"} \/ outcome' = "ok" =>
               pc \in {"index", "volumes"} \/ outcome = "ok"
      PROVE  ShardsHold'
  <2>1. DataShards' = DataShards /\ InOrder(recoverySet)' = InOrder(recoverySet)
    BY <1>5 DEF DataShards, InOrder
  <2> QED BY <1>0, <1>5, <2>1 DEF ShardsHold
<1>6. CASE StartWrite
  BY <1>5, <1>6 DEF StartWrite, Return
<1>7. CASE EndWrite
  BY <1>5, <1>7 DEF EndWrite, NextVolume, Return, CreateInv, VolumesHold
<1>8. CASE Fail
  BY <1>5, <1>8 DEF Fail, Return
<1>9. ASSUME NEW p \in Paths, Change(p) PROVE ShardsHold'
  BY <1>5, <1>9 DEF Change
<1>10. CASE UNCHANGED vars
  BY <1>5, <1>10 DEF vars
<1> QED BY <1>1, <1>2, <1>3, <1>4, <1>6, <1>7, <1>8, <1>9, <1>10 DEF Next

-----------------------------------------------------------------------------
\* Only a file without a slice makes Create panic or writeFile refuse: the IDs it
\* sorted cannot be out of order.
LEMMA RefusesOnlyEmpty ==
  ASSUME TypeOK, SetHolds, recoverySet # <<>>, Shards = <<>> \/ ~Writable
  PROVE  \E p \in Paths : read[p] = <<>>
<1>1. NumFiles \in Nat \ {0} /\ Len(read) = NumFiles /\ read \in Seq(Contents)
  BY DEF TypeOK, SetHolds
<1>2. CASE Shards = <<>>
  <2> DEFINE sums == InOrder(recoverySet)
  <2>1. /\ \A k \in DOMAIN recoverySet : recoverySet[k][1] \in Paths
        /\ ToSet(DataShards) = UNION {ToSet(sums[k]) : k \in 1..NumFiles}
    BY SetIsTyped
  <2>2. 1 \in DOMAIN recoverySet /\ 1 \in 1..NumFiles
    BY <1>1 DEF TypeOK, SetHolds
  <2>3. sums[1] = read[recoverySet[1][1]] /\ recoverySet[1][1] \in Paths
    BY <2>1, <2>2 DEF InOrder
  <2>4. sums[1] \in Contents /\ sums[1] \in Seq(Parts)
    BY <1>1, <2>3 DEF Paths
  <2> HIDE DEF sums
  <2>5. ToSet(DataShards) = {}
    BY <1>2 DEF Shards, ToSet
  <2>6. ToSet(sums[1]) \subseteq UNION {ToSet(sums[k]) : k \in 1..NumFiles}
    BY <2>2
  <2> DEFINE first == sums[1]
  <2>7. ToSet(first) = {}
    <3> HIDE DEF first
    <3> QED BY <2>1, <2>5, <2>6 DEF first
  <2>8. first = <<>>
    <3>1. first \in Seq(Parts)
      BY <2>4
    <3> HIDE DEF first
    <3>2. \A k \in DOMAIN first : first[k] \in ToSet(first)
      BY DEF ToSet
    <3>3. Len(first) \in Nat /\ DOMAIN first = 1..Len(first)
      BY <3>1
    <3>4. ~(1 \in 1..Len(first))
      BY <2>7, <3>2, <3>3
    <3>5. Len(first) = 0
      BY <3>3, <3>4
    <3> QED BY <3>1, <3>5
  <2> QED BY <2>3, <2>8
<1>3. CASE ~Writable
  <2>1. \A k \in 1..(NumFiles - 1) : Before(recoverySet[k], recoverySet[k + 1])
    BY <1>1 DEF SetHolds
  <2>2. \A k \in 1..NumFiles : recoverySet[k] \in FileIDs
    BY <1>1 DEF TypeOK, SetHolds
  <2>3. ASSUME NEW k \in 1..(NumFiles - 1) PROVE ~Before(recoverySet[k + 1], recoverySet[k])
    <3>1. recoverySet[k] \in FileIDs /\ recoverySet[k + 1] \in FileIDs
      BY <1>1, <2>2
    <3> QED BY <2>1, <3>1, OrderAssumption
  <2> QED BY <1>3, <2>3 DEF Writable
<1> QED BY <1>2, <1>3

\* A call that fails over its files stops, and every call leaves its count.
LEMMA CallsStep == CreateInv /\ [Next]_vars => CallsHold'
<1> SUFFICES ASSUME CreateInv, [Next]_vars PROVE CallsHold'
  OBVIOUS
<1> USE DEF dataVars, encoder, loop, history
<1>0. TypeOK /\ SetHolds /\ CallsHold /\ VolumesHold
  BY DEF CreateInv
<1>1. ASSUME NEW n \in Asked, Call(n) PROVE CallsHold'
  <2>1. parityShardCount' # 0 /\ counts' = counts \cup {parityShardCount'} /\ calls' = calls + 1
    BY <1>1 DEF Call, NumParityShardsDefault
  <2>2. calls \in Nat /\ (calls' = 1 => counts = {})
    BY <1>0, <2>1 DEF CallsHold, TypeOK
  <2>3. outcome' = "running"
    BY <1>1 DEF Call
  <2> QED BY <2>1, <2>2, <2>3 DEF CallsHold
<1>2. CASE LoadFile
  BY <1>0, <1>2 DEF LoadFile, Return, CallsHold
<1>3. CASE EndLoad
  BY <1>0, <1>3 DEF EndLoad, CallsHold
<1>4. CASE ComputeParityData
  <2>1. Shards = <<>> => \E p \in Paths : read[p] = <<>>
    BY <1>0, <1>4, RefusesOnlyEmpty DEF ComputeParityData, SetHolds
  <2> QED BY <1>0, <1>4, <2>1 DEF ComputeParityData, Return, CallsHold
<1>5. CASE StartWrite
  <2>1. ~Writable => \E p \in Paths : read[p] = <<>>
    BY <1>0, <1>5, RefusesOnlyEmpty DEF StartWrite, SetHolds
  <2> QED BY <1>0, <1>5, <2>1 DEF StartWrite, Return, CallsHold
<1>6. CASE EndWrite
  BY <1>0, <1>6 DEF EndWrite, NextVolume, Return, CallsHold, VolumesHold
<1>7. CASE Fail
  BY <1>0, <1>7 DEF Fail, Return, CallsHold
<1>8. ASSUME NEW p \in Paths, Change(p) PROVE CallsHold'
  BY <1>0, <1>8 DEF Change, CallsHold
<1>9. CASE UNCHANGED vars
  BY <1>0, <1>9 DEF vars, CallsHold
<1> QED BY <1>1, <1>2, <1>3, <1>4, <1>5, <1>6, <1>7, <1>8, <1>9 DEF Next

\* Every file is of a set on record: what a write puts down is of the running call's.
LEMMA FilesStep == CreateInv /\ [Next]_vars => FilesHold'
<1> SUFFICES ASSUME CreateInv, [Next]_vars PROVE FilesHold'
  OBVIOUS
<1> USE DEF dataVars, encoder, loop, history
<1>0. TypeOK /\ FilesHold /\ CallsHold /\ VolumesHold
  BY DEF CreateInv
<1>1. ASSUME UNCHANGED par, sets \subseteq sets' PROVE FilesHold'
  BY <1>0, <1>1 DEF FilesHold
<1>2. ASSUME UNCHANGED sets, pc \in {"index", "volumes"},
             NEW r \in Remains \cup {Packets, Blank}, Put(r)
      PROVE  FilesHold'
  <2>1. r \in Remains \cup {Packets}
    BY DEF Remains
  <2>2. /\ r \in PacketFiles \cup {Blank, Broken}
        /\ r \notin {Blank, Broken} =>
             r.id = Packets.id /\ r.sums = Packets.sums /\ r.blocks \subseteq Packets.blocks
    BY <1>2, <2>1, RemainsAreTyped
  <2>3. Target \in {Index} \cup (Nat \X Nat) /\ (pc = "volumes" => Target # Index)
    BY <1>0, <1>2, TargetIsTyped
  <2>4. /\ DOMAIN par' = DOMAIN par \cup {Target} /\ par'[Target] = r
        /\ \A n \in DOMAIN par : n # Target => par'[n] = par[n]
    BY <1>0, <1>2, <2>2, <2>3, PutIsTyped
  <2>5. /\ [id |-> Packets.id, sums |-> Packets.sums] \in sets
        /\ \A b \in Packets.blocks :
             /\ pc = "volumes" /\ b.exp \in Target[1]..(Target[1] + Target[2] - 1)
             /\ b.of = FlattenSeq(Packets.sums)
    BY <1>2, PacketsAreTyped
  <2>6. ASSUME NEW n \in DOMAIN par', par'[n] \notin {Blank, Broken}
        PROVE  /\ [id |-> par'[n].id, sums |-> par'[n].sums] \in sets'
               /\ \A b \in par'[n].blocks : /\ n # Index /\ b.exp \in n[1]..(n[1] + n[2] - 1)
                                            /\ b.of = FlattenSeq(par'[n].sums)
    <3>1. CASE n = Target
      <4>1. r.id = Packets.id /\ r.sums = Packets.sums /\ r.blocks \subseteq Packets.blocks /\ par'[n] = r
        BY <2>2, <2>4, <2>6, <3>1
      <4> HIDE DEF Packets, Target
      <4> QED BY <1>2, <2>3, <2>5, <3>1, <4>1
    <3>2. CASE n # Target
      BY <1>0, <1>2, <2>4, <2>6, <3>2 DEF FilesHold
    <3> QED BY <3>1, <3>2
  <2> QED BY <2>6 DEF FilesHold
<1>3. ASSUME NEW n \in Asked, Call(n) PROVE FilesHold'
  BY <1>1, <1>3 DEF Call
<1>4. CASE LoadFile
  BY <1>1, <1>4 DEF LoadFile
<1>5. CASE EndLoad
  BY <1>1, <1>5 DEF EndLoad
<1>6. CASE ComputeParityData
  BY <1>1, <1>6 DEF ComputeParityData
<1>7. CASE StartWrite
  BY <1>1, <1>2, <1>7 DEF StartWrite
<1>8. CASE EndWrite
  BY <1>0, <1>2, <1>8 DEF EndWrite, VolumesHold
<1>9. CASE Fail
  BY <1>0, <1>1, <1>2, <1>9 DEF Fail, VolumesHold
<1>10. ASSUME NEW p \in Paths, Change(p) PROVE FilesHold'
  BY <1>1, <1>10 DEF Change
<1>11. CASE UNCHANGED vars
  BY <1>1, <1>11 DEF vars
<1> QED BY <1>3, <1>4, <1>5, <1>6, <1>7, <1>8, <1>9, <1>10, <1>11 DEF Next
-----------------------------------------------------------------------------
\* A volume's name is the pair of its first block and their number.
LEMMA VolumesAreTyped ==
  ASSUME TypeOK
  PROVE  \A v \in Volumes : v = <<v[1], v[2]>> /\ v[1] \in Nat /\ v[2] \in Nat
  BY DEF TypeOK, Volumes

\* The volume that is due is the only one that starts there and is as long.
LEMMA TargetIsWritten ==
  ASSUME CreateInv, pc = "volumes", NEW r \in Remains \cup {Packets, Blank}, Put(r)
  PROVE  /\ Volumes' = Volumes \cup {Target} /\ Index \in DOMAIN par' /\ par'[Index] = par[Index]
         /\ par'[Target] = r /\ Target[1] = i /\ Target[2] = Count
         /\ \A v \in Volumes : v # Target => par'[v] = par[v]
<1>1. TypeOK /\ VolumesHold /\ CallsHold
  BY DEF CreateInv
<1>2. Target = <<i, Count>> /\ Target \in Nat \X Nat /\ Target # Index
  BY <1>1, TargetIsTyped
<1>3. r \in Remains \cup {Packets}
  BY DEF Remains
<1>4. r \in PacketFiles \cup {Blank, Broken}
  BY <1>3, RemainsAreTyped
<1>5. /\ DOMAIN par' = DOMAIN par \cup {Target} /\ par'[Target] = r
      /\ \A n \in DOMAIN par : n # Target => par'[n] = par[n]
  BY <1>1, <1>2, <1>4, PutIsTyped
<1>6. Index \in DOMAIN par
  BY <1>1 DEF VolumesHold, Writes
<1> QED BY <1>2, <1>5, <1>6 DEF Volumes

\* What the running call has written stays: it only adds the file that is due.
LEMMA VolumesStep == CreateInv /\ [Next]_vars => VolumesHold'
<1> SUFFICES ASSUME CreateInv, [Next]_vars PROVE VolumesHold'
  OBVIOUS
<1> USE DEF dataVars, encoder, loop, history
<1>0. TypeOK /\ CallsHold /\ VolumesHold
  BY DEF CreateInv
<1>1. ASSUME ~Writes', ~writing' PROVE VolumesHold'
  BY <1>1 DEF VolumesHold, Writes
<1>2. ASSUME NEW n \in Asked, Call(n) PROVE VolumesHold'
  BY <1>0, <1>1, <1>2 DEF Call, VolumesHold, Writes
<1>3. CASE LoadFile
  BY <1>0, <1>1, <1>3 DEF LoadFile, Return, CallsHold, VolumesHold, Writes
<1>4. CASE EndLoad
  BY <1>0, <1>1, <1>4 DEF EndLoad, CallsHold, VolumesHold, Writes
<1>5. CASE ComputeParityData
  BY <1>0, <1>1, <1>5 DEF ComputeParityData, Return, CallsHold, VolumesHold, Writes
<1>6. CASE StartWrite
  <2>1. CASE ~Writable
    BY <1>1, <1>6, <2>1 DEF StartWrite, Return, Writes
  <2>2. CASE Writable /\ pc = "index"
    <3>1. ~Writes' /\ pc' = "index" /\ Target' = Index /\ Put(Blank) /\ outcome' # "ok"
      BY <1>0, <1>6, <2>2 DEF StartWrite, Writes, CallsHold, Target
    <3>2. Target' \in DOMAIN par'
      BY <2>2, <3>1 DEF Put, Target
    <3> QED BY <3>1, <3>2 DEF VolumesHold, Writes
  <2>3. CASE Writable /\ pc = "volumes"
    <3>1. Put(Blank) /\ UNCHANGED <<pc, outcome, encoder, loop>>
      BY <1>6, <2>3 DEF StartWrite
    <3>2. /\ Volumes' = Volumes \cup {Target} /\ Index \in DOMAIN par' /\ par'[Index] = par[Index]
          /\ Target[1] = i /\ \A v \in Volumes : v # Target => par'[v] = par[v]
      BY <2>3, <3>1, TargetIsWritten
    <3>3. Target' = Target /\ WholeIndex' = WholeIndex /\ \A v \in Volumes : WholeVolume(v)' = WholeVolume(v)
      BY <3>1 DEF Target, Count, WholeIndex, WholeVolume, InOrder
    <3>4. Target' \in DOMAIN par'
      BY <3>2, <3>3 DEF Volumes
    <3>5. ASSUME NEW e \in 0..(i - 1)
          PROVE  \E v \in Volumes' :
                   e \in v[1]..(v[1] + v[2] - 1) /\ v[1] + v[2] <= i /\ par'[v] = WholeVolume(v)'
      <4>1. PICK v \in Volumes : e \in v[1]..(v[1] + v[2] - 1) /\ v[1] + v[2] <= i /\ par[v] = WholeVolume(v)
        BY <1>0, <2>3, <3>5 DEF VolumesHold, Writes
      <4>2. v[1] \in Nat /\ v[2] \in Nat /\ i \in Nat
        BY <1>0, VolumesAreTyped DEF TypeOK
      <4>3. v[1] < i
        BY <4>1, <4>2
      <4> HIDE DEF Target, Volumes, WholeVolume
      <4>4. v # Target
        BY <3>2, <4>2, <4>3
      <4> QED BY <3>2, <3>3, <4>1, <4>4
    <3> QED BY <1>0, <2>3, <3>1, <3>2, <3>3, <3>4, <3>5 DEF VolumesHold, Writes
  <2> QED BY <1>6, <2>1, <2>2, <2>3 DEF StartWrite
<1>7. CASE EndWrite
  <2>1. Put(Packets) /\ pc \in {"index", "volumes"} /\ UNCHANGED <<encoder, counts>> /\ ~writing'
    BY <1>0, <1>7 DEF EndWrite, VolumesHold
  <2>2. /\ parityShardCount \in Nat \ {0}
        /\ WholeIndex' = WholeIndex /\ \A v : WholeVolume(v)' = WholeVolume(v)
    BY <1>0, <2>1 DEF CallsHold, TypeOK, WholeIndex, WholeVolume, InOrder
  <2>3. CASE pc = "index"
    <3>1. par'[Index] = WholeIndex /\ Index \in DOMAIN par'
      BY <2>1, <2>3, PacketsAreTyped DEF Put, Target
    <3>2. pc' = "volumes" /\ i' = 0 /\ volumeCount' = 1 /\ outcome' # "ok"
      BY <1>0, <1>7, <2>3 DEF EndWrite, CallsHold
    <3> QED BY <2>1, <2>2, <3>1, <3>2 DEF VolumesHold, Writes
  <2>4. CASE pc = "volumes"
    <3>1. /\ Volumes' = Volumes \cup {Target} /\ Index \in DOMAIN par' /\ par'[Index] = par[Index]
          /\ par'[Target] = Packets /\ Target[1] = i /\ Target[2] = Count
          /\ \A v \in Volumes : v # Target => par'[v] = par[v]
      BY <2>1, <2>4, TargetIsWritten
    <3>2. Packets = WholeVolume(Target)
      BY <2>4, PacketsAreTyped
    <3>3. Count = Size(i) /\ Count \in Nat \ {0} /\ i + Count <= parityShardCount /\ i \in Nat
      BY <1>0, <2>4, TargetIsTyped DEF TypeOK
    <3>4. i' = i + Count /\ volumeCount' = 2 * Count
      BY <1>7, <2>4 DEF EndWrite, NextVolume
    <3>5. i' >= parityShardCount => pc' = "idle" /\ outcome' = "ok"
      BY <1>7, <2>4 DEF EndWrite, NextVolume, Return
    <3>6. i' < parityShardCount => pc' = "volumes" /\ outcome' # "ok"
      <4>1. i' < parityShardCount => ~(i' >= parityShardCount)
        BY <2>2, <3>3, <3>4
      <4> QED BY <1>0, <1>7, <2>4, <4>1 DEF EndWrite, NextVolume, CallsHold
    <3>7. ASSUME NEW e \in 0..(i' - 1)
          PROVE  \E v \in Volumes' :
                   e \in v[1]..(v[1] + v[2] - 1) /\ v[1] + v[2] <= i' /\ par'[v] = WholeVolume(v)
      <4> HIDE DEF Target, Volumes, WholeVolume, Count, Packets
      <4>1. CASE e < i
        <5>1. PICK v \in Volumes : e \in v[1]..(v[1] + v[2] - 1) /\ v[1] + v[2] <= i /\ par[v] = WholeVolume(v)
          BY <1>0, <2>4, <3>3, <4>1 DEF VolumesHold, Writes
        <5>2. v[1] \in Nat /\ v[2] \in Nat
          BY <1>0, VolumesAreTyped
        <5>a. v[1] <= e /\ e \in Int /\ v[1] + v[2] <= i
          BY ONLY <5>1, <5>2, e \in 0..(i' - 1)
        <5>b. i \in Nat /\ Count \in Nat /\ i' = i + Count
          BY <3>3, <3>4
        <5>3. v[1] < i /\ v[1] + v[2] <= i'
          BY ONLY <4>1, <5>2, <5>a, <5>b
        <5>4. v # Target
          BY <3>1, <3>3, <5>2, <5>3
        <5> QED BY <3>1, <5>1, <5>3, <5>4
      <4>2. CASE e >= i
        <5>1. e \in Target[1]..(Target[1] + Target[2] - 1) /\ Target[1] + Target[2] <= i'
          BY <3>1, <3>3, <3>4, <4>2
        <5> QED BY <3>1, <3>2, <5>1
      <4> QED BY <3>3, <3>4, <4>1, <4>2
    <3>8. i' < parityShardCount => volumeCount' = i' + 1
      BY <2>2, <3>3, <3>4 DEF Size
    <3>9. i' <= parityShardCount /\ (i' >= parityShardCount => i' = parityShardCount)
      BY <2>2, <3>3, <3>4
    <3>10. par[Index] = WholeIndex
      BY <1>0, <2>4 DEF VolumesHold, Writes
    <3>11. i' < parityShardCount \/ i' >= parityShardCount
      BY <2>2, <3>3, <3>4
    <3> HIDE DEF Volumes, WholeVolume, WholeIndex, Count, Target
    <3> QED BY <2>1, <2>2, <3>1, <3>5, <3>6, <3>7, <3>8, <3>9, <3>10, <3>11 DEF VolumesHold, Writes
  <2> QED BY <2>1, <2>3, <2>4
<1>8. CASE Fail
  BY <1>1, <1>8 DEF Fail, Return, Writes
<1>9. ASSUME UNCHANGED <<par, pc, writing, encoder, loop, outcome>> PROVE VolumesHold'
  <2>1. WholeIndex' = WholeIndex /\ Volumes' = Volumes /\ Target' = Target /\ \A v : WholeVolume(v)' = WholeVolume(v)
    BY <1>9 DEF WholeIndex, WholeVolume, InOrder, Target, Count, Volumes
  <2> HIDE DEF WholeIndex, WholeVolume, Volumes, Target
  <2> QED BY <1>0, <1>9, <2>1 DEF VolumesHold, Writes
<1>10. ASSUME NEW p \in Paths, Change(p) PROVE VolumesHold'
  BY <1>9, <1>10 DEF Change
<1>11. CASE UNCHANGED vars
  BY <1>9, <1>11 DEF vars
<1> QED BY <1>2, <1>3, <1>4, <1>5, <1>6, <1>7, <1>8, <1>10, <1>11 DEF Next
-----------------------------------------------------------------------------
\* The name that is due is there already, or it is the next of the list.
LEMMA NameIsNext ==
  ASSUME NEW V, \A v \in V : v = <<v[1], v[2]>> /\ v[1] \in Nat /\ v[2] \in Nat,
         parityShardCount \in Nat, NEW m \in Nat, m < parityShardCount,
         NamesFollow(V), NamesPassed(V, m)
  PROVE  NamesFollow(V \cup {<<m, Size(m)>>}) /\ NamesPassed(V \cup {<<m, Size(m)>>}, m)
<1> DEFINE T == <<m, Size(m)>>
           W == V \cup {T}
<1>1. T[1] = m /\ T[2] = Size(m) /\ Size(m) \in Nat \ {0}
  BY DEF Size
<1>2. CASE T \in V
  <2>1. W = V
    BY <1>2
  <2> QED BY <2>1
<1>3. CASE T \notin V
  <2>1. \A v \in V : v[1] # m
    BY <1>1, <1>3 DEF NamesFollow
  <2>2. \A v \in V : v[1] < m
    BY <2>1 DEF NamesPassed
  <2>3. m = 0 \/ \E w \in V : w[1] + w[2] = m
    BY DEF NamesPassed
  <2>4. ASSUME NEW v \in V, NEW w \in V, w[1] + w[2] = m
        PROVE  /\ v[1] + v[2] <= m
               /\ (\A u \in V : u[1] <= v[1]) => v[1] + v[2] = m
    <3>1. /\ v[1] \in Nat /\ v[2] \in Nat /\ w[1] \in Nat /\ w[2] \in Nat
          /\ v[2] = Size(v[1]) /\ w[2] = Size(w[1]) /\ v[1] < m
      BY <2>2 DEF NamesFollow
    <3>2. (v[1] < w[1] => v[1] + v[2] <= w[1]) /\ (w[1] < v[1] => w[1] + w[2] <= v[1])
      BY DEF NamesFollow
    <3>3. v[1] = w[1] => v[2] = w[2]
      BY <3>1
    <3>4. v[1] + v[2] <= m
      BY <2>4, <3>1, <3>2, <3>3
    <3>5. w[1] <= v[1] => v[1] + v[2] = m
      BY <2>4, <3>1, <3>2, <3>3
    <3> QED BY <3>4, <3>5
  <2> HIDE DEF T
  <2>5. \A v \in W : v[1] < parityShardCount /\ v[2] = Size(v[1])
    BY <1>1 DEF NamesFollow
  <2>6. ASSUME NEW v \in W, NEW u \in W, v[1] < u[1] PROVE v[1] + v[2] <= u[1]
    <3>1. CASE v \in V /\ u \in V
      BY <2>6, <3>1 DEF NamesFollow
    <3>2. CASE v \in V /\ u = T
      <4>1. v[1] < m /\ v[1] \in Nat
        BY <2>2, <3>2
      <4>2. PICK w \in V : w[1] + w[2] = m
        BY <2>3, <4>1
      <4> QED BY <1>1, <2>4, <3>2, <4>2
    <3>3. CASE v = T
      <4>1. ~(u \in V)
        BY <1>1, <2>2, <2>6, <3>3
      <4> QED BY <1>1, <2>6, <3>3, <4>1
    <3> QED BY <3>1, <3>2, <3>3
  <2>7. \E v \in W : v[1] = 0
    <3>1. CASE m = 0
      BY <1>1, <3>1
    <3>2. CASE m # 0
      BY <2>3, <3>2 DEF NamesFollow
    <3> QED BY <3>1, <3>2
  <2>8. ASSUME NEW v \in W
        PROVE  (\E u \in W : u[1] = v[1] + v[2]) \/ (\A u \in W : u[1] <= v[1])
    <3>1. CASE v = T
      BY <1>1, <2>2, <3>1
    <3>2. CASE v \in V /\ \E u \in V : u[1] = v[1] + v[2]
      BY <3>2
    <3>3. CASE v \in V /\ \A u \in V : u[1] <= v[1]
      <4>1. v[1] < m /\ v[1] \in Nat
        BY <2>2, <3>3
      <4>2. PICK w \in V : w[1] + w[2] = m
        BY <2>3, <4>1
      <4>3. v[1] + v[2] = m
        BY <2>4, <3>3, <4>2
      <4> QED BY <1>1, <4>3
    <3> QED BY <3>1, <3>2, <3>3 DEF NamesFollow
  <2>9. NamesFollow(W)
    BY <2>5, <2>6, <2>7, <2>8 DEF NamesFollow
  <2>10. NamesPassed(W, m)
    BY <1>1, <2>3 DEF NamesPassed
  <2> QED BY <2>9, <2>10 DEF T
<1> QED BY <1>2, <1>3

\* Behind a name that is there, the list goes on with the next, or has ended.
LEMMA NamePassed ==
  ASSUME NEW V, \A v \in V : v = <<v[1], v[2]>> /\ v[1] \in Nat /\ v[2] \in Nat,
         NamesFollow(V), NEW t \in V, t[2] # 0
  PROVE  /\ NamesPassed(V, t[1] + t[2])
         /\ \A v \in V : v[1] < t[1] + t[2] => v[1] < t[1] \/ v = t
<1>1. t[1] \in Nat /\ t[2] \in Nat
  OBVIOUS
<1>2. (\E v \in V : v[1] >= t[1] + t[2]) => \E v \in V : v[1] = t[1] + t[2]
  <2> SUFFICES ASSUME NEW v \in V, v[1] >= t[1] + t[2] PROVE \E u \in V : u[1] = t[1] + t[2]
    OBVIOUS
  <2>1. v[1] \in Nat /\ ~(v[1] <= t[1])
    BY <1>1
  <2> QED BY <2>1 DEF NamesFollow
<1>3. ASSUME NEW v \in V, v[1] < t[1] + t[2] PROVE v[1] < t[1] \/ v = t
  <2>1. v[1] \in Nat /\ v[2] = Size(v[1]) /\ t[2] = Size(t[1]) /\ v = <<v[1], v[2]>> /\ t = <<t[1], t[2]>>
    BY DEF NamesFollow
  <2>2. ~(t[1] < v[1])
    BY <1>1, <1>3, <2>1 DEF NamesFollow
  <2>3. CASE v[1] = t[1]
    BY <2>1, <2>3
  <2> QED BY <1>1, <2>1, <2>2, <2>3
<1> QED BY <1>2, <1>3 DEF NamesPassed

\* No call leaves a gap in the list, wherever it ends.
LEMMA NamesStep == CreateInv /\ [Next]_vars => NamesHold'
<1> SUFFICES ASSUME CreateInv, [Next]_vars, counts' = {parityShardCount'} PROVE NamesHold'
  BY DEF NamesHold
<1> USE DEF dataVars, encoder, loop, history
<1>0. TypeOK /\ CallsHold /\ VolumesHold /\ NamesHold
  BY DEF CreateInv
<1>1. ASSUME UNCHANGED <<counts, parityShardCount>>
      PROVE  /\ NamesFollow(Volumes)
             /\ Writes => NamesPassed(Volumes, i) /\ \A v \in Volumes : v[1] < i => par[v] = WholeVolume(v)
             /\ \A V : NamesFollow(V)' <=> NamesFollow(V)
  BY <1>0, <1>1 DEF NamesHold, NamesFollow, Size
<1>2. ASSUME UNCHANGED <<counts, parityShardCount>>, Volumes' = Volumes, ~Writes' PROVE NamesHold'
  <2>1. NamesFollow(Volumes)'
    BY <1>1, <1>2 DEF NamesFollow, Size
  <2> QED BY <1>2, <2>1 DEF NamesHold
<1>3. ASSUME NEW n \in Asked, Call(n) PROVE NamesHold'
  <2>1. counts' = counts \cup {parityShardCount'} /\ UNCHANGED par /\ ~Writes'
    BY <1>3 DEF Call, Writes
  <2>2. Volumes' = Volumes
    BY <2>1 DEF Volumes
  <2>3. CASE counts = {}
    <3>1. Volumes' = {}
      BY <1>0, <2>2, <2>3 DEF CallsHold, Volumes
    <3>2. NamesFollow(Volumes)'
      BY <3>1 DEF NamesFollow
    <3> QED BY <2>1, <3>2 DEF NamesHold
  <2>4. CASE counts # {}
    <3>1. UNCHANGED <<counts, parityShardCount>>
      BY <1>0, <2>1, <2>4 DEF CallsHold
    <3> QED BY <1>2, <2>1, <2>2, <3>1
  <2> QED BY <2>3, <2>4
<1>4. CASE LoadFile
  BY <1>0, <1>2, <1>4 DEF LoadFile, Return, CallsHold, Volumes, Writes
<1>5. CASE EndLoad
  BY <1>0, <1>2, <1>5 DEF EndLoad, CallsHold, Volumes, Writes
<1>6. CASE ComputeParityData
  BY <1>0, <1>2, <1>6 DEF ComputeParityData, Return, CallsHold, Volumes, Writes
<1>7. CASE StartWrite
  <2>1. CASE ~Writable
    BY <1>2, <1>7, <2>1 DEF StartWrite, Return, Volumes, Writes
  <2>2. CASE Writable /\ pc = "index"
    <3>1. ~Writes' /\ Volumes' = Volumes
      BY <1>0, <1>7, <2>2 DEF StartWrite, CallsHold, Writes, Volumes, Put, Target
    <3> QED BY <1>2, <1>7, <3>1 DEF StartWrite
  <2>3. CASE Writable /\ pc = "volumes"
    <3>1. Put(Blank) /\ UNCHANGED <<pc, outcome, encoder, loop, counts>>
      BY <1>7, <2>3 DEF StartWrite
    <3>2. /\ Volumes' = Volumes \cup {Target} /\ Target[1] = i
          /\ \A v \in Volumes : v # Target => par'[v] = par[v]
      BY <2>3, <3>1, TargetIsWritten
    <3>3. Target = <<i, Size(i)>> /\ i \in Nat /\ i < parityShardCount /\ parityShardCount \in Nat
      BY <1>0, <2>3, TargetIsTyped DEF TypeOK, VolumesHold
    <3>4. /\ NamesFollow(Volumes) /\ NamesPassed(Volumes, i)
          /\ \A v \in Volumes : v[1] < i => par[v] = WholeVolume(v)
      BY <1>1, <2>3, <3>1 DEF Writes
    <3>5. NamesFollow(Volumes') /\ NamesPassed(Volumes', i)
      <4>1. \A v \in Volumes : v = <<v[1], v[2]>> /\ v[1] \in Nat /\ v[2] \in Nat
        BY <1>0, VolumesAreTyped
      <4> HIDE DEF Volumes, NamesFollow, NamesPassed, Size
      <4>2. NamesFollow(Volumes \cup {<<i, Size(i)>>}) /\ NamesPassed(Volumes \cup {<<i, Size(i)>>}, i)
        BY <3>3, <3>4, <4>1, NameIsNext
      <4> QED BY <3>2, <3>3, <4>2
    <3>6. ASSUME NEW v \in Volumes', v[1] < i' PROVE par'[v] = WholeVolume(v)'
      <4>1. v[1] < i /\ WholeVolume(v)' = WholeVolume(v)
        BY <3>1, <3>6 DEF WholeVolume, InOrder
      <4>2. v # Target
        BY <3>2, <3>3, <4>1
      <4> QED BY <3>2, <3>4, <4>1, <4>2
    <3>7. NamesFollow(Volumes)' /\ NamesPassed(Volumes, i)'
      BY <3>1, <3>5 DEF NamesFollow, NamesPassed, Size
    <3> QED BY <3>6, <3>7 DEF NamesHold
  <2> QED BY <1>7, <2>1, <2>2, <2>3 DEF StartWrite
<1>8. CASE EndWrite
  <2>1. Put(Packets) /\ pc \in {"index", "volumes"} /\ UNCHANGED <<encoder, counts>> /\ Target \in DOMAIN par
    BY <1>0, <1>8 DEF EndWrite, VolumesHold
  <2>2. DOMAIN par' = DOMAIN par
    BY <2>1 DEF Put
  <2>3. Volumes' = Volumes
    BY <2>2 DEF Volumes
  <2>4. NamesFollow(Volumes) /\ NamesFollow(Volumes)'
    BY <1>1, <2>1, <2>3 DEF NamesFollow, Size
  <2>5. \A v \in Volumes : v = <<v[1], v[2]>> /\ v[1] \in Nat /\ v[2] \in Nat
    BY <1>0, VolumesAreTyped
  <2>6. CASE pc = "index"
    <3>1. i' = 0
      BY <1>8, <2>6 DEF EndWrite
    <3>2. NamesPassed(Volumes, i)'
      BY <2>3, <2>4, <3>1 DEF NamesPassed, NamesFollow
    <3>3. \A v \in Volumes : ~(v[1] < i')
      BY <2>5, <3>1
    <3> QED BY <2>3, <2>4, <3>2, <3>3 DEF NamesHold
  <2>7. CASE pc = "volumes"
    <3>1. /\ par'[Target] = Packets /\ Target[1] = i /\ Target[2] = Count
          /\ \A v \in Volumes : v # Target => par'[v] = par[v]
      BY <2>1, <2>7, TargetIsWritten
    <3>2. Packets = WholeVolume(Target) /\ Target \in Volumes /\ Count # 0
      BY <1>0, <2>1, <2>7, PacketsAreTyped, TargetIsTyped DEF Volumes
    <3>3. i' = Target[1] + Target[2]
      BY <1>8, <2>7, <3>1 DEF EndWrite, NextVolume
    <3> HIDE DEF Target, Volumes, Packets
    <3>4. /\ NamesPassed(Volumes, Target[1] + Target[2])
          /\ \A v \in Volumes : v[1] < Target[1] + Target[2] => v[1] < Target[1] \/ v = Target
      BY <2>4, <2>5, <3>1, <3>2, NamePassed
    <3>5. NamesPassed(Volumes, i)'
      BY <2>3, <3>3, <3>4 DEF NamesPassed
    <3>6. ASSUME NEW v \in Volumes', v[1] < i' PROVE par'[v] = WholeVolume(v)'
      <4>1. WholeVolume(v)' = WholeVolume(v)
        BY <2>1 DEF WholeVolume, InOrder
      <4>2. CASE v = Target
        BY <3>1, <3>2, <4>1, <4>2
      <4>3. CASE v # Target
        <5>1. v \in Volumes /\ v[1] < i
          BY <2>3, <3>1, <3>3, <3>4, <3>6, <4>3
        <5>2. par[v] = WholeVolume(v)
          BY <1>1, <2>1, <2>7, <5>1 DEF Writes
        <5> QED BY <3>1, <4>1, <4>3, <5>1, <5>2
      <4> QED BY <4>2, <4>3
    <3> QED BY <2>4, <3>5, <3>6 DEF NamesHold
  <2> QED BY <2>1, <2>6, <2>7
<1>9. CASE Fail
  <2>1. Volumes' = Volumes
    BY <1>0, <1>9 DEF Fail, Volumes, Put, VolumesHold
  <2> QED BY <1>2, <1>9, <2>1 DEF Fail, Return, Writes
<1>10. ASSUME UNCHANGED <<par, pc, encoder, loop, outcome, counts>> PROVE NamesHold'
  <2>1. Volumes' = Volumes /\ Writes' = Writes /\ \A v : WholeVolume(v)' = WholeVolume(v)
    BY <1>10 DEF WholeVolume, InOrder, Volumes, Writes
  <2>2. NamesFollow(Volumes)' /\ (Writes => NamesPassed(Volumes, i)')
    BY <1>1, <1>10, <2>1 DEF NamesFollow, NamesPassed, Size
  <2> QED BY <1>1, <1>10, <2>1, <2>2 DEF NamesHold
<1>11. ASSUME NEW p \in Paths, Change(p) PROVE NamesHold'
  BY <1>10, <1>11 DEF Change
<1>12. CASE UNCHANGED vars
  BY <1>10, <1>12 DEF vars
<1> QED BY <1>3, <1>4, <1>5, <1>6, <1>7, <1>8, <1>9, <1>11, <1>12 DEF Next
-----------------------------------------------------------------------------
\* CreateInv is inductive: it holds in every state of every behaviour.
THEOREM CreateInvariance == Spec => []CreateInv
<1>1. CreateInv /\ [Next]_vars => CreateInv'
  BY TypeStep, SetStep, ShardsStep, CallsStep, FilesStep, VolumesStep, NamesStep DEF CreateInv
<1> QED BY <1>1, InitHolds, PTL DEF Spec

\* A block that a decoder takes for one of the index's set is of its slices.
THEOREM BlocksAreOfTheirSet == Spec => []BlocksMatchIndex
<1>1. CreateInv => BlocksMatchIndex
  <2> SUFFICES ASSUME FilesHold, Opens, ~LookAlike, NEW v \in Own, NEW b \in par[v].blocks PROVE Right(b)
    BY DEF CreateInv, BlocksMatchIndex, Blocks
  <2>1. /\ v \in DOMAIN par /\ par[v] \notin {Blank, Broken} /\ par[v].id = par[Index].id
        /\ Index \in DOMAIN par /\ par[Index] \notin {Blank, Broken}
    BY DEF Own, Readable, Volumes, Opens
  <2>2. /\ [id |-> par[v].id, sums |-> par[v].sums] \in sets
        /\ [id |-> par[Index].id, sums |-> par[Index].sums] \in sets
        /\ b.of = FlattenSeq(par[v].sums)
    BY <2>1 DEF FilesHold
  <2>3. par[v].sums = par[Index].sums
    BY <2>1, <2>2 DEF LookAlike
  <2> QED BY <2>2, <2>3 DEF Right
<1> QED BY <1>1, CreateInvariance, PTL

\* After a call that succeeded: the index and its volumes as the call wrote them.
LEMMA SetIsWritten ==
  ASSUME CreateInv, outcome = "ok"
  PROVE  /\ Opens /\ par[Index] = WholeIndex
         /\ \A e \in 0..(parityShardCount - 1) : \E v \in Volumes :
              e \in v[1]..(v[1] + v[2] - 1) /\ v[1] + v[2] <= parityShardCount /\ par[v] = WholeVolume(v)
<1>1. i = parityShardCount /\ Writes /\ VolumesHold /\ TypeOK /\ SetHolds
  BY DEF CreateInv, VolumesHold, Writes
<1>2. Index \in DOMAIN par /\ par[Index] = WholeIndex
  BY <1>1 DEF VolumesHold
<1>3. recoverySet \in Seq(FileIDs) /\ InOrder(recoverySet) \in Seq(Contents)
  BY <1>1, SetIsTyped DEF TypeOK, SetHolds
<1>4. WholeIndex \in PacketFiles
  BY <1>3 DEF WholeIndex, PacketFiles
<1>5. Opens
  BY <1>2, <1>4 DEF Opens
<1> QED BY <1>1, <1>2, <1>5 DEF VolumesHold

\* A volume of the call: which blocks it has, and that a decoder takes them.
LEMMA VolumeIsOwn ==
  ASSUME CreateInv, outcome = "ok", NEW v \in Volumes, par[v] = WholeVolume(v),
         v[1] + v[2] <= parityShardCount
  PROVE  /\ v \in Own
         /\ \A b \in par[v].blocks : Right(b) /\ b.exp \in v[1]..(v[1] + v[2] - 1)
         /\ \A e \in v[1]..(v[1] + v[2] - 1) : \E b \in par[v].blocks : b.exp = e /\ Right(b)
<1>1. /\ TypeOK /\ SetHolds /\ ShardsHold
      /\ v[1] \in Nat /\ v[2] \in Nat /\ parityShardCount \in Nat
  BY VolumesAreTyped DEF CreateInv, TypeOK
<1>2. par[Index] = WholeIndex
  BY SetIsWritten
<1>3. /\ recoverySet \in Seq(FileIDs) /\ InOrder(recoverySet) \in Seq(Contents)
      /\ DataShards \in Seq(Parts) /\ DataShards = FlattenSeq(InOrder(recoverySet))
  BY <1>1, SetIsTyped DEF TypeOK, SetHolds, DataShards
<1>4. par[v].id = recoverySet /\ par[Index].id = recoverySet /\ par[Index].sums = InOrder(recoverySet)
  BY <1>2 DEF WholeVolume, WholeIndex
<1>5. \A e \in v[1]..(v[1] + v[2] - 1) :
        e \in 0..(parityShardCount - 1) /\ parityShards[e] = [exp |-> e, of |-> DataShards]
  BY <1>1 DEF ShardsHold
<1>6. par[v].blocks = {parityShards[e] : e \in v[1]..(v[1] + v[2] - 1)}
  BY DEF WholeVolume
<1>7. ASSUME NEW b \in par[v].blocks
      PROVE  b \in [exp : Nat, of : Seq(Parts)] /\ Right(b) /\ b.exp \in v[1]..(v[1] + v[2] - 1)
  <2>1. PICK e \in v[1]..(v[1] + v[2] - 1) : b = [exp |-> e, of |-> DataShards]
    BY <1>5, <1>6
  <2>2. b.exp = e /\ b.of = DataShards /\ e \in Nat
    BY <1>1, <2>1
  <2> QED BY <1>3, <1>4, <2>1, <2>2 DEF Right
<1>8. ASSUME NEW e \in v[1]..(v[1] + v[2] - 1)
      PROVE  \E b \in par[v].blocks : b.exp = e /\ Right(b)
  <2>1. parityShards[e] = [exp |-> e, of |-> DataShards]
    BY <1>5
  <2>2. parityShards[e].exp = e
    BY <2>1
  <2>3. parityShards[e] \in par[v].blocks
    BY <1>6
  <2> QED BY <1>7, <2>2, <2>3
<1>9. par[v] \in PacketFiles
  <2>1. par[v] = [id |-> recoverySet, sums |-> InOrder(recoverySet), blocks |-> par[v].blocks]
    BY DEF WholeVolume
  <2> QED BY <1>3, <1>7, <2>1 DEF PacketFiles
<1>10. v \in Own
  BY <1>4, <1>9 DEF Own, Readable
<1> QED BY <1>7, <1>8, <1>10

\* Two volumes of the list have no block in common.
LEMMA NamesAreDisjoint ==
  ASSUME TypeOK, NamesFollow(Volumes), NEW v \in Volumes, NEW u \in Volumes,
         NEW e \in Nat, e \in v[1]..(v[1] + v[2] - 1), e \in u[1]..(u[1] + u[2] - 1)
  PROVE  v = u
<1>1. /\ v = <<v[1], v[2]>> /\ u = <<u[1], u[2]>> /\ v[2] = Size(v[1]) /\ u[2] = Size(u[1])
      /\ v[1] \in Nat /\ v[2] \in Nat /\ u[1] \in Nat /\ u[2] \in Nat
  BY VolumesAreTyped DEF NamesFollow
<1>2. ~(v[1] < u[1]) /\ ~(u[1] < v[1])
  BY <1>1 DEF NamesFollow
<1>3. v[1] = u[1]
  BY <1>1, <1>2
<1>4. v[2] = u[2]
  BY <1>1, <1>3
<1> QED BY <1>1, <1>3, <1>4

\* A call that succeeds leaves an index of the files as it read them and every block
\* it was asked for, each in one volume if nothing was there before.
THEOREM CreateLeavesProtection == Spec => []CreateProtects
<1>1. ASSUME CreateInv, outcome = "ok", NEW e \in 0..(parityShardCount - 1)
      PROVE  LET holders == {v \in Own : \E b \in par[v].blocks : b.exp = e /\ Right(b)}
             IN  holders # {} /\ (calls = 1 => Cardinality(holders) = 1)
  <2> DEFINE holders == {v \in Own : \E b \in par[v].blocks : b.exp = e /\ Right(b)}
  <2>1. PICK v \in Volumes :
          e \in v[1]..(v[1] + v[2] - 1) /\ v[1] + v[2] <= parityShardCount /\ par[v] = WholeVolume(v)
    BY <1>1, SetIsWritten
  <2>2. v \in holders
    BY <1>1, <2>1, VolumeIsOwn
  <2>3. ASSUME calls = 1, NEW u \in holders PROVE u = v
    <3>1. u \in Volumes /\ u \in DOMAIN par /\ par[u] \notin {Blank, Broken}
      BY DEF Own, Readable, Volumes
    <3>2. e \in u[1]..(u[1] + u[2] - 1)
      <4>1. PICK b \in par[u].blocks : b.exp = e
        OBVIOUS
      <4> QED BY <1>1, <3>1, <4>1 DEF CreateInv, FilesHold
    <3>3. NamesFollow(Volumes) /\ TypeOK
      BY <1>1, <2>3 DEF CreateInv, CallsHold, NamesHold
    <3>4. e \in Nat
      OBVIOUS
    <3> QED BY <2>1, <3>1, <3>2, <3>3, <3>4, NamesAreDisjoint
  <2> HIDE DEF holders
  <2>4. calls = 1 => holders = {v}
    BY <2>2, <2>3
  <2>5. Cardinality({v}) = 1
    BY FS_Singleton
  <2> QED BY <2>2, <2>4, <2>5 DEF holders
<1>2. CreateInv => CreateProtects
  <2> SUFFICES ASSUME CreateInv, outcome = "ok"
               PROVE  Opens /\ par[Index].sums = InOrder(par[Index].id)
    BY <1>1 DEF CreateProtects
  <2>1. Opens /\ par[Index] = WholeIndex
    BY SetIsWritten
  <2> QED BY <2>1 DEF WholeIndex
<1> QED BY <1>2, CreateInvariance, PTL

\* Calling again with the same count replaces all that earlier calls left, failed or
\* not: every volume loads, is of the index's set and has no block but the right
\* ones, each once.
THEOREM CallingAgainReplaces == Spec => []RerunReplaces
<1>1. ASSUME CreateInv, outcome = "ok", Cardinality(counts) = 1
      PROVE  NamesFollow(Volumes) /\ \A v \in Volumes : par[v] = WholeVolume(v) /\ v[1] + v[2] <= parityShardCount
  <2>1. parityShardCount \in Nat /\ i = parityShardCount /\ Writes /\ TypeOK
    BY <1>1 DEF CreateInv, TypeOK, VolumesHold, Writes
  <2>2. counts = {parityShardCount}
    <3>1. IsFiniteSet(counts) /\ parityShardCount \in counts
      BY <1>1 DEF CreateInv, CallsHold, TypeOK
    <3>2. \E x : counts = {x}
      BY <1>1, <3>1, FS_Singleton
    <3> QED BY <3>1, <3>2
  <2>3. NamesFollow(Volumes) /\ \A v \in Volumes : v[1] < i => par[v] = WholeVolume(v)
    BY <1>1, <2>1, <2>2 DEF CreateInv, NamesHold
  <2>4. ASSUME NEW v \in Volumes
        PROVE  v[1] < parityShardCount /\ v[1] + v[2] <= parityShardCount
    <3>1. v[1] \in Nat /\ v[2] = Size(v[1]) /\ v[1] < parityShardCount
      BY <2>1, <2>3, VolumesAreTyped DEF NamesFollow
    <3> QED BY <2>1, <3>1 DEF Size
  <2> QED BY <2>1, <2>3, <2>4
<1>2. ASSUME CreateInv, outcome = "ok", Cardinality(counts) = 1
      PROVE  \A v \in Volumes :
               /\ v \in Own /\ \A b \in par[v].blocks : Right(b) /\ b.exp \in v[1]..(v[1] + v[2] - 1)
               /\ par[v] # Broken
  BY <1>1, <1>2, VolumeIsOwn DEF Own, Readable
<1>3. ASSUME CreateInv, outcome = "ok", Cardinality(counts) = 1, NEW b \in Blocks
      PROVE  Right(b) /\ b.exp < parityShardCount
  <2>1. PICK v \in Own : b \in par[v].blocks
    BY DEF Blocks
  <2>2. v \in Volumes
    BY DEF Own, Readable
  <2>3. /\ v[1] \in Nat /\ v[2] \in Nat /\ parityShardCount \in Nat
        /\ v[1] + v[2] <= parityShardCount /\ Right(b) /\ b.exp \in v[1]..(v[1] + v[2] - 1)
    BY <1>1, <1>2, <1>3, <2>1, <2>2, VolumesAreTyped DEF CreateInv, TypeOK
  <2> QED BY <2>3
<1>4. ASSUME CreateInv, outcome = "ok", Cardinality(counts) = 1, NEW e \in 0..(parityShardCount - 1)
      PROVE  Cardinality({v \in Volumes : \E b \in par[v].blocks : b.exp = e}) = 1
  <2> DEFINE holders == {v \in Volumes : \E b \in par[v].blocks : b.exp = e}
  <2>1. PICK v \in Volumes :
          e \in v[1]..(v[1] + v[2] - 1) /\ v[1] + v[2] <= parityShardCount /\ par[v] = WholeVolume(v)
    BY <1>4, SetIsWritten
  <2>2. v \in holders
    BY <1>4, <2>1, VolumeIsOwn
  <2>3. ASSUME NEW u \in holders PROVE u = v
    <3>1. u \in Volumes /\ e \in u[1]..(u[1] + u[2] - 1) /\ e \in Nat
      BY <1>2, <1>4
    <3>2. NamesFollow(Volumes) /\ TypeOK
      BY <1>1, <1>4 DEF CreateInv
    <3> QED BY <2>1, <3>1, <3>2, NamesAreDisjoint
  <2> HIDE DEF holders
  <2>4. holders = {v}
    BY <2>2, <2>3
  <2> QED BY <2>4, FS_Singleton DEF holders
<1>5. CreateInv => RerunReplaces
  <2> SUFFICES ASSUME CreateInv, outcome = "ok", Cardinality(counts) = 1
               PROVE  Loads /\ Own = Volumes
    BY <1>3, <1>4 DEF RerunReplaces
  <2> QED BY <1>2 DEF Loads, Own, Readable
<1> QED BY <1>5, CreateInvariance, PTL

\* Without faults, a call fails only over its data files.
THEOREM CreateFailsOverData == Spec => []FailsOnlyOverData
<1>1. CreateInv => FailsOnlyOverData
  BY DEF CreateInv, CallsHold, FailsOnlyOverData
<1> QED BY <1>1, CreateInvariance, PTL
=============================================================================
