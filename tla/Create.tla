-------------------------------- MODULE Create --------------------------------
(***************************************************************************)
(* par2.Create and the Encoder under it (par2/create.go, par2/encoder.go):  *)
(* the data files are read once, the index file is written, then the        *)
(* recovery blocks in volumes that double in size.  Files are written in    *)
(* place, under names that an earlier call may have used, and a call may    *)
(* fail or crash anywhere.  NewDecoder and LoadParityData (here operators)  *)
(* are what a set is written for.                                           *)
(*                                                                          *)
(* A data file is a sequence of parts, the first of which stands for its    *)
(* first 16 KiB: a file ID covers the path, that part and the length, and   *)
(* nothing else.  A recovery block is known by its exponent and by the data *)
(* slices it is computed from.  Counts that the coder refuses (above 65535) *)
(* and paths given twice are left out.                                      *)
(***************************************************************************)
EXTENDS Naturals, Sequences, FiniteSets, SequencesExt, Sorting

CONSTANTS
  NumFiles, Contents, Missing,
  Before(_, _),              \* fileIDLess: the order of hashes
  Asked,                     \* NumParityShards a caller may ask for
  Index, Blank, Broken,      \* the index's name; an empty file; one cut within a packet
  MaxCalls, MaxFaults, MaxChanges

NumParityShardsDefault == 3
Paths == 1..NumFiles

FileID(p, c) == <<p, {c[k] : k \in {1} \cap DOMAIN c}, Len(c)>>
FileIDs == {FileID(p, c) : p \in Paths, c \in Contents}

\* Contents are sequences of Parts, and a PAR2 file holds packets unless it is Blank
\* or Broken.  Different IDs have different hashes, compared byte by byte.
Parts == UNION {ToSet(c) : c \in Contents}
PacketFiles == [id : Seq(FileIDs), sums : Seq(Contents),
                blocks : SUBSET [exp : Nat, of : Seq(Parts)]]
ASSUME CreateAssumption ==
  /\ NumFiles \in Nat \ {0} /\ Asked \subseteq Nat
  /\ Contents \subseteq Seq(Parts) /\ Missing \notin Contents
  /\ Index \notin Nat \X Nat
  /\ Blank # Broken /\ Blank \notin PacketFiles /\ Broken \notin PacketFiles
ASSUME OrderAssumption ==
  /\ \A a, b \in FileIDs : a # b => (Before(a, b) <=> ~Before(b, a))
  /\ \A a \in FileIDs : ~Before(a, a)
  /\ \A a, b, c \in FileIDs : Before(a, b) /\ Before(b, c) => Before(a, c)

VARIABLES
  data,                      \* the data files
  par,                       \* the PAR2 files, by name
  pc, writing,               \* where the call is; a file is truncated and not yet written
  parityShardCount,
  read,                      \* the data files that were read
  recoverySet, parityShards,
  i, volumeCount,            \* the loop over the volumes
  outcome,
  calls, faults, changes,    \* bounded
  counts, sets               \* history: counts asked for, sets computed

dataVars == <<data, changes>>
encoder == <<parityShardCount, read, recoverySet, parityShards>>
loop == <<i, volumeCount>>
history == <<calls, counts, sets>>
vars == <<dataVars, par, pc, writing, encoder, loop, outcome, faults, history>>

\* The checksums and the data slices, in the order of the recovery set.
InOrder(ids) == [k \in DOMAIN ids |-> read[ids[k][1]]]
DataShards == FlattenSeq(InOrder(recoverySet))

-----------------------------------------------------------------------------
Init ==
  /\ data \in [Paths -> Contents] /\ par = [n \in {} |-> Blank]
  /\ pc = "idle" /\ writing = FALSE /\ outcome = "none"
  /\ parityShardCount = 0 /\ read = <<>> /\ recoverySet = <<>> /\ parityShards = <<>>
  /\ i = 0 /\ volumeCount = 1
  /\ calls = 0 /\ faults = 0 /\ changes = 0 /\ counts = {} /\ sets = {}

\* A call begins; a count of zero asks for the default.
Call(n) ==
  /\ pc = "idle" /\ calls < MaxCalls
  /\ pc' = "load" /\ outcome' = "running"
  /\ parityShardCount' = IF n <= 0 THEN NumParityShardsDefault ELSE n
  /\ read' = <<>> /\ recoverySet' = <<>> /\ parityShards' = <<>>
  /\ calls' = calls + 1 /\ counts' = counts \cup {parityShardCount'}
  /\ UNCHANGED <<dataVars, par, writing, loop, faults, sets>>

Return(result) == pc' = "idle" /\ outcome' = result

\* LoadFileData reads the next file whole, or the call fails.
LoadFile ==
  /\ pc = "load" /\ Len(read) < NumFiles
  /\ LET c == data[Len(read) + 1] IN
       IF c = Missing THEN Return("unreadable") /\ UNCHANGED read
                      ELSE read' = Append(read, c) /\ UNCHANGED <<pc, outcome>>
  /\ UNCHANGED <<dataVars, par, writing, parityShardCount, recoverySet, parityShards, loop,
                 faults, history>>

\* The set is in the order in which the files were given.
EndLoadUnsorted ==
  /\ pc = "load" /\ Len(read) = NumFiles /\ pc' = "compute"
  /\ recoverySet' = [p \in Paths |-> FileID(p, read[p])]
  /\ UNCHANGED <<dataVars, par, writing, parityShardCount, read, parityShards, loop, outcome,
                 faults, history>>
\* All files are read: LoadFileData sorts the recovery set.
EndLoad ==
  /\ pc = "load" /\ Len(read) = NumFiles /\ pc' = "compute"
  /\ recoverySet' = Sorted([p \in Paths |-> FileID(p, read[p])], Before)
  /\ UNCHANGED <<dataVars, par, writing, parityShardCount, read, parityShards, loop, outcome,
                 faults, history>>

\* The slices are taken from the files as they are by now.
ShardsReread == FlattenSeq([k \in DOMAIN recoverySet |->
                  IF data[recoverySet[k][1]] = Missing THEN <<>> ELSE data[recoverySet[k][1]]])
Shards == DataShards

\* ComputeParityData, which panics when there is no slice at all.
ComputeParityData ==
  /\ pc = "compute"
  /\ IF Shards = <<>>
     THEN Return("panic") /\ UNCHANGED <<parityShards, sets>>
     ELSE /\ pc' = "index" /\ UNCHANGED outcome
          /\ parityShards' = [e \in 0..(parityShardCount - 1) |-> [exp |-> e, of |-> Shards]]
          /\ sets' = sets \cup {[id |-> recoverySet, sums |-> InOrder(recoverySet)]}
  /\ UNCHANGED <<dataVars, par, writing, parityShardCount, read, recoverySet, loop, faults, calls, counts>>

-----------------------------------------------------------------------------
\* Blocks in the volume that starts at block i.
Count == IF i + volumeCount > parityShardCount THEN parityShardCount - i ELSE volumeCount

Target == IF pc = "index" THEN Index ELSE <<i, Count>>
\* A volume ends with the first block of the next.
PacketsOverlapping ==
  [id |-> recoverySet, sums |-> InOrder(recoverySet),
   blocks |-> IF pc = "index" THEN {}
              ELSE {parityShards[e] : e \in {x \in i..(i + Count) : x < parityShardCount}}]
\* writeFile: the set's packets, and the blocks of a volume.
Packets ==
  [id |-> recoverySet, sums |-> InOrder(recoverySet),
   blocks |-> IF pc = "index" THEN {} ELSE {parityShards[e] : e \in i..(i + Count - 1)}]

\* writeFile refuses a file without a slice, and a recovery set that is not sorted.
Writable ==
  /\ \A p \in Paths : read[p] # <<>>
  /\ \A k \in 1..(NumFiles - 1) : ~Before(recoverySet[k + 1], recoverySet[k])

Put(content) == par' = [n \in DOMAIN par \cup {Target} |-> IF n = Target THEN content ELSE par[n]]

\* The packets are put together, and the file is opened and truncated.
StartWrite ==
  /\ pc \in {"index", "volumes"} /\ ~writing
  /\ IF Writable THEN Put(Blank) /\ writing' = TRUE /\ UNCHANGED <<pc, outcome>>
                 ELSE Return("refused") /\ UNCHANGED <<par, writing>>
  /\ UNCHANGED <<dataVars, encoder, loop, faults, history>>

\* The count is doubled before it is added.
NextVolumeSkipping ==
  /\ i' = i + 2 * Count /\ volumeCount' = 2 * Count
  /\ IF i' >= parityShardCount THEN Return("ok") ELSE UNCHANGED <<pc, outcome>>
\* The volume is written: the next starts behind it and may hold twice as many.
NextVolume ==
  /\ i' = i + Count /\ volumeCount' = 2 * Count
  /\ IF i' >= parityShardCount THEN Return("ok") ELSE UNCHANGED <<pc, outcome>>

\* The file is whole: the next one is due, or the call is over.
EndWrite ==
  /\ writing /\ writing' = FALSE /\ Put(Packets)
  /\ IF pc = "index" THEN pc' = "volumes" /\ i' = 0 /\ volumeCount' = 1 /\ UNCHANGED outcome
                     ELSE NextVolume
  /\ UNCHANGED <<dataVars, encoder, faults, history>>

\* What an unfinished write leaves: nothing, packets up to some block, or a cut one.
Remains ==
  {Blank, Broken} \cup {[Packets EXCEPT !.blocks = {b \in @ : b.exp < c.exp}] : c \in Packets.blocks}

\* A write fails, or the program ends anywhere; nothing is taken back.
Fail ==
  /\ pc # "idle" /\ faults < MaxFaults /\ faults' = faults + 1
  /\ \E result \in {"write error", "crashed"} :
       /\ result = "write error" => pc \in {"index", "volumes"}
       /\ Return(result)
  /\ IF writing THEN \E r \in Remains : Put(r) ELSE UNCHANGED par
  /\ writing' = FALSE
  /\ UNCHANGED <<dataVars, encoder, loop, history>>

\* Somebody changes or removes a data file.
Change(p) ==
  /\ changes < MaxChanges /\ changes' = changes + 1
  /\ \E c \in (Contents \cup {Missing}) \ {data[p]} : data' = [data EXCEPT ![p] = c]
  /\ UNCHANGED <<par, pc, writing, encoder, loop, outcome, faults, history>>

Next ==
  \/ \E n \in Asked : Call(n)
  \/ LoadFile \/ EndLoad \/ ComputeParityData \/ StartWrite \/ EndWrite \/ Fail
  \/ \E p \in Paths : Change(p)

Spec == Init /\ [][Next]_vars

-----------------------------------------------------------------------------
\* NewDecoder: the index must be whole.
Opens == Index \in DOMAIN par /\ par[Index] \notin {Blank, Broken}
Volumes == DOMAIN par \ {Index}
Readable == {v \in Volumes : par[v] \notin {Blank, Broken}}
\* LoadParityData refuses a volume that is cut, and skips packets of another set.
Loads == \A v \in Volumes : par[v] # Broken
Own == {v \in Readable : par[v].id = par[Index].id}
Blocks == UNION {par[v].blocks : v \in Own}
Right(b) == b.of = FlattenSeq(par[Index].sums)

\* Two sets that a decoder cannot tell apart, though the files were not the same.
LookAlike == \E s, t \in sets : s.id = t.id /\ s.sums # t.sums

\* Whatever failed, and whatever volumes of earlier calls lie around, a block that a
\* decoder takes for one of the index's set is computed from the slices the index
\* describes ("duplicates are byte-identical", decoder.go:998), as long as no two
\* sets were computed from files that differ only beyond their first 16 KiB.
BlocksMatchIndex == Opens /\ ~LookAlike => \A b \in Blocks : Right(b)

\* A call that succeeds leaves an index of the files as it read them and every block
\* it was asked for, each in one volume if nothing was there before.
CreateProtects ==
  outcome = "ok" =>
    /\ Opens /\ par[Index].sums = InOrder(par[Index].id)
    /\ \A e \in 0..(parityShardCount - 1) :
         LET holders == {v \in Own : \E b \in par[v].blocks : b.exp = e /\ Right(b)}
         IN  holders # {} /\ (calls = 1 => Cardinality(holders) = 1)

\* Calling again with the same count replaces all that earlier calls left, failed or
\* not: afterwards every volume loads, is of the index's set, and has no block but
\* the right ones, each once.
RerunReplaces ==
  outcome = "ok" /\ Cardinality(counts) = 1 =>
    /\ Loads /\ Own = Volumes
    /\ \A b \in Blocks : Right(b) /\ b.exp < parityShardCount
    /\ \A e \in 0..(parityShardCount - 1) :
         Cardinality({v \in Volumes : \E b \in par[v].blocks : b.exp = e}) = 1

\* Without faults, a call fails only over its data files: one that cannot be read, or
\* that is empty.
FailsOnlyOverData ==
  faults = 0 /\ outcome \in {"refused", "panic"} => \E p \in Paths : read[p] = <<>>
===============================================================================
