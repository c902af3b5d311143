------------------------------ MODULE RepairProofs ------------------------------
(***************************************************************************)
(* Repair, proved for every set of files, slices and recovery blocks.       *)
(*                                                                          *)
(* First its inductive invariant and type correctness, for one Repair per   *)
(* Decoder and under every kind of fault; without silent corruption, that a *)
(* path only ever changes to the whole repaired file.  Then what Repair     *)
(* keeps open and what it leaves behind, also (where it is true) for a      *)
(* Decoder that is used again: files are renamed with no reader open and no *)
(* goroutine staging, and no temporary sibling outlives the call.  Last,    *)
(* from both, what Repair reports, silent corruption included: a success    *)
(* means that every file is whole, and so is every path in the returned     *)
(* list, though not every slice is read back.                               *)
(***************************************************************************)
EXTENDS Repair, FiniteSetTheorems, TLAPS

USE SizeAssumption, ContentAssumption DEF scanVars, callVars, writerVars, boundVars

\* A new decoder satisfies the invariant: nothing is scanned, staged or written.
LEMMA InitInv == Init => RepairInv
<1> SUFFICES ASSUME Init PROVE RepairInv
  OBVIOUS
<1>1. TypeOK
  <2>1. disk \in [Files -> Image \cup {NoFile}] /\ before \in [Files -> Image \cup {NoFile}]
    BY DEF Init
  <2>2. checkParity \in BOOLEAN /\ bank \in BOOLEAN /\ crashed \in BOOLEAN
    BY DEF Init
  <2>3. found \in [Shards -> Loc \cup {Nowhere}] /\ parity \in 0..MaxParity
    BY DEF Init
  <2>4. QED
    BY <2>1, <2>2, <2>3 DEF Init, TypeOK, NoCache, NoTodo
<1>2. ScanHolds
  BY DEF Init, ScanHolds
<1>3. WritersHold /\ StagedHolds /\ RangesHold
  BY DEF Init, WritersHold, StagedHolds, RangesHold
<1>4. QED
  BY <1>1, <1>2, <1>3 DEF RepairInv

\* The count of faults stays within its bound.
LEMMA FaultType == ASSUME NEW k, faults \in 0..MaxFaults, Fault(k) PROVE faults' \in 0..MaxFaults
  BY DEF Fault

\* The scan records locations that hold, and resets the repair (fillFileIntegrityInfos).
LEMMA LoadInv == RepairInv /\ LoadFileData => RepairInv'
<1> SUFFICES ASSUME RepairInv, LoadFileData PROVE RepairInv'
  OBVIOUS
<1> USE DEF LoadFileData
<1>1. TypeOK'
  BY DEF RepairInv, TypeOK, Holding, Shards
<1>2. ScanHolds'
  BY DEF RepairInv, TypeOK, ScanHolds, Holding, Shards, NoCache
<1>3. WritersHold' /\ StagedHolds' /\ RangesHold'
  BY DEF RepairInv, WritersHold, StagedHolds, RangesHold
<1>4. QED
  BY <1>1, <1>2, <1>3 DEF RepairInv

\* The start of Repair: with one Repair per decoder the locations are still those on disk.
LEMMA BeginInv == ~Reuse /\ RepairInv /\ BeginRepair => RepairInv'
<1> SUFFICES ASSUME ~Reuse, RepairInv, BeginRepair PROVE RepairInv'
  OBVIOUS
<1> USE DEF BeginRepair
<1>1. TypeOK'
  BY DEF RepairInv, TypeOK, NoTodo
<1>2. ScanHolds'
  BY DEF RepairInv, TypeOK, ScanHolds, OK, Holding
<1>3. WritersHold' /\ StagedHolds' /\ RangesHold'
  BY DEF RepairInv, WritersHold, StagedHolds, RangesHold
<1>4. QED
  BY <1>1, <1>2, <1>3 DEF RepairInv

\* A read through a reader of the unchanged disk yields the bytes the scan matched.
LEMMA ReadsProtected ==
  ASSUME TypeOK, ScanHolds, phase \in {"preserve", "copy", "fold", "write"},
         NEW s \in Shards, found[s] # Nowhere, NEW need, found[s][1] \in need
  PROVE  ReadAt(Opened(need), found[s]) = Orig[s]
<1>1. found[s] \in Loc /\ found[s][1] \in Files /\ disk[found[s][1]] # NoFile
      /\ disk[found[s][1]][found[s][2]] = Orig[s]
  BY DEF TypeOK, ScanHolds, Holding, Loc
<1>2. Opened(need)[found[s][1]] = disk[found[s][1]]
  BY <1>1 DEF Opened, ScanHolds
<1>3. Orig[s] # Nil
  OBVIOUS
<1>4. QED
  BY <1>1, <1>2, <1>3 DEF ReadAt

\* Opening a reader keeps the cache a cache.
LEMMA OpenedType ==
  ASSUME TypeOK, NEW need
  PROVE  Opened(need) \in [Files -> Image \cup {NoFile}]
  BY DEF TypeOK, Opened

\* A cached reader sees the file as it was scanned, since no rename precedes the last read.
LEMMA OpenedHolds ==
  ASSUME NEW need, \A f \in Files : cache[f] \in {NoFile, disk[f]}
  PROVE  \A f \in Files : Opened(need)[f] \in {NoFile, disk[f]}
  BY DEF Opened

\* Leaving Repair: nothing is staged any more.
LEMMA ReturnInv ==
  ASSUME RepairInv, NEW r \in {"ok", "failed", "mismatch"}, Return(r)
  PROVE  /\ ScanHolds' /\ WritersHold' /\ StagedHolds' /\ RangesHold'
         /\ tmp' \in [Files -> Image \cup {NoFile}]
         /\ writer' \in [Files -> {"none", "waiting", "copying", "open", "shut"}]
         /\ todo' \in [Files -> SUBSET Slots]
         /\ cache' \in [Files -> Image \cup {NoFile}]
         /\ outcome' \in {"none", "ok", "failed", "mismatch"}
         /\ phase' = "done"
<1>1. ScanHolds' /\ WritersHold' /\ StagedHolds' /\ RangesHold'
  BY DEF Return, ScanHolds, WritersHold, StagedHolds, RangesHold
<1>2. QED
  BY <1>1 DEF Return, RepairInv, TypeOK, NoTodo, NoCache

\* A preserved shard holds the content it is kept for (preserveShardsBeforeOverwrite).
LEMMA PreserveInv == RepairInv /\ PreserveShards => RepairInv'
<1> SUFFICES ASSUME RepairInv, PreserveShards PROVE RepairInv'
  OBVIOUS
<1> DEFINE need == {found[s][1] : s \in ToPreserve}
<1>1. CASE ToPreserve # {} /\ Fault("read") /\ Return("failed") /\ UNCHANGED preserved
  <2>1. TypeOK'
    BY <1>1, ReturnInv, FaultType DEF PreserveShards, RepairInv, TypeOK
  <2>2. QED
    BY <1>1, <2>1, ReturnInv DEF RepairInv
<1>2. CASE /\ cache' = Opened(need)
           /\ preserved' = [s \in Shards |-> IF s \in ToPreserve
                              THEN ReadAt(Opened(need), found[s]) ELSE Nowhere]
           /\ phase' = "copy"
           /\ UNCHANGED <<tmp, writer, todo, outcome, faults>>
  <2>0. TypeOK /\ ScanHolds /\ phase = "preserve"
    BY DEF RepairInv, PreserveShards
  <2>1. \A s \in Shards : preserved'[s] \in {Nowhere, Orig[s]}
    <3> SUFFICES ASSUME NEW s \in Shards, s \in ToPreserve PROVE preserved'[s] = Orig[s]
      BY <1>2
    <3>1. found[s] # Nowhere /\ found[s][1] \in need
      BY DEF ToPreserve
    <3>2. QED
      BY <1>2, <2>0, <3>1, ReadsProtected
  <2>2. TypeOK'
    <3>1. cache' \in [Files -> Image \cup {NoFile}]
      BY <1>2, <2>0, OpenedType
    <3>2. preserved' \in [Shards -> Content \cup {Junk, Nowhere}]
      BY <1>2, <2>1
    <3>3. QED
      BY <1>2, <3>1, <3>2 DEF PreserveShards, RepairInv, TypeOK
  <2>3. ScanHolds'
    <3>1. \A f \in Files : cache'[f] \in {NoFile, disk[f]}
      BY <1>2, <2>0, OpenedHolds DEF ScanHolds
    <3>2. QED
      BY <1>2, <2>0, <2>1, <3>1 DEF PreserveShards, ScanHolds, Holding
  <2>4. WritersHold' /\ StagedHolds' /\ RangesHold'
    BY <1>2, <2>0 DEF PreserveShards, RepairInv, WritersHold, StagedHolds, RangesHold, Present
  <2>5. QED
    BY <2>2, <2>3, <2>4 DEF RepairInv
<1>3. QED
  BY <1>1, <1>2 DEF PreserveShards

-----------------------------------------------------------------------------
(* Staging.                                                                   *)

\* A clone that is truncated or extended to the right size is an image.
LEMMA ResizedType ==
  ASSUME NEW img \in Image
  PROVE  /\ Resized(img) \in Image /\ Resized(img)[K + 1] = Nil
         /\ \A j \in Slots : img[j] # Nil => Resized(img)[j] = img[j]
  BY DEF Resized, Image, Pos, Slots

\* A new temporary file is an image.
LEMMA EmptyType == Empty \in Image /\ Empty[K + 1] = Nil
<1>1. [p \in Pos |-> Nil] \in Image
  BY DEF Image
<1>2. QED
  BY <1>1, ResizedType DEF Empty

\* Staging a clone of a file.
LEMMA OpenPatchInv == ASSUME RepairInv, NEW f \in Files, OpenPatch(f) PROVE RepairInv'
<1> USE DEF OpenPatch, Admitted
<1>1. disk[f] \in Image
  BY DEF RepairInv, TypeOK
<1>2. TypeOK'
  BY <1>1, ResizedType DEF RepairInv, TypeOK, Moved, Present
<1>3. ScanHolds'
  BY DEF RepairInv, ScanHolds, Holding
<1>4. WritersHold' /\ RangesHold'
  BY DEF RepairInv, TypeOK, WritersHold, RangesHold
<1>5. StagedHolds'
  <2>1. \A j \in Present(f) \ Moved(f) : tmp'[f][j] = Orig[<<f, j>>]
    <3> SUFFICES ASSUME NEW j \in Present(f) \ Moved(f) PROVE tmp'[f][j] = Orig[<<f, j>>]
      OBVIOUS
    <3>1. <<f, j>> \in Shards /\ found[<<f, j>>] = <<f, j>> /\ found[<<f, j>>] # Nowhere
      BY DEF Present, Moved, Shards
    <3>2. disk[f][j] = Orig[<<f, j>>] /\ Orig[<<f, j>>] # Nil
      BY <3>1 DEF RepairInv, ScanHolds, Holding
    <3>3. QED
      BY <1>1, <3>2, ResizedType DEF RepairInv, TypeOK, Present
  <2>2. Moved(f) \subseteq Present(f)
    BY DEF Moved
  <2>3. Present(f)' = Present(f)
    BY DEF Present
  <2>4. tmp'[f] \in Image /\ tmp'[f][K + 1] = Nil /\ todo'[f] = Moved(f)
        /\ writer'[f] = "copying"
    BY <1>1, ResizedType DEF RepairInv, TypeOK
  <2>5. \A g \in Files \ {f} : /\ tmp'[g] = tmp[g] /\ todo'[g] = todo[g]
                               /\ writer'[g] = writer[g] /\ Present(g)' = Present(g)
    BY DEF RepairInv, TypeOK, Present
  <2>6. \A g \in Files \ {f} : \A j \in Slots : Unspoiled(g, j)' => Unspoiled(g, j)
    BY DEF Unspoiled
  <2>7. QED
    BY <2>1, <2>2, <2>3, <2>4, <2>5, <2>6 DEF RepairInv, StagedHolds, Intact, Present
<1>6. QED
  BY <1>2, <1>3, <1>4, <1>5 DEF RepairInv

\* Staging a file from scratch.
LEMMA OpenWriteInv == ASSUME RepairInv, NEW f \in Files, OpenWrite(f) PROVE RepairInv'
<1> USE DEF OpenWrite, Admitted
<1>1. TypeOK'
  BY EmptyType DEF RepairInv, TypeOK, Present
<1>2. ScanHolds'
  BY DEF RepairInv, ScanHolds, Holding
<1>3. WritersHold' /\ RangesHold'
  BY DEF RepairInv, TypeOK, WritersHold, RangesHold
<1>4. StagedHolds'
  <2>1. tmp'[f] \in Image /\ tmp'[f][K + 1] = Nil /\ todo'[f] = Present(f)'
        /\ writer'[f] = "copying"
    BY EmptyType DEF RepairInv, TypeOK, Present
  <2>2. \A g \in Files \ {f} : /\ tmp'[g] = tmp[g] /\ todo'[g] = todo[g]
                               /\ writer'[g] = writer[g] /\ Present(g)' = Present(g)
    BY DEF RepairInv, TypeOK, Present
  <2>3. \A g \in Files : \A j \in Slots : Unspoiled(g, j)' => Unspoiled(g, j)
    BY DEF Unspoiled
  <2>4. QED
    BY <2>1, <2>2, <2>3 DEF RepairInv, StagedHolds, Intact, Present
<1>5. QED
  BY <1>1, <1>2, <1>3, <1>4 DEF RepairInv

\* A fault, or a write that is listed, only makes fewer slots certain.
LEMMA SpoiledStays ==
  ASSUME faults \in Nat, faults' = faults \/ faults' = faults + 1, UNCHANGED cloned,
         NEW f, written[f] \subseteq written'[f]
  PROVE  \A j : Unspoiled(f, j)' => Unspoiled(f, j)
  BY DEF Unspoiled

\* A goroutine that gives up: its file has no writer and is listed in errs.
LEMMA GivesUp ==
  ASSUME RepairInv, NEW f \in Files, phase = "copy", phase' = "copy",
         writer' = [writer EXCEPT ![f] = "none"], errs' = errs \cup {f},
         \A g \in Files \ {f} : tmp'[g] = tmp[g] /\ todo'[g] = todo[g],
         faults' = faults + 1,
         UNCHANGED <<disk, scanVars, wasOK, preserved, cache, cloned, written, bank, chunk>>
  PROVE  ScanHolds' /\ WritersHold' /\ StagedHolds' /\ RangesHold'
<1>1. ScanHolds'
  BY DEF RepairInv, ScanHolds, Holding
<1>2. WritersHold' /\ RangesHold'
  BY DEF RepairInv, TypeOK, WritersHold, RangesHold
<1>3. StagedHolds'
  <2>1. writer'[f] = "none"
    BY DEF RepairInv, TypeOK
  <2>2. \A g \in Files \ {f} : writer'[g] = writer[g] /\ Present(g)' = Present(g)
    BY DEF RepairInv, TypeOK, Present
  <2>3. \A g \in Files : \A j \in Slots : Unspoiled(g, j)' => Unspoiled(g, j)
    BY SpoiledStays DEF RepairInv, TypeOK
  <2>4. QED
    BY <2>1, <2>2, <2>3 DEF RepairInv, StagedHolds, Intact, Present
<1>4. QED
  BY <1>1, <1>2, <1>3

\* Staging fails: nothing of the file is left.
LEMMA OpenFailsInv == ASSUME RepairInv, NEW f \in Files, OpenFails(f) PROVE RepairInv'
<1> USE DEF OpenFails, Admitted
<1>1. PICK t \in {tmp[f], NoFile} : tmp' = [tmp EXCEPT ![f] = t]
  OBVIOUS
<1>2. TypeOK'
  BY <1>1, FaultType DEF RepairInv, TypeOK
<1>3. /\ \A g \in Files \ {f} : tmp'[g] = tmp[g] /\ todo'[g] = todo[g]
      /\ faults' = faults + 1
  BY <1>1 DEF RepairInv, TypeOK, Fault
<1>4. ScanHolds' /\ WritersHold' /\ StagedHolds' /\ RangesHold'
  BY <1>3, GivesUp
<1>5. QED
  BY <1>2, <1>4 DEF RepairInv

\* A copy into a staged file fails: its temporary file is removed.
LEMMA CopyFailsInv == ASSUME RepairInv, NEW f \in Files, CopyFails(f) PROVE RepairInv'
<1> USE DEF CopyFails
<1>1. TypeOK'
  BY FaultType DEF RepairInv, TypeOK
<1>2. /\ \A g \in Files \ {f} : tmp'[g] = tmp[g] /\ todo'[g] = todo[g]
      /\ faults' = faults + 1
  BY DEF RepairInv, TypeOK, Fault
<1>3. ScanHolds' /\ WritersHold' /\ StagedHolds' /\ RangesHold'
  BY <1>2, GivesUp
<1>4. QED
  BY <1>1, <1>3 DEF RepairInv

\* A staged file joins the writers with what the copies left to do.
LEMMA RegisterInv == ASSUME RepairInv, NEW f \in Files, Register(f) PROVE RepairInv'
<1> USE DEF Register
<1>1. TypeOK'
  BY DEF RepairInv, TypeOK
<1>2. ScanHolds'
  BY DEF RepairInv, ScanHolds, Holding
<1>3. WritersHold' /\ RangesHold'
  BY DEF RepairInv, TypeOK, WritersHold, RangesHold
<1>4. StagedHolds'
  BY DEF RepairInv, TypeOK, StagedHolds, Present, Intact, Unspoiled
<1>5. QED
  BY <1>1, <1>2, <1>3, <1>4 DEF RepairInv

\* A write leaves its data, or is a silent fault.
LEMMA LeavesData ==
  ASSUME NEW data, NEW c, Leaves(data, c)
  PROVE  \/ c = data /\ UNCHANGED faults
         \/ c = Junk /\ "silent" \in Faults /\ Fault("silent")
  BY DEF Leaves, Fault

\* A copied shard is the one that belongs where it is written, unless the write fails
\* silently; a clone lists it.
LEMMA CopyShardInv == ASSUME RepairInv, NEW f \in Files, CopyShard(f) PROVE RepairInv'
<1> DEFINE need(j) == {found[<<f, j>>][1]}
           open(j) == IF preserved[<<f, j>>] # Nowhere THEN cache ELSE Opened(need(j))
           data(j) == IF preserved[<<f, j>>] # Nowhere THEN preserved[<<f, j>>]
                      ELSE ReadAt(open(j), found[<<f, j>>])
<1>1. PICK j \in Slots :
        /\ First(f, j)
        /\ cache' = open(j)
        /\ \E c \in {data(j), Junk} : Leaves(data(j), c) /\ tmp' = [tmp EXCEPT ![f][j] = c]
        /\ todo' = [todo EXCEPT ![f] = @ \ {j}]
        /\ written' = IF f \in cloned THEN [written EXCEPT ![f] = @ \cup {j}] ELSE written
  BY DEF CopyShard
<1>2. /\ phase = "copy" /\ writer[f] = "copying"
      /\ UNCHANGED <<disk, parity, scanVars, phase, callVars, preserved, writer, cloned, errs,
                     chunk, bank, repaired, outcome, boundVars>>
  BY DEF CopyShard
<1>3. j \in todo[f] /\ j \in Present(f) /\ found[<<f, j>>] # Nowhere /\ <<f, j>> \in Shards
  BY <1>1, <1>2 DEF First, RepairInv, StagedHolds, Present, Shards
<1>4. data(j) = Orig[<<f, j>>]
  <2>1. CASE preserved[<<f, j>>] # Nowhere
    BY <2>1, <1>2, <1>3 DEF RepairInv, ScanHolds
  <2>2. CASE preserved[<<f, j>>] = Nowhere
    BY <2>2, <1>2, <1>3, ReadsProtected DEF RepairInv
  <2>3. QED
    BY <2>1, <2>2
<1>5. PICK c \in {Orig[<<f, j>>], Junk} :
        /\ tmp' = [tmp EXCEPT ![f][j] = c]
        /\ \/ c = Orig[<<f, j>>] /\ UNCHANGED faults
           \/ "silent" \in Faults /\ Fault("silent")
  <2>1. PICK c : Leaves(data(j), c) /\ tmp' = [tmp EXCEPT ![f][j] = c]
    BY <1>1
  <2> HIDE DEF data
  <2>2. \/ c = data(j) /\ UNCHANGED faults
        \/ c = Junk /\ "silent" \in Faults /\ Fault("silent")
    BY <2>1, LeavesData
  <2>3. QED
    BY <2>1, <2>2, <1>4
<1>6. tmp[f] \in Image /\ tmp[f][K + 1] = Nil
  BY <1>2 DEF RepairInv, StagedHolds
<1>7. /\ tmp'[f] \in Image /\ tmp'[f][K + 1] = Nil /\ tmp'[f][j] = c
      /\ \A k \in Slots \ {j} : tmp'[f][k] = tmp[f][k]
  <2>1. tmp'[f] = [tmp[f] EXCEPT ![j] = c]
    BY <1>5 DEF RepairInv, TypeOK
  <2>2. j \in Pos /\ K + 1 \in Pos /\ j # K + 1 /\ Slots \subseteq Pos
    BY DEF Slots, Pos
  <2>3. c \in Content \cup {Junk}
    BY <1>3
  <2>4. QED
    BY <1>6, <2>1, <2>2, <2>3 DEF Image
<1>8. cache' \in [Files -> Image \cup {NoFile}] /\ \A g \in Files : cache'[g] \in {NoFile, disk[g]}
  BY <1>1, <1>2, OpenedType, OpenedHolds DEF RepairInv, TypeOK, ScanHolds
<1>9. TypeOK'
  <2>1. tmp' \in [Files -> Image \cup {NoFile}]
    BY <1>5, <1>7 DEF RepairInv, TypeOK
  <2>2. written' \in [Files -> SUBSET Slots] /\ todo' \in [Files -> SUBSET Slots]
    BY <1>1 DEF RepairInv, TypeOK
  <2>3. faults' \in 0..MaxFaults
    BY <1>5, FaultType DEF RepairInv, TypeOK
  <2>4. QED
    BY <1>2, <1>8, <2>1, <2>2, <2>3 DEF RepairInv, TypeOK
<1>10. ScanHolds'
  BY <1>2, <1>8 DEF RepairInv, ScanHolds, Holding
<1>11. WritersHold' /\ RangesHold'
  BY <1>2 DEF RepairInv, WritersHold, RangesHold
<1>12. faults \in Nat /\ (faults' = faults \/ faults' = faults + 1)
  BY <1>5 DEF RepairInv, TypeOK, Fault
<1>13. \A g \in Files, k \in Slots : Unspoiled(g, k)' => Unspoiled(g, k)
  <2>1. \A g \in Files : written[g] \subseteq written'[g]
    BY <1>1 DEF RepairInv, TypeOK
  <2>2. QED
    BY <1>2, <1>12, <2>1, SpoiledStays
<1>14. Unspoiled(f, j)' => c = Orig[<<f, j>>]
  <2>1. f \in cloned => j \in written'[f]
    BY <1>1 DEF RepairInv, TypeOK
  <2>2. QED
    BY <1>2, <1>5, <1>12, <2>1 DEF Unspoiled, Fault
<1>15. StagedHolds'
  <2>1. \A g \in Files : Present(g)' = Present(g)
    BY <1>2 DEF Present
  <2>2. \A g \in Files \ {f} : tmp'[g] = tmp[g] /\ todo'[g] = todo[g]
    BY <1>1, <1>5 DEF RepairInv, TypeOK
  <2>3. todo'[f] = todo[f] \ {j}
    BY <1>1 DEF RepairInv, TypeOK
  <2>4. \A k \in Present(f) \ todo'[f] : Unspoiled(f, k)' => tmp'[f][k] = Orig[<<f, k>>]
    BY <1>2, <1>7, <1>13, <1>14, <2>3 DEF RepairInv, StagedHolds, Present, Intact
  <2>5. QED
    BY <1>2, <1>7, <1>13, <2>1, <2>2, <2>3, <2>4 DEF RepairInv, StagedHolds, Intact, Present
<1>16. QED
  BY <1>9, <1>10, <1>11, <1>15 DEF RepairInv

\* The barrier after staging: on an error every temporary file is removed.
LEMMA EndCopyInv == ASSUME RepairInv, EndCopy PROVE RepairInv'
<1> USE DEF EndCopy
<1>1. CASE errs = {}
  <2>1. TypeOK'
    BY <1>1 DEF RepairInv, TypeOK
  <2>2. ScanHolds'
    BY <1>1 DEF RepairInv, ScanHolds, Holding
  <2>3. WritersHold' /\ RangesHold'
    BY <1>1 DEF RepairInv, WritersHold, RangesHold
  <2>4. StagedHolds'
    BY <1>1 DEF RepairInv, TypeOK, StagedHolds, WritersHold, Present, Intact, Unspoiled
  <2>5. QED
    BY <2>1, <2>2, <2>3, <2>4 DEF RepairInv
<1>2. CASE errs # {}
  <2>1. Return("failed")
    BY <1>2
  <2>2. TypeOK'
    BY <1>2, <2>1, ReturnInv DEF RepairInv, TypeOK
  <2>3. QED
    BY <2>1, <2>2, ReturnInv DEF RepairInv
<1>3. QED
  BY <1>1, <1>2

-----------------------------------------------------------------------------
(* Reconstruction.                                                            *)

\* A chunk of every missing row is reconstructed.
LEMMA FoldInv == ASSUME RepairInv, Fold PROVE RepairInv'
<1> DEFINE inputs == Shards \ Unpresent
           need   == {found[s][1] : s \in {x \in inputs : preserved[x] = Nowhere}}
<1>0. /\ phase = "fold"
      /\ UNCHANGED <<disk, parity, scanVars, callVars, preserved, cloned, written, chunk,
                     repaired, boundVars>>
  BY DEF Fold
<1>1. CASE /\ \/ Unrepairable /\ UNCHANGED faults
              \/ ~Unrepairable /\ Unpresent # {} /\ Fault("read")
           /\ Return("failed")
           /\ UNCHANGED <<bank, errs>>
  <2>1. TypeOK'
    BY <1>0, <1>1, ReturnInv, FaultType DEF RepairInv, TypeOK
  <2>2. QED
    BY <1>1, <2>1, ReturnInv DEF RepairInv
<1>2. CASE /\ Unpresent = {}
           /\ phase' = "close"
           /\ UNCHANGED <<tmp, writer, todo, cache, outcome, bank, errs, faults>>
  <2>1. TypeOK'
    BY <1>0, <1>2 DEF RepairInv, TypeOK
  <2>2. ScanHolds' /\ WritersHold' /\ RangesHold'
    BY <1>0, <1>2 DEF RepairInv, ScanHolds, WritersHold, RangesHold
  <2>3. \A f \in Files : Present(f) = Slots
    BY <1>2 DEF Unpresent, Present, Shards
  <2>4. StagedHolds'
    BY <1>0, <1>2, <2>3 DEF RepairInv, StagedHolds, Intact, Unspoiled
  <2>5. QED
    BY <2>1, <2>2, <2>4 DEF RepairInv
<1>3. CASE /\ cache' = Opened(need)
           /\ bank' = (bank /\ \A s \in inputs : Input(Opened(need), s) = Orig[s])
           /\ todo' = [f \in Files |-> {j \in Slots : <<f, j>> \in Unpresent}]
           /\ errs' = {}
           /\ phase' = "write"
           /\ UNCHANGED <<tmp, writer, outcome, faults>>
  <2>1. \A s \in inputs : Input(Opened(need), s) = Orig[s]
    <3> SUFFICES ASSUME NEW s \in inputs PROVE Input(Opened(need), s) = Orig[s]
      OBVIOUS
    <3>1. s \in Shards /\ found[s] # Nowhere
      BY DEF Unpresent
    <3>2. CASE preserved[s] # Nowhere
      BY <1>0, <3>1, <3>2 DEF Input, RepairInv, ScanHolds
    <3>3. CASE preserved[s] = Nowhere
      <4>1. found[s][1] \in need
        BY <3>3
      <4>2. ReadAt(Opened(need), found[s]) = Orig[s]
        BY <1>0, <3>1, <4>1, ReadsProtected DEF RepairInv
      <4>3. QED
        BY <3>3, <4>2 DEF Input
    <3>4. QED
      BY <3>2, <3>3
  <2>2. bank' = TRUE
    BY <1>0, <1>3, <2>1 DEF RepairInv, RangesHold
  <2>3. cache' \in [Files -> Image \cup {NoFile}]
        /\ \A f \in Files : cache'[f] \in {NoFile, disk[f]}
    BY <1>0, <1>3, OpenedType, OpenedHolds DEF RepairInv, ScanHolds
  <2>4. TypeOK'
    BY <1>0, <1>3, <2>2, <2>3 DEF RepairInv, TypeOK
  <2>5. ScanHolds'
    BY <1>0, <1>3, <2>3 DEF RepairInv, ScanHolds, Holding
  <2>6. WritersHold'
    BY <1>0, <1>3 DEF RepairInv, WritersHold
  <2>7. \A f \in Files : Present(f)' = Present(f) /\ todo'[f] = Slots \ Present(f)
    BY <1>0, <1>3 DEF Present, Unpresent, Shards
  <2>8. RangesHold'
    <3>1. chunk \in 1..Chunks /\ cloned' = cloned /\ written' = written /\ chunk' = chunk
          /\ cloned \subseteq Files
      BY <1>0 DEF RepairInv, RangesHold, TypeOK
    <3>2. \A f \in cloned : chunk > 1 => Slots \ Present(f) \subseteq written[f]
      BY <1>0 DEF RepairInv, RangesHold
    <3>3. \A f \in cloned : Slots \ Present(f)
             \subseteq written[f] \cup (IF chunk = 1 THEN todo'[f] ELSE {})
      BY <3>1, <3>2, <2>7
    <3>4. QED
      BY <1>3, <2>2, <2>7, <3>1, <3>3 DEF RangesHold
  <2>9. StagedHolds'
    <3>1. \A f \in Files, j \in Slots : Unspoiled(f, j)' => Unspoiled(f, j)
      BY <1>0, <1>3 DEF Unspoiled
    <3>2. QED
      BY <1>0, <1>3, <2>7, <3>1 DEF RepairInv, StagedHolds, Intact, Present
  <2>10. QED
    BY <2>4, <2>5, <2>6, <2>8, <2>9 DEF RepairInv
<1>4. QED
  BY <1>1, <1>2, <1>3 DEF Fold

\* A written row is in the clone's written list, and leaves one row less to do.
LEMMA WriteRowInv == ASSUME RepairInv, NEW f \in Files, WriteRow(f) PROVE RepairInv'
<1> DEFINE data(j) == IF bank /\ chunk = Chunks THEN Orig[<<f, j>>] ELSE Junk
           wrote(j) == /\ \E c \in {data(j), Junk} :
                             Leaves(data(j), c) /\ tmp' = [tmp EXCEPT ![f][j] = c]
                       /\ todo' = [todo EXCEPT ![f] = @ \ {j}]
                       /\ UNCHANGED errs
           failed == /\ Fault("write")
                     /\ todo' = [todo EXCEPT ![f] = {}]
                     /\ errs' = errs \cup {f}
                     /\ UNCHANGED tmp
<1>1. PICK j \in Slots :
        /\ First(f, j)
        /\ written' = IF chunk = 1 /\ f \in cloned
                        THEN [written EXCEPT ![f] = @ \cup {j}] ELSE written
        /\ wrote(j) \/ failed
  BY DEF WriteRow
<1>2. /\ phase = "write"
      /\ UNCHANGED <<disk, parity, scanVars, phase, callVars, preserved, cache, writer, cloned,
                     chunk, bank, repaired, outcome, boundVars>>
  BY DEF WriteRow
<1>3. j \in todo[f] /\ j \notin Present(f)
  BY <1>1, <1>2 DEF First, RepairInv, RangesHold
<1>4. writer[f] = "open"
  <2>1. <<f, j>> \in Shards /\ found[<<f, j>>] = Nowhere
    BY <1>3 DEF Present, Shards
  <2>2. f \notin wasOK
    BY <1>2, <2>1 DEF RepairInv, ScanHolds
  <2>3. QED
    BY <1>2, <2>2 DEF RepairInv, WritersHold
<1>5. written' \in [Files -> SUBSET Slots]
  BY <1>1 DEF RepairInv, TypeOK
<1>6. ScanHolds' /\ WritersHold'
  BY <1>2 DEF RepairInv, ScanHolds, WritersHold, Holding
<1>7. \A g \in Files : Present(g)' = Present(g)
  BY <1>2 DEF Present
<1>8. tmp[f] \in Image /\ tmp[f][K + 1] = Nil
  BY <1>2, <1>4 DEF RepairInv, StagedHolds
<1>9. /\ \A g \in Files : written[g] \subseteq written'[g]
      /\ \A g \in Files \ {f} : written'[g] = written[g]
      /\ f \in cloned /\ chunk = 1 => written'[f] = written[f] \cup {j}
  BY <1>1 DEF RepairInv, TypeOK
<1>10. \A g \in Files : cloned' = cloned /\ chunk' = chunk /\ cloned \subseteq Files
  BY <1>2 DEF RepairInv, TypeOK
<1>11. CASE wrote(j)
  <2>1. PICK c \in {data(j), Junk} :
          /\ tmp' = [tmp EXCEPT ![f][j] = c]
          /\ \/ c = data(j) /\ UNCHANGED faults
             \/ "silent" \in Faults /\ Fault("silent")
    <3>1. PICK c : Leaves(data(j), c) /\ tmp' = [tmp EXCEPT ![f][j] = c]
      BY <1>11
    <3> HIDE DEF data
    <3>2. \/ c = data(j) /\ UNCHANGED faults
          \/ c = Junk /\ "silent" \in Faults /\ Fault("silent")
      BY <3>1, LeavesData
    <3>3. QED
      BY <3>1, <3>2
  <2>2. data(j) \in Content \cup {Junk} /\ (chunk = Chunks => data(j) = Orig[<<f, j>>])
    <3>1. bank /\ Orig[<<f, j>>] \in Content
      BY <1>2 DEF RepairInv, RangesHold, Shards
    <3>2. QED
      BY <3>1
  <2>3. /\ tmp'[f] \in Image /\ tmp'[f][K + 1] = Nil /\ tmp'[f][j] = c
        /\ \A k \in Slots \ {j} : tmp'[f][k] = tmp[f][k]
    <3> HIDE DEF data
    <3>1. tmp'[f] = [tmp[f] EXCEPT ![j] = c]
      BY <2>1 DEF RepairInv, TypeOK
    <3>2. j \in Pos /\ K + 1 \in Pos /\ j # K + 1 /\ Slots \subseteq Pos
      BY DEF Slots, Pos
    <3>3. QED
      BY <1>8, <2>1, <2>2, <3>1, <3>2 DEF Image
  <2>4. \A g \in Files \ {f} : tmp'[g] = tmp[g] /\ todo'[g] = todo[g]
    BY <1>11, <2>1 DEF RepairInv, TypeOK
  <2>5. todo'[f] = todo[f] \ {j} /\ todo' \in [Files -> SUBSET Slots] /\ errs' = errs
    BY <1>11 DEF RepairInv, TypeOK
  <2>6. /\ faults \in Nat /\ (faults' = faults \/ faults' = faults + 1)
        /\ faults' \in 0..MaxFaults
    BY <2>1, FaultType DEF RepairInv, TypeOK, Fault
  <2>7. TypeOK'
    <3>1. tmp' \in [Files -> Image \cup {NoFile}]
      BY <2>1, <2>3 DEF RepairInv, TypeOK
    <3>2. QED
      BY <1>2, <1>5, <2>5, <2>6, <3>1 DEF RepairInv, TypeOK
  <2>8. \A g \in Files, k \in Slots : Unspoiled(g, k)' => Unspoiled(g, k)
    BY <1>9, <1>10, <2>6, SpoiledStays
  <2>9. f \notin errs /\ (f \in cloned => j \in written'[f])
    BY <1>2, <1>3, <1>4, <1>9, <2>5 DEF RepairInv, RangesHold
  <2>10. RangesHold'
    <3>1. \A g \in Files : todo'[g] \cap Present(g)' = {}
      BY <1>2, <1>7, <2>4, <2>5 DEF RepairInv, RangesHold
    <3>2. \A g \in errs' : todo'[g] = {}
      BY <1>2, <2>4, <2>5, <2>9 DEF RepairInv, TypeOK, RangesHold
    <3>3. \A g \in cloned' : g \notin errs' => Slots \ Present(g)'
             \subseteq written'[g] \cup (IF chunk' = 1 THEN todo'[g] ELSE {})
      BY <1>2, <1>7, <1>9, <1>10, <2>4, <2>5 DEF RepairInv, RangesHold
    <3>4. QED
      BY <1>2, <3>1, <3>2, <3>3 DEF RepairInv, RangesHold
  <2>11. Unspoiled(f, j)' => c = data(j)
    <3> HIDE DEF data
    <3>1. QED
      BY <1>10, <2>1, <2>6, <2>9 DEF Unspoiled, Fault
  <2>12. StagedHolds'
    <3> HIDE DEF data
    <3>1. \A k \in Present(f) : Unspoiled(f, k)' => tmp'[f][k] = Orig[<<f, k>>]
      BY <1>2, <1>3, <1>4, <2>3, <2>8 DEF RepairInv, StagedHolds, Present, Intact
    <3>2. chunk = Chunks /\ f \notin errs =>
            \A k \in Slots \ (Present(f) \cup todo'[f]) :
               Unspoiled(f, k)' => tmp'[f][k] = Orig[<<f, k>>]
      BY <1>2, <1>4, <2>2, <2>3, <2>5, <2>8, <2>11 DEF RepairInv, StagedHolds, Intact
    <3>3. QED
      BY <1>2, <1>7, <2>3, <2>4, <2>5, <2>8, <3>1, <3>2
      DEF RepairInv, StagedHolds, Intact, Present
  <2>13. QED
    BY <1>6, <2>7, <2>10, <2>12 DEF RepairInv
<1>12. CASE failed
  <2>1. todo'[f] = {} /\ \A g \in Files \ {f} : todo'[g] = todo[g]
    BY <1>12 DEF RepairInv, TypeOK
  <2>2. TypeOK'
    BY <1>2, <1>5, <1>12, FaultType DEF RepairInv, TypeOK
  <2>3. RangesHold'
    BY <1>2, <1>7, <1>9, <1>10, <1>12, <2>1 DEF RepairInv, RangesHold
  <2>4. \A g \in Files, k \in Slots : Unspoiled(g, k)' => Unspoiled(g, k)
    BY <1>9, <1>10, <1>12, SpoiledStays DEF RepairInv, TypeOK, Fault
  <2>5. StagedHolds'
    BY <1>2, <1>7, <1>12, <2>1, <2>4 DEF RepairInv, StagedHolds, Intact, Present
  <2>6. QED
    BY <1>6, <2>2, <2>3, <2>5 DEF RepairInv
<1>13. QED
  BY <1>1, <1>11, <1>12

\* The barrier after writing a chunk; after the last one nothing is left to do.
LEMMA EndWriteInv == ASSUME RepairInv, EndWrite PROVE RepairInv'
<1>0. /\ phase = "write" /\ todo = NoTodo
      /\ UNCHANGED <<disk, parity, scanVars, callVars, preserved, cloned, written, errs, bank,
                     repaired, faults, boundVars>>
  BY DEF EndWrite
<1>1. CASE errs # {}
  <2>1. Return("failed") /\ UNCHANGED chunk
    BY <1>1 DEF EndWrite
  <2>2. TypeOK'
    BY <1>0, <2>1, ReturnInv DEF RepairInv, TypeOK
  <2>3. QED
    BY <2>1, <2>2, ReturnInv DEF RepairInv
<1>2. CASE errs = {}
  <2>1. /\ phase' = IF chunk < Chunks THEN "fold" ELSE "close"
        /\ chunk' = IF chunk < Chunks THEN chunk + 1 ELSE chunk
        /\ UNCHANGED <<tmp, writer, todo, cache, outcome>>
    BY <1>2 DEF EndWrite
  <2>2. bank /\ chunk \in 1..Chunks
    BY <1>0 DEF RepairInv, RangesHold
  <2>3. TypeOK'
    BY <1>0, <2>1, <2>2 DEF RepairInv, TypeOK
  <2>4. ScanHolds' /\ WritersHold'
    BY <1>0, <2>1 DEF RepairInv, ScanHolds, WritersHold, Holding
  <2>5. \A f \in Files : Present(f)' = Present(f) /\ todo[f] = {}
    BY <1>0 DEF Present, NoTodo
  <2>6. RangesHold'
    BY <1>0, <1>2, <2>1, <2>2, <2>5 DEF RepairInv, TypeOK, RangesHold
  <2>7. \A f \in Files : writer[f] = "open" /\ chunk = Chunks =>
           \A j \in Slots : Unspoiled(f, j) => tmp[f][j] = Orig[<<f, j>>]
    BY <1>0, <1>2, <2>5 DEF RepairInv, StagedHolds, Intact
  <2>8. StagedHolds'
    <3>1. \A f \in Files, j \in Slots : Unspoiled(f, j)' => Unspoiled(f, j)
      BY <1>0 DEF Unspoiled
    <3>2. QED
      BY <1>0, <2>1, <2>2, <2>5, <2>7, <3>1
      DEF RepairInv, StagedHolds, WritersHold, Intact, Present
  <2>9. QED
    BY <2>3, <2>4, <2>6, <2>8 DEF RepairInv
<1>3. QED
  BY <1>1, <1>2

\* The readers are closed before the first rename.
LEMMA CloseReadersInv == ASSUME RepairInv, CloseReaders PROVE RepairInv'
<1> USE DEF CloseReaders
<1>1. TypeOK'
  BY DEF RepairInv, TypeOK, NoCache
<1>2. ScanHolds' /\ WritersHold' /\ RangesHold'
  BY DEF RepairInv, ScanHolds, WritersHold, RangesHold
<1>3. StagedHolds'
  BY DEF RepairInv, StagedHolds, Present, Intact, Unspoiled
<1>4. QED
  BY <1>1, <1>2, <1>3 DEF RepairInv

-----------------------------------------------------------------------------
(* Publication and checks.                                                    *)

\* What a rename puts in place.
LEMMA OpenWriterHolds ==
  ASSUME RepairInv, phase = "commit", NEW f \in Files, writer[f] = "open"
  PROVE  tmp[f] \in Image /\ tmp[f][K + 1] = Nil /\ Intact(tmp[f], f, Slots)
  BY DEF RepairInv, StagedHolds

\* An image of the right size with its slices in place is the original.
LEMMA PristineImage ==
  ASSUME NEW img \in Image, NEW f \in Files, img[K + 1] = Nil,
         \A j \in Slots : img[j] = Orig[<<f, j>>]
  PROVE  img = Pristine(f)
<1>1. Pos = Slots \cup {K + 1} /\ K + 1 \notin Slots
  BY DEF Pos, Slots
<1>2. QED
  BY <1>1 DEF Pristine, Image

\* Where no write fails silently, it is the original.
LEMMA OpenWriterIsWhole ==
  ASSUME RepairInv, phase = "commit", NEW f \in Files, writer[f] = "open",
         "silent" \notin Faults
  PROVE  tmp[f] = Pristine(f) /\ tmp[f] \in Image
  BY OpenWriterHolds, PristineImage DEF Intact, Unspoiled

\* A renamed file has every row in place that no write has spoiled.
LEMMA CommitInv == ASSUME RepairInv, NEW f \in Files, Commit(f) PROVE RepairInv'
<1> USE DEF Commit
<1>1. tmp[f] \in Image
  BY OpenWriterHolds
<1>2. TypeOK'
  BY <1>1, FaultType DEF RepairInv, TypeOK
<1>3. ScanHolds' /\ WritersHold' /\ RangesHold'
  BY DEF RepairInv, TypeOK, ScanHolds, WritersHold, RangesHold
<1>4. \A g \in Files, j \in Slots : Unspoiled(g, j)' => Unspoiled(g, j)
  BY SpoiledStays DEF RepairInv, TypeOK, Fault
<1>5. StagedHolds'
  BY <1>4 DEF RepairInv, TypeOK, StagedHolds, Intact
<1>6. QED
  BY <1>2, <1>3, <1>5 DEF RepairInv

\* The barrier after the renames.
LEMMA EndCommitInv == ASSUME RepairInv, EndCommit PROVE RepairInv'
<1> USE DEF EndCommit
<1>1. CASE errs # {}
  <2>1. Return("failed")
    BY <1>1
  <2>2. TypeOK'
    BY <2>1, ReturnInv DEF RepairInv, TypeOK
  <2>3. QED
    BY <2>1, <2>2, ReturnInv DEF RepairInv
<1>2. CASE errs = {}
  <2>1. TypeOK'
    BY <1>2 DEF RepairInv, TypeOK
  <2>2. ScanHolds' /\ WritersHold' /\ RangesHold' /\ StagedHolds'
    BY <1>2 DEF RepairInv, ScanHolds, WritersHold, RangesHold, StagedHolds
  <2>3. QED
    BY <2>1, <2>2 DEF RepairInv
<1>3. QED
  BY <1>1, <1>2

\* What was written is read back and the infos rewritten.
LEMMA CheckInv == ASSUME RepairInv, CheckWritten PROVE RepairInv'
<1>1. /\ phase = "check"
      /\ repaired' \subseteq Rewritten
      /\ found' = [s \in Shards |-> IF s[1] \in repaired' THEN s ELSE found[s]]
      /\ inPlace' = inPlace \cup {s \in Shards : s[1] \in repaired'}
      /\ missing' = missing \ repaired' /\ wrongSize' = wrongSize \ repaired'
      /\ UNCHANGED <<disk, parity, callVars, preserved, cloned, written, errs, chunk, bank,
                     boundVars>>
      /\ faults' = faults \/ Fault("read")
      /\ \/ Return("failed") \/ Return("ok")
         \/ phase' = "parity" /\ UNCHANGED <<tmp, writer, todo, cache, outcome>>
  BY DEF CheckWritten, Report
<1>2. faults' \in 0..MaxFaults
  BY <1>1, FaultType DEF RepairInv, TypeOK
<1>3. /\ found' \in [Shards -> Loc \cup {Nowhere}] /\ inPlace' \subseteq Shards
      /\ missing' \subseteq Files /\ wrongSize' \subseteq Files /\ repaired' \subseteq Files
  <2>1. Shards \subseteq Loc
    BY DEF Shards, Loc, Slots, Pos
  <2>2. QED
    BY <1>1, <2>1 DEF RepairInv, TypeOK, Rewritten
<1>4. ASSUME NEW r \in {"ok", "failed"}, Return(r) PROVE RepairInv'
  <2>1. TypeOK'
    BY <1>1, <1>2, <1>3, <1>4, ReturnInv DEF RepairInv, TypeOK
  <2>2. QED
    BY <1>4, <2>1, ReturnInv DEF RepairInv
<1>5. CASE phase' = "parity" /\ UNCHANGED <<tmp, writer, todo, cache, outcome>>
  <2>1. TypeOK'
    BY <1>1, <1>2, <1>3, <1>5 DEF RepairInv, TypeOK
  <2>2. ScanHolds' /\ WritersHold' /\ StagedHolds' /\ RangesHold'
    BY <1>1, <1>5 DEF RepairInv, ScanHolds, WritersHold, StagedHolds, RangesHold
  <2>3. QED
    BY <2>1, <2>2 DEF RepairInv
<1>6. QED
  BY <1>1, <1>4, <1>5

\* The parity double check changes no file.
LEMMA VerifyInv == ASSUME RepairInv, VerifyParity PROVE RepairInv'
<1>1. /\ \E r \in {"ok", "failed", "mismatch"} : Return(r)
      /\ UNCHANGED <<disk, parity, scanVars, callVars, preserved, cloned, written, errs, chunk,
                     bank, repaired, boundVars>>
      /\ faults' = faults \/ Fault("read")
  BY DEF VerifyParity
<1>2. TypeOK'
  BY <1>1, ReturnInv, FaultType DEF RepairInv, TypeOK
<1>3. QED
  BY <1>1, <1>2, ReturnInv DEF RepairInv

\* A new decoder after a crash or the end of a repair forgets everything but the disk.
LEMMA ForgetInv ==
  ASSUME RepairInv, Forget, faults' \in 0..MaxFaults, crashed' \in BOOLEAN
  PROVE  RepairInv'
<1>1. TypeOK'
  <2>1. found' \in [Shards -> Loc \cup {Nowhere}] /\ bank' \in BOOLEAN /\ checkParity' \in BOOLEAN
    BY DEF Forget
  <2>2. QED
    BY <2>1 DEF Forget, RepairInv, TypeOK, NoCache, NoTodo
<1>2. ScanHolds' /\ WritersHold' /\ StagedHolds' /\ RangesHold'
  BY DEF Forget, ScanHolds, WritersHold, StagedHolds, RangesHold
<1>3. QED
  BY <1>1, <1>2 DEF RepairInv

\* A stuttering step keeps the invariant.
LEMMA StutterInv == RepairInv /\ UNCHANGED vars => RepairInv'
<1> SUFFICES ASSUME RepairInv, UNCHANGED vars PROVE RepairInv'
  OBVIOUS
<1> USE DEF vars
<1>1. TypeOK'
  BY DEF RepairInv, TypeOK
<1>2. ScanHolds' /\ WritersHold' /\ StagedHolds' /\ RangesHold'
  BY DEF RepairInv, ScanHolds, WritersHold, StagedHolds, RangesHold, Present, Holding, Intact,
         Unspoiled
<1>3. QED
  BY <1>1, <1>2 DEF RepairInv

\* Every step keeps the invariant.
LEMMA NextInv ==
  ASSUME ~Reuse
  PROVE  RepairInv /\ [Next]_vars => RepairInv'
<1> SUFFICES ASSUME RepairInv, [Next]_vars PROVE RepairInv'
  OBVIOUS
<1>1. CASE LoadFileData \/ BeginRepair \/ PreserveShards
  BY <1>1, LoadInv, BeginInv, PreserveInv
<1>2. ASSUME NEW f \in Files,
             OpenPatch(f) \/ OpenWrite(f) \/ OpenFails(f) \/ CopyShard(f) \/ CopyFails(f)
             \/ Register(f) \/ WriteRow(f) \/ Commit(f)
      PROVE  RepairInv'
  BY <1>2, OpenPatchInv, OpenWriteInv, OpenFailsInv, CopyShardInv, CopyFailsInv, RegisterInv,
     WriteRowInv, CommitInv
<1>3. CASE EndCopy \/ Fold \/ EndWrite \/ CloseReaders \/ EndCommit
  BY <1>3, EndCopyInv, FoldInv, EndWriteInv, CloseReadersInv, EndCommitInv
<1>4. CASE CheckWritten \/ VerifyParity
  BY <1>4, CheckInv, VerifyInv
<1>5. CASE Crash
  BY <1>5, FaultType, ForgetInv DEF Crash, RepairInv, TypeOK
<1>6. CASE NewDecoder
  BY <1>6, ForgetInv DEF NewDecoder, RepairInv, TypeOK
<1>7. CASE Stopped \/ UNCHANGED vars
  BY <1>7, StutterInv DEF Stopped
<1>8. QED
  BY <1>1, <1>2, <1>3, <1>4, <1>5, <1>6, <1>7 DEF Next, Step

-----------------------------------------------------------------------------
\* The inductive invariant of a Decoder used once, under every kind of fault: the
\* scan stays true until the first rename, and every staged file holds the protected
\* content of what was copied and rebuilt so far in the slots no write has spoiled.
THEOREM RepairInvariance ==
  ASSUME ~Reuse
  PROVE  Spec => []RepairInv
<1>1. Init => RepairInv
  BY InitInv
<1>2. RepairInv /\ [Next]_vars => RepairInv'
  BY NextInv
<1>3. QED
  BY <1>1, <1>2, PTL DEF Spec

\* Type correctness of the repair, for every set size and every fault bound.
THEOREM TypeCorrect ==
  ASSUME ~Reuse
  PROVE  Spec => []TypeOK
<1>1. RepairInv => TypeOK
  BY DEF RepairInv
<1>2. QED
  BY <1>1, RepairInvariance, PTL

\* Whatever fails and wherever the process dies, Repair replaces a protected
\* file by nothing but its complete original content (Decoder.Repair,
\* tempCommitCloser).
THEOREM OnlyPristineReplaces ==
  ASSUME "silent" \notin Faults, ~Reuse
  PROVE  Spec => ReplacedOnlyByPristine
<1>1. RepairInv /\ [Next]_vars =>
        [\A f \in Files : disk'[f] # disk[f] => disk'[f] = Pristine(f)]_vars
  <2> SUFFICES ASSUME RepairInv, Next, NEW f \in Files, disk'[f] # disk[f]
               PROVE  disk'[f] = Pristine(f)
    BY DEF ReplacedOnlyByPristine
  <2>1. PICK g \in Files : Commit(g)
    BY DEF Next, Step, Crash, NewDecoder, Stopped, Forget, LoadFileData, BeginRepair,
           PreserveShards, OpenPatch, OpenWrite, OpenFails, CopyShard, CopyFails, Register,
           EndCopy, Fold, WriteRow, EndWrite, CloseReaders, EndCommit, CheckWritten,
           VerifyParity, vars
  <2>2. f = g /\ disk'[g] = tmp[g]
    BY <2>1 DEF Commit, RepairInv, TypeOK
  <2>3. QED
    BY <2>1, <2>2, OpenWriterIsWhole DEF Commit
<1>2. QED
  BY <1>1, RepairInvariance, PTL DEF Spec, ReplacedOnlyByPristine

-----------------------------------------------------------------------------
\* The part of type correctness the argument needs.
ShapeHolds ==
  /\ tmp = [f \in Files |-> tmp[f]] /\ disk = [f \in Files |-> disk[f]]
  /\ writer \in [Files -> {"none", "waiting", "copying", "open", "shut"}]
  /\ todo \in [Files -> SUBSET Slots]

\* No reader is open at the renames, and only staging and writing have work left.
QuietHolds ==
  /\ phase = "commit" => cache = NoCache
  /\ phase \notin {"copy", "write"} => todo = NoTodo
  /\ phase = "copy" => \A f \in Files : writer[f] # "copying" => todo[f] = {}

\* Who still has a writer at each stage.
StagesHold ==
  /\ phase \in {"new", "scanned", "check", "parity", "done"} =>
       \A f \in Files : writer[f] \in {"none", "shut"}
  /\ phase = "done" => \A f \in Files : writer[f] = "none"
  /\ phase = "preserve" => \A f \in Files : writer[f] \in {"none", "waiting"}
  /\ phase = "copy" => \A f \in Files : writer[f] # "shut"
  /\ phase \in {"fold", "write", "close", "commit"} =>
       \A f \in Files : writer[f] \in {"none", "open", "shut"}
  /\ phase \in {"preserve", "copy"} =>
       \A f \in Files \ wasOK : writer[f] = "none" => f \in errs
  /\ phase \in {"fold", "write"} => \A f \in Files \ wasOK : writer[f] = "open"
  /\ phase \in {"close", "commit"} => \A f \in Files \ wasOK : writer[f] \in {"open", "shut"}
  /\ phase \in {"check", "parity"} => \A f \in Files \ wasOK : writer[f] = "shut"

\* A slice in place is present, so nothing of an intact file is rebuilt.
InPlaceHolds ==
  /\ inPlace \subseteq Shards /\ \A s \in inPlace : found[s] # Nowhere
  /\ phase \in {"preserve", "copy", "fold", "write"} =>
       \A f \in wasOK, j \in Slots : <<f, j>> \in inPlace
  /\ phase = "write" => \A f \in wasOK \cap Files : todo[f] = {}

\* Before the first crash a temporary file has a writer, or a goroutine about to
\* register one; a published one is gone for good.
OwnedHolds ==
  /\ ~crashed => \A f \in Files : tmp[f] # NoFile => writer[f] \in {"copying", "open"}
  /\ \A f \in Files : writer[f] = "shut" => tmp[f] = NoFile

QuietInv == ShapeHolds /\ QuietHolds /\ StagesHold /\ InPlaceHolds /\ OwnedHolds

\* f is intact on disk, as a scan would find it.
Whole(f) == /\ disk[f] # NoFile /\ RightSize(disk[f])
            /\ \A j \in Slots : disk[f][j] = Orig[<<f, j>>]

\* What a crash leaves behind belongs to a file the next scan finds damaged, so
\* the repair that succeeds stages that file again and publishes it.
LeftoversHold ==
  /\ \A f \in Files : tmp[f] # NoFile => ~Whole(f)
  /\ phase = "scanned" => \A f \in Files : OK(f) <=> Whole(f)
  /\ phase \in {"preserve", "copy", "fold", "write", "close", "commit", "check", "parity"} =>
       \A f \in Files : f \in wasOK => Whole(f) /\ writer[f] = "none"
  /\ \A f \in Files : writer[f] \in {"waiting", "copying", "open"} => ~Whole(f)
  /\ outcome = "ok" => phase = "done" /\ \A f \in Files : tmp[f] = NoFile

-----------------------------------------------------------------------------
\* A new decoder: nothing is staged.
LEMMA InitQuiet == Init => QuietInv
<1> SUFFICES ASSUME Init PROVE QuietInv
  OBVIOUS
<1>1. ShapeHolds
  BY DEF Init, ShapeHolds, NoCache, NoTodo
<1>2. QuietHolds /\ StagesHold
  BY DEF Init, QuietHolds, StagesHold
<1>3. InPlaceHolds /\ OwnedHolds
  BY DEF Init, InPlaceHolds, OwnedHolds, NoCache
<1>4. QED
  BY <1>1, <1>2, <1>3 DEF QuietInv

\* Leaving Repair discards whatever still has a writer (closeAll).
LEMMA ReturnQuiet ==
  ASSUME QuietInv, NEW r, Return(r), phase \in {"preserve", "fold", "write", "commit", "check",
                                                "parity"}
            \/ (phase = "copy" /\ \A f \in Files : writer[f] \in {"none", "open"}),
         crashed' = crashed, disk' = disk,
         inPlace' \subseteq Shards, \A s \in inPlace' : found'[s] # Nowhere
  PROVE  QuietInv'
<1> USE DEF Return
<1>1. ShapeHolds'
  BY DEF QuietInv, ShapeHolds, NoTodo
<1>2. QuietHolds' /\ StagesHold'
  BY DEF QuietHolds, StagesHold, NoTodo
<1>3. InPlaceHolds'
  BY DEF InPlaceHolds
<1>4. OwnedHolds'
  BY DEF QuietInv, ShapeHolds, StagesHold, OwnedHolds
<1>5. QED
  BY <1>1, <1>2, <1>3, <1>4 DEF QuietInv

\* A scan records a location for every slice it finds in place.
LEMMA LoadQuiet == ASSUME QuietInv, LoadFileData PROVE QuietInv'
<1> USE DEF LoadFileData
<1>1. ShapeHolds' /\ QuietHolds' /\ StagesHold' /\ OwnedHolds'
  BY DEF QuietInv, ShapeHolds, QuietHolds, StagesHold, OwnedHolds
<1>2. InPlaceHolds'
  <2> SUFFICES ASSUME NEW s \in inPlace' PROVE found'[s] # Nowhere
    BY DEF QuietInv, InPlaceHolds
  <2>1. s \in Shards /\ s \in Holding(disk, Orig[s])
    OBVIOUS
  <2>2. PICK at \in [Content -> Loc \cup {Nowhere}] :
          /\ \A c \in Content : IF Holding(disk, c) = {} THEN at[c] = Nowhere
                                                         ELSE at[c] \in Holding(disk, c)
          /\ found' = [x \in Shards |-> at[Orig[x]]]
    OBVIOUS
  <2>3. at[Orig[s]] \in Loc
    BY <2>1, <2>2 DEF Holding
  <2>4. QED
    BY <2>1, <2>2, <2>3
<1>3. QED
  BY <1>1, <1>2 DEF QuietInv

\* A call starts with every file to rewrite waiting for its writer.
LEMMA BeginQuiet == ASSUME QuietInv, BeginRepair PROVE QuietInv'
<1> USE DEF BeginRepair
<1>1. ShapeHolds' /\ QuietHolds'
  BY DEF QuietInv, ShapeHolds, QuietHolds
<1>2. StagesHold'
  BY DEF QuietInv, StagesHold
<1>3. InPlaceHolds'
  BY DEF QuietInv, InPlaceHolds, OK
<1>4. OwnedHolds'
  BY DEF QuietInv, StagesHold, OwnedHolds
<1>5. QED
  BY <1>1, <1>2, <1>3, <1>4 DEF QuietInv

\* Preserving shards stages nothing.
LEMMA PreserveQuiet == ASSUME QuietInv, PreserveShards PROVE QuietInv'
<1>1. CASE Return("failed")
  BY <1>1, ReturnQuiet DEF PreserveShards, QuietInv, InPlaceHolds
<1>2. CASE phase' = "copy" /\ UNCHANGED <<tmp, writer, todo, outcome, faults>>
  <2>1. ShapeHolds' /\ QuietHolds' /\ StagesHold' /\ InPlaceHolds' /\ OwnedHolds'
    BY <1>2 DEF PreserveShards, QuietInv, ShapeHolds, QuietHolds, NoTodo, StagesHold,
                InPlaceHolds, OwnedHolds
  <2>2. QED
    BY <2>1 DEF QuietInv
<1>3. QED
  BY <1>1, <1>2 DEF PreserveShards

\* A staging goroutine opens its writer, clone or not, or fails and leaves none.
LEMMA OpenQuiet ==
  ASSUME QuietInv, NEW f \in Files, OpenPatch(f) \/ OpenWrite(f) \/ OpenFails(f)
  PROVE  QuietInv'
<1>1. phase = "copy" /\ writer[f] = "waiting" /\ phase' = phase
      /\ UNCHANGED <<disk, scanVars, callVars, cache, crashed>>
  BY DEF OpenPatch, OpenWrite, OpenFails, Admitted
<1>2. \/ /\ \E t : tmp' = [tmp EXCEPT ![f] = t]
         /\ writer' = [writer EXCEPT ![f] = "copying"]
         /\ \E d \in SUBSET Slots : todo' = [todo EXCEPT ![f] = d]
         /\ errs' = errs
      \/ /\ \E t \in {tmp[f], NoFile} : tmp' = [tmp EXCEPT ![f] = t]
         /\ writer' = [writer EXCEPT ![f] = "none"]
         /\ todo' = todo /\ errs' = errs \cup {f}
  BY DEF OpenPatch, OpenWrite, OpenFails, Moved, Present
<1>3. ShapeHolds'
  BY <1>1, <1>2 DEF QuietInv, ShapeHolds
<1>4. QuietHolds'
  BY <1>1, <1>2 DEF QuietInv, ShapeHolds, QuietHolds
<1>5. StagesHold'
  BY <1>1, <1>2 DEF QuietInv, ShapeHolds, StagesHold
<1>6. InPlaceHolds'
  BY <1>1 DEF QuietInv, InPlaceHolds
<1>7. OwnedHolds'
  BY <1>1, <1>2 DEF QuietInv, ShapeHolds, OwnedHolds
<1>8. QED
  BY <1>3, <1>4, <1>5, <1>6, <1>7 DEF QuietInv

\* Copying a slice, failing to, or handing the finished writer over.
LEMMA CopyQuiet ==
  ASSUME QuietInv, NEW f \in Files, CopyShard(f) \/ CopyFails(f) \/ Register(f)
  PROVE  QuietInv'
<1>1. phase = "copy" /\ writer[f] = "copying" /\ phase' = phase
      /\ UNCHANGED <<disk, scanVars, callVars, crashed>>
  BY DEF CopyShard, CopyFails, Register
<1>2. \/ /\ \E j \in Slots : \E c : tmp' = [tmp EXCEPT ![f][j] = c]
         /\ \E j \in Slots : todo' = [todo EXCEPT ![f] = @ \ {j}]
         /\ UNCHANGED <<writer, errs>>
      \/ /\ tmp' = [tmp EXCEPT ![f] = NoFile] /\ writer' = [writer EXCEPT ![f] = "none"]
         /\ todo' = [todo EXCEPT ![f] = {}] /\ errs' = errs \cup {f}
      \/ /\ todo[f] = {} /\ writer' = [writer EXCEPT ![f] = "open"]
         /\ UNCHANGED <<tmp, todo, errs>>
  BY DEF CopyShard, CopyFails, Register
<1>3. ShapeHolds'
  BY <1>1, <1>2 DEF QuietInv, ShapeHolds
<1>4. QuietHolds'
  BY <1>1, <1>2 DEF QuietInv, ShapeHolds, QuietHolds
<1>5. StagesHold'
  BY <1>1, <1>2 DEF QuietInv, ShapeHolds, StagesHold
<1>6. InPlaceHolds'
  BY <1>1 DEF QuietInv, InPlaceHolds
<1>7. OwnedHolds'
  BY <1>1, <1>2 DEF QuietInv, ShapeHolds, OwnedHolds
<1>8. QED
  BY <1>3, <1>4, <1>5, <1>6, <1>7 DEF QuietInv

\* The barrier after the copies: a file whose goroutine failed ends the repair.
LEMMA EndCopyQuiet == ASSUME QuietInv, EndCopy PROVE QuietInv'
<1>1. CASE errs # {}
  BY <1>1, ReturnQuiet DEF EndCopy, QuietInv, InPlaceHolds
<1>2. CASE errs = {}
  <2>1. ShapeHolds' /\ OwnedHolds' /\ InPlaceHolds'
    BY <1>2 DEF EndCopy, QuietInv, ShapeHolds, OwnedHolds, InPlaceHolds
  <2>2. todo = NoTodo
    BY <1>2 DEF EndCopy, QuietInv, ShapeHolds, QuietHolds, NoTodo
  <2>3. QuietHolds' /\ StagesHold'
    BY <1>2, <2>2 DEF EndCopy, QuietInv, QuietHolds, StagesHold
  <2>4. QED
    BY <2>1, <2>3 DEF QuietInv
<1>3. QED
  BY <1>1, <1>2

\* Reconstruction, and what it leaves to write.
LEMMA FoldQuiet == ASSUME QuietInv, Fold PROVE QuietInv'
<1>1. CASE Return("failed")
  BY <1>1, ReturnQuiet DEF Fold, QuietInv, InPlaceHolds
<1>2. CASE /\ phase' \in {"close", "write"} /\ UNCHANGED <<tmp, writer>>
           /\ phase' = "close" => todo' = todo
           /\ phase' = "write" => todo' = [f \in Files |-> {j \in Slots : <<f, j>> \in Unpresent}]
  <2>1. ShapeHolds' /\ OwnedHolds'
    <3>1. UNCHANGED <<disk, crashed>>
      BY DEF Fold
    <3>2. todo' \in [Files -> SUBSET Slots]
      <4>1. CASE phase' = "close"
        BY <1>2, <4>1 DEF QuietInv, ShapeHolds
      <4>2. CASE phase' = "write"
        BY <1>2, <4>2
      <4>3. QED
        BY <1>2, <4>1, <4>2
    <3>3. QED
      BY <1>2, <3>1, <3>2 DEF QuietInv, ShapeHolds, OwnedHolds
  <2>2. QuietHolds'
    BY <1>2 DEF Fold, QuietInv, QuietHolds
  <2>3. InPlaceHolds'
    BY <1>2 DEF Fold, QuietInv, InPlaceHolds, Unpresent
  <2>4. StagesHold'
    BY <1>2 DEF Fold, QuietInv, StagesHold
  <2>5. QED
    BY <2>1, <2>2, <2>3, <2>4 DEF QuietInv
<1>3. QED
  BY <1>1, <1>2 DEF Fold

\* Only a file that was not intact has rows to write, and those have a writer.
\* The disk does not change.
LEMMA WriteQuiet == ASSUME QuietInv, NEW f \in Files, WriteRow(f) PROVE QuietInv'
<1>1. phase = "write" /\ phase' = phase
      /\ UNCHANGED <<disk, scanVars, callVars, cache, writer, crashed>>
  BY DEF WriteRow
<1>2. /\ \/ tmp' = tmp
         \/ \E j \in Slots : \E c : tmp' = [tmp EXCEPT ![f][j] = c]
      /\ \/ \E j \in Slots : todo' = [todo EXCEPT ![f] = @ \ {j}]
         \/ todo' = [todo EXCEPT ![f] = {}]
  BY DEF WriteRow
<1>3. writer[f] = "open"
  BY DEF WriteRow, First, QuietInv, StagesHold, InPlaceHolds
<1>4. ShapeHolds'
  BY <1>1, <1>2 DEF QuietInv, ShapeHolds
<1>5. QuietHolds' /\ StagesHold'
  BY <1>1, <1>2 DEF QuietInv, ShapeHolds, QuietHolds, StagesHold
<1>6. InPlaceHolds'
  BY <1>1, <1>2 DEF QuietInv, ShapeHolds, InPlaceHolds
<1>7. OwnedHolds'
  BY <1>1, <1>2, <1>3 DEF QuietInv, ShapeHolds, OwnedHolds
<1>8. QED
  BY <1>4, <1>5, <1>6, <1>7 DEF QuietInv

\* The barrier after the writes of a byte range.
LEMMA EndWriteQuiet == ASSUME QuietInv, EndWrite PROVE QuietInv'
<1>1. CASE errs # {}
  BY <1>1, ReturnQuiet DEF EndWrite, QuietInv, InPlaceHolds
<1>2. CASE errs = {}
  <2>1. ShapeHolds' /\ OwnedHolds' /\ InPlaceHolds'
    BY <1>2 DEF EndWrite, QuietInv, ShapeHolds, OwnedHolds, InPlaceHolds
  <2>2. QuietHolds' /\ StagesHold'
    BY <1>2 DEF EndWrite, QuietInv, QuietHolds, StagesHold
  <2>3. QED
    BY <2>1, <2>2 DEF QuietInv
<1>3. QED
  BY <1>1, <1>2

\* Every reader is closed before the first rename.
LEMMA CloseQuiet == ASSUME QuietInv, CloseReaders PROVE QuietInv'
<1>1. ShapeHolds' /\ OwnedHolds' /\ InPlaceHolds'
  BY DEF CloseReaders, QuietInv, ShapeHolds, OwnedHolds, InPlaceHolds
<1>2. QuietHolds' /\ StagesHold'
  BY DEF CloseReaders, QuietInv, QuietHolds, StagesHold
<1>3. QED
  BY <1>1, <1>2 DEF QuietInv

\* A rename takes the temporary file away, whether it succeeds or not.
LEMMA CommitQuiet == ASSUME QuietInv, NEW f \in Files, Commit(f) PROVE QuietInv'
<1>1. ShapeHolds'
  BY DEF Commit, QuietInv, ShapeHolds
<1>2. QuietHolds' /\ InPlaceHolds'
  BY DEF Commit, QuietInv, QuietHolds, InPlaceHolds
<1>3. StagesHold'
  BY DEF Commit, QuietInv, ShapeHolds, StagesHold
<1>4. OwnedHolds'
  BY DEF Commit, QuietInv, ShapeHolds, OwnedHolds
<1>5. QED
  BY <1>1, <1>2, <1>3, <1>4 DEF QuietInv

\* The barrier after the renames: nothing staged is left to publish.
LEMMA EndCommitQuiet == ASSUME QuietInv, EndCommit PROVE QuietInv'
<1>1. CASE errs # {}
  BY <1>1, ReturnQuiet DEF EndCommit, QuietInv, InPlaceHolds
<1>2. CASE errs = {}
  <2>1. ShapeHolds' /\ OwnedHolds' /\ InPlaceHolds'
    BY <1>2 DEF EndCommit, QuietInv, ShapeHolds, OwnedHolds, InPlaceHolds
  <2>2. QuietHolds'
    BY <1>2 DEF EndCommit, QuietInv, QuietHolds
  <2>3. StagesHold'
    BY <1>2 DEF EndCommit, QuietInv, ShapeHolds, StagesHold
  <2>4. QED
    BY <2>1, <2>2, <2>3 DEF QuietInv
<1>3. QED
  BY <1>1, <1>2

\* What a check of written files does to the infos, and how it ends.
LEMMA CheckEffect ==
  ASSUME CheckWritten
  PROVE  /\ phase = "check"
         /\ repaired' \subseteq Rewritten
         /\ found' = [s \in Shards |-> IF s[1] \in repaired' THEN s ELSE found[s]]
         /\ inPlace' = inPlace \cup {s \in Shards : s[1] \in repaired'}
         /\ UNCHANGED <<disk, callVars, errs, crashed>>
         /\ \/ Return("failed") \/ Return("ok")
            \/ phase' = "parity" /\ UNCHANGED <<tmp, writer, todo, cache, outcome>>
  BY DEF CheckWritten, Report

\* The files read back are in place.
LEMMA CheckQuiet == ASSUME QuietInv, CheckWritten PROVE QuietInv'
<1>1. inPlace' \subseteq Shards /\ \A s \in inPlace' : found'[s] # Nowhere
  <2> SUFFICES ASSUME NEW s \in inPlace' PROVE found'[s] # Nowhere
    BY CheckEffect DEF QuietInv, InPlaceHolds
  <2>1. Shards \subseteq Loc
    BY DEF Shards, Loc, Slots, Pos
  <2>2. CASE s \in Shards /\ s[1] \in repaired'
    BY <2>1, <2>2, CheckEffect
  <2>3. CASE s \in inPlace /\ ~(s \in Shards /\ s[1] \in repaired')
    BY <2>3, CheckEffect DEF QuietInv, InPlaceHolds
  <2>4. QED
    BY <2>2, <2>3, CheckEffect
<1>2. CASE Return("failed") \/ Return("ok")
  BY <1>1, <1>2, CheckEffect, ReturnQuiet
<1>3. CASE phase' = "parity" /\ UNCHANGED <<tmp, writer, todo, cache, outcome>>
  <2>1. ShapeHolds' /\ OwnedHolds'
    BY <1>3, CheckEffect DEF QuietInv, ShapeHolds, OwnedHolds
  <2>2. QuietHolds' /\ InPlaceHolds'
    BY <1>1, <1>3, CheckEffect DEF QuietInv, QuietHolds, InPlaceHolds
  <2>3. StagesHold'
    BY <1>3, CheckEffect DEF QuietInv, StagesHold
  <2>4. QED
    BY <2>1, <2>2, <2>3 DEF QuietInv
<1>4. QED
  BY <1>2, <1>3, CheckEffect

\* The double check stages nothing.
LEMMA VerifyQuiet == ASSUME QuietInv, VerifyParity PROVE QuietInv'
<1>1. /\ phase = "parity" /\ \E r : Return(r)
      /\ UNCHANGED <<disk, scanVars, crashed>>
  BY DEF VerifyParity
<1>2. QED
  BY <1>1, ReturnQuiet DEF QuietInv, InPlaceHolds

\* A new process has no writers; what a crash left staged is nobody's any more.
LEMMA ForgetQuiet ==
  ASSUME QuietInv, Forget, crashed' = TRUE \/ (crashed' = crashed /\ phase = "done")
  PROVE  QuietInv'
<1>1. ShapeHolds'
  BY DEF Forget, QuietInv, ShapeHolds, NoTodo
<1>2. QuietHolds' /\ StagesHold' /\ InPlaceHolds'
  BY DEF Forget, QuietHolds, StagesHold, InPlaceHolds
<1>3. OwnedHolds'
  BY DEF Forget, QuietInv, StagesHold, OwnedHolds
<1>4. QED
  BY <1>1, <1>2, <1>3 DEF QuietInv

\* A step that changes nothing.
LEMMA StutterQuiet == ASSUME QuietInv, UNCHANGED vars PROVE QuietInv'
<1>1. ShapeHolds' /\ OwnedHolds' /\ InPlaceHolds'
  BY DEF vars, QuietInv, ShapeHolds, OwnedHolds, InPlaceHolds
<1>2. QuietHolds' /\ StagesHold'
  BY DEF vars, QuietInv, QuietHolds, StagesHold
<1>3. QED
  BY <1>1, <1>2 DEF QuietInv

\* Every step keeps the invariant, used again or not, whatever the faults.
LEMMA NextQuiet == QuietInv /\ [Next]_vars => QuietInv'
<1> SUFFICES ASSUME QuietInv, [Next]_vars PROVE QuietInv'
  OBVIOUS
<1>1. CASE LoadFileData \/ BeginRepair \/ PreserveShards
  BY <1>1, LoadQuiet, BeginQuiet, PreserveQuiet
<1>2. ASSUME NEW f \in Files,
             OpenPatch(f) \/ OpenWrite(f) \/ OpenFails(f) \/ CopyShard(f) \/ CopyFails(f)
             \/ Register(f) \/ WriteRow(f) \/ Commit(f)
      PROVE  QuietInv'
  BY <1>2, OpenQuiet, CopyQuiet, WriteQuiet, CommitQuiet
<1>3. CASE EndCopy \/ Fold \/ EndWrite \/ CloseReaders \/ EndCommit
  BY <1>3, EndCopyQuiet, FoldQuiet, EndWriteQuiet, CloseQuiet, EndCommitQuiet
<1>4. CASE CheckWritten \/ VerifyParity
  BY <1>4, CheckQuiet, VerifyQuiet
<1>5. CASE Crash \/ NewDecoder
  BY <1>5, ForgetQuiet DEF Crash, NewDecoder
<1>6. CASE Stopped \/ UNCHANGED vars
  BY <1>6, StutterQuiet DEF Stopped
<1>7. QED
  BY <1>1, <1>2, <1>3, <1>4, <1>5, <1>6 DEF Next, Step

\* The invariant of every run of every decoder: who has a writer, a reader and
\* work left at each stage of Repair.
THEOREM QuietInvariance == Spec => []QuietInv
<1>1. Init => QuietInv
  BY InitQuiet
<1>2. QED
  BY <1>1, NextQuiet, PTL DEF Spec

\* The disk changes in no step but a rename (tempCommitCloser).
LEMMA OnlyCommitPublishes ==
  ASSUME Next, disk' # disk
  PROVE  \E f \in Files : Commit(f)
  BY DEF Next, Step, Crash, NewDecoder, Stopped, Forget, LoadFileData, BeginRepair,
         PreserveShards, OpenPatch, OpenWrite, OpenFails, CopyShard, CopyFails, Register,
         EndCopy, Fold, WriteRow, EndWrite, CloseReaders, EndCommit, CheckWritten,
         VerifyParity, vars

\* Files are renamed with no reader open and no goroutine staging, for every
\* decoder, used again or not, and whatever fails (cache.Close before closeFn).
THEOREM RenamesAreQuiet == Spec => CommitIsQuiet
<1>1. QuietInv /\ [Next]_vars =>
        [disk' # disk => /\ cache = NoCache
                         /\ \A f \in Files : todo[f] = {} /\ writer[f] # "copying"]_vars
  <2> SUFFICES ASSUME QuietInv, Next, disk' # disk
               PROVE  cache = NoCache /\ \A f \in Files : todo[f] = {} /\ writer[f] # "copying"
    OBVIOUS
  <2>1. phase = "commit"
    BY OnlyCommitPublishes DEF Commit
  <2>2. QED
    BY <2>1 DEF QuietInv, QuietHolds, StagesHold, NoTodo
<1>2. QED
  BY <1>1, QuietInvariance, PTL DEF Spec, CommitIsQuiet

-----------------------------------------------------------------------------
\* A new decoder over an untouched set.
LEMMA InitLeft == Init => LeftoversHold
  BY DEF Init, LeftoversHold, NoCache

\* Leaving Repair: when all is well every file was intact or has been published.
LEMMA ReturnLeft ==
  ASSUME QuietInv, LeftoversHold, NEW r, Return(r), disk' = disk,
         phase \in {"check", "parity"} \/ r # "ok"
  PROVE  LeftoversHold'
<1>1. \A f \in Files : Whole(f)' <=> Whole(f)
  BY DEF Whole
<1>2. \A f \in Files : tmp'[f] # NoFile => tmp[f] # NoFile
  BY DEF Return
<1>3. ASSUME r = "ok", NEW f \in Files PROVE tmp'[f] = NoFile
  <2>1. CASE f \in wasOK
    BY <1>2, <1>3, <2>1 DEF LeftoversHold
  <2>2. CASE f \notin wasOK
    BY <1>2, <1>3, <2>2 DEF QuietInv, StagesHold, OwnedHolds
  <2>3. QED
    BY <2>1, <2>2
<1>4. QED
  BY <1>1, <1>2, <1>3 DEF Return, LeftoversHold

\* A scan finds a file intact exactly when it is (fileIntegrityInfo.ok).
LEMMA LoadLeft == ASSUME QuietInv, LeftoversHold, LoadFileData PROVE LeftoversHold'
<1>1. disk' = disk /\ UNCHANGED <<tmp, writer, outcome>> /\ phase = "new" /\ phase' = "scanned"
      /\ inPlace' = {s \in Shards : s \in Holding(disk, Orig[s])}
      /\ missing' = {f \in Files : disk[f] = NoFile}
      /\ wrongSize' = {f \in Files : disk[f] # NoFile /\ ~RightSize(disk[f])}
  BY DEF LoadFileData
<1>2. ASSUME NEW f \in Files PROVE OK(f)' <=> Whole(f)'
  <2>1. ASSUME NEW j \in Slots, disk[f] # NoFile
        PROVE  <<f, j>> \in inPlace' <=> disk[f][j] = Orig[<<f, j>>]
    <3>1. <<f, j>> \in Shards /\ <<f, j>> \in Loc
      BY DEF Shards, Loc, Slots, Pos
    <3>2. QED
      BY <1>1, <2>1, <3>1 DEF Holding
  <2>2. QED
    BY <1>1, <2>1 DEF OK, Whole
<1>3. \A f \in Files : Whole(f)' <=> Whole(f)
  BY <1>1 DEF Whole
<1>4. QED
  BY <1>1, <1>2, <1>3 DEF LeftoversHold

\* Used once, a decoder still has the infos of its scan when Repair begins.
LEMMA BeginLeft == ASSUME ~Reuse, QuietInv, LeftoversHold, BeginRepair PROVE LeftoversHold'
<1>1. phase = "scanned" /\ phase' = "preserve" /\ disk' = disk /\ tmp' = tmp
      /\ wasOK' = {f \in Files : OK(f)} /\ outcome' = "none"
      /\ writer' = [f \in Files |-> IF OK(f) THEN "none" ELSE "waiting"]
  BY DEF BeginRepair
<1>2. \A f \in Files : Whole(f)' <=> Whole(f)
  BY <1>1 DEF Whole
<1>3. QED
  BY <1>1, <1>2 DEF LeftoversHold

\* A step of a call that changes no file: it stages only files that are not
\* intact, and the others stay without a writer.
LEMMA StageLeft ==
  ASSUME LeftoversHold, disk' = disk, wasOK' = wasOK, outcome' = outcome, phase # "done",
         phase' # "scanned",
         phase \in {"preserve", "copy", "fold", "write", "close", "commit", "check", "parity"},
         \A f \in Files : /\ tmp'[f] = tmp[f] \/ writer[f] \in {"waiting", "copying", "open"}
                                              \/ tmp'[f] = NoFile
                          /\ writer'[f] = writer[f]
                               \/ writer[f] \in {"waiting", "copying", "open"}
  PROVE  LeftoversHold'
<1>1. \A f \in Files : Whole(f)' <=> Whole(f)
  BY DEF Whole
<1>2. QED
  BY <1>1 DEF LeftoversHold

\* Preserving shards stages nothing.
LEMMA PreserveLeft == ASSUME QuietInv, LeftoversHold, PreserveShards PROVE LeftoversHold'
<1>1. CASE Return("failed")
  BY <1>1, ReturnLeft DEF PreserveShards
<1>2. CASE phase' = "copy" /\ UNCHANGED <<tmp, writer, todo, outcome, faults>>
  BY <1>2, StageLeft DEF PreserveShards
<1>3. QED
  BY <1>1, <1>2 DEF PreserveShards

\* Staging and copying touch only the temporary file of a file to rewrite.
LEMMA CopyLeft ==
  ASSUME QuietInv, LeftoversHold, NEW f \in Files,
         OpenPatch(f) \/ OpenWrite(f) \/ OpenFails(f) \/ CopyShard(f) \/ CopyFails(f)
         \/ Register(f)
  PROVE  LeftoversHold'
<1>1. /\ phase = "copy" /\ phase' = phase /\ UNCHANGED <<disk, wasOK, outcome>>
      /\ writer[f] \in {"waiting", "copying"}
  BY DEF OpenPatch, OpenWrite, OpenFails, CopyShard, CopyFails, Register, Admitted
<1>2. /\ tmp' = tmp \/ (\E t : tmp' = [tmp EXCEPT ![f] = t])
                    \/ \E j \in Slots : \E c : tmp' = [tmp EXCEPT ![f][j] = c]
      /\ writer' = writer \/ \E w : writer' = [writer EXCEPT ![f] = w]
  BY DEF OpenPatch, OpenWrite, OpenFails, CopyShard, CopyFails, Register
<1>3. \A g \in Files : g # f => tmp'[g] = tmp[g] /\ writer'[g] = writer[g]
  BY <1>2 DEF QuietInv, ShapeHolds
<1>4. QED
  BY <1>1, <1>3, StageLeft

\* Rows are written into staged files only.
LEMMA WriteLeft == ASSUME QuietInv, LeftoversHold, NEW f \in Files, WriteRow(f) PROVE LeftoversHold'
<1>1. /\ phase = "write" /\ phase' = phase /\ UNCHANGED <<disk, wasOK, outcome, writer>>
      /\ writer[f] = "open"
  BY DEF WriteRow, First, QuietInv, StagesHold, InPlaceHolds
<1>2. tmp' = tmp \/ \E j \in Slots : \E c : tmp' = [tmp EXCEPT ![f][j] = c]
  BY DEF WriteRow
<1>3. \A g \in Files : g # f => tmp'[g] = tmp[g]
  BY <1>2 DEF QuietInv, ShapeHolds
<1>4. QED
  BY <1>1, <1>3, StageLeft

\* The barriers, the reconstruction and the checks stage nothing.
LEMMA BarrierLeft ==
  ASSUME QuietInv, LeftoversHold, EndCopy \/ Fold \/ EndWrite \/ CloseReaders \/ EndCommit
  PROVE  LeftoversHold'
<1>1. /\ phase \in {"copy", "fold", "write", "close", "commit"}
      /\ UNCHANGED <<disk, wasOK>>
      /\ \/ Return("failed")
         \/ /\ phase' \in {"fold", "write", "close", "commit", "check"}
            /\ UNCHANGED <<tmp, writer, outcome>>
  <2>1. CASE EndCopy
    BY <2>1 DEF EndCopy
  <2>2. CASE Fold
    BY <2>2 DEF Fold
  <2>3. CASE EndWrite
    BY <2>3 DEF EndWrite
  <2>4. CASE CloseReaders \/ EndCommit
    BY <2>4 DEF CloseReaders, EndCommit
  <2>5. QED
    BY <2>1, <2>2, <2>3, <2>4
<1>2. CASE Return("failed")
  BY <1>1, <1>2, ReturnLeft
<1>3. CASE ~Return("failed")
  BY <1>1, <1>3, StageLeft
<1>4. QED
  BY <1>2, <1>3

\* A published file has no temporary sibling, and no other file changes.
LEMMA CommitLeft == ASSUME QuietInv, LeftoversHold, NEW f \in Files, Commit(f) PROVE LeftoversHold'
<1>1. /\ phase = "commit" /\ phase' = phase /\ writer[f] = "open" /\ UNCHANGED <<wasOK, outcome>>
      /\ tmp'[f] = NoFile /\ writer'[f] = "shut"
  BY DEF Commit, QuietInv, ShapeHolds
<1>2. ASSUME NEW g \in Files, g # f
      PROVE  tmp'[g] = tmp[g] /\ writer'[g] = writer[g] /\ (Whole(g)' <=> Whole(g))
  <2>1. tmp'[g] = tmp[g] /\ writer'[g] = writer[g] /\ disk'[g] = disk[g]
    BY <1>2 DEF Commit, QuietInv, ShapeHolds
  <2>2. QED
    BY <2>1 DEF Whole
<1>3. f \notin wasOK
  BY <1>1 DEF LeftoversHold
<1>4. QED
  BY <1>1, <1>2, <1>3 DEF LeftoversHold

\* The checks that follow change no file.
LEMMA CheckLeft ==
  ASSUME QuietInv, LeftoversHold, CheckWritten \/ VerifyParity
  PROVE  LeftoversHold'
<1>1. /\ phase \in {"check", "parity"} /\ UNCHANGED <<disk, wasOK>>
      /\ (\E r : Return(r)) \/ (phase' = "parity" /\ UNCHANGED <<tmp, writer, todo, cache, outcome>>)
  BY CheckEffect DEF VerifyParity
<1>2. CASE \E r : Return(r)
  BY <1>1, <1>2, ReturnLeft
<1>3. CASE phase' = "parity" /\ UNCHANGED <<tmp, writer, todo, cache, outcome>>
  BY <1>1, <1>3, StageLeft
<1>4. QED
  BY <1>1, <1>2, <1>3

\* A new process starts from the disk and the temporary files.
LEMMA ForgetLeft == ASSUME LeftoversHold, Forget PROVE LeftoversHold'
<1>1. \A f \in Files : Whole(f)' <=> Whole(f)
  BY DEF Forget, Whole
<1>2. QED
  BY <1>1 DEF Forget, LeftoversHold

\* A step that changes nothing.
LEMMA StutterLeft == ASSUME LeftoversHold, UNCHANGED vars PROVE LeftoversHold'
<1>1. \A f \in Files : (Whole(f)' <=> Whole(f)) /\ (OK(f)' <=> OK(f))
  BY DEF vars, Whole, OK
<1>2. QED
  BY <1>1 DEF vars, LeftoversHold

\* Every step of a decoder used once keeps the invariant, whatever fails.
LEMMA NextLeft ==
  ASSUME ~Reuse
  PROVE  QuietInv /\ LeftoversHold /\ [Next]_vars => LeftoversHold'
<1> SUFFICES ASSUME QuietInv, LeftoversHold, [Next]_vars PROVE LeftoversHold'
  OBVIOUS
<1>1. CASE LoadFileData \/ BeginRepair \/ PreserveShards
  BY <1>1, LoadLeft, BeginLeft, PreserveLeft
<1>2. ASSUME NEW f \in Files,
             OpenPatch(f) \/ OpenWrite(f) \/ OpenFails(f) \/ CopyShard(f) \/ CopyFails(f)
             \/ Register(f) \/ WriteRow(f) \/ Commit(f)
      PROVE  LeftoversHold'
  BY <1>2, CopyLeft, WriteLeft, CommitLeft
<1>3. CASE EndCopy \/ Fold \/ EndWrite \/ CloseReaders \/ EndCommit \/ CheckWritten \/ VerifyParity
  BY <1>3, BarrierLeft, CheckLeft
<1>4. CASE Crash \/ NewDecoder
  BY <1>4, ForgetLeft DEF Crash, NewDecoder
<1>5. CASE Stopped \/ UNCHANGED vars
  BY <1>5, StutterLeft DEF Stopped
<1>6. QED
  BY <1>1, <1>2, <1>3, <1>4, <1>5 DEF Next, Step

\* No temporary sibling outlives a repair that returned, and one that succeeds
\* clears what a crashed attempt left, whatever else fails (closeAll,
\* copySurvivingShards, tempCommitCloser).
THEOREM TempsAreCleared ==
  ASSUME ~Reuse
  PROVE  Spec => []NoStrayTemps
<1>1. Init => LeftoversHold
  BY InitLeft
<1>2. QuietInv /\ LeftoversHold /\ [Next]_vars => LeftoversHold'
  BY NextLeft
<1>3. QuietInv /\ LeftoversHold => NoStrayTemps
  BY DEF QuietInv, StagesHold, OwnedHolds, LeftoversHold, NoStrayTemps
<1>4. QED
  BY <1>1, <1>2, <1>3, QuietInvariance, PTL DEF Spec

\* Even a decoder whose Repair is called again leaves no temporary file when no
\* process died: the errors of every goroutine and every call are cleaned up after.
THEOREM ErrorsLeaveNothing ==
  Spec => [](phase = "done" /\ ~crashed => \A f \in Files : tmp[f] = NoFile)
<1>1. QuietInv => (phase = "done" /\ ~crashed => \A f \in Files : tmp[f] = NoFile)
  BY DEF QuietInv, StagesHold, OwnedHolds
<1>2. QED
  BY <1>1, QuietInvariance, PTL

-----------------------------------------------------------------------------
\* A published file has its slices in place where no write spoiled them, unless its
\* rename failed; once the renames are over none has.  What the check passes is whole:
\* the slices it does not read are those of a clone that were never written.
OutcomeHolds ==
  /\ phase \notin {"commit", "check", "parity"} => \A f \in Files : writer[f] # "shut"
  /\ phase \in {"commit", "check"} =>
       \A f \in Files : writer[f] = "shut" =>
         f \in errs \/ (disk[f] \in Image /\ disk[f][K + 1] = Nil /\ Intact(disk[f], f, Slots))
  /\ phase \in {"check", "parity"} => errs = {}
  /\ phase = "parity" => \A f \in Files : disk[f] = Pristine(f)
  /\ phase \notin {"parity", "done"} => repaired = {} /\ outcome = "none"
  /\ ReportedArePristine
  /\ SuccessMeansWhole

Known == RepairInv /\ QuietInv /\ LeftoversHold

\* An intact file is its original.
LEMMA WholeIsPristine ==
  ASSUME TypeOK, NEW f \in Files, Whole(f)
  PROVE  disk[f] = Pristine(f)
<1>1. disk[f] \in Image
  BY DEF TypeOK, Whole
<1>2. Pos = Slots \cup {K + 1} /\ K + 1 \notin Slots
  BY DEF Pos, Slots
<1>3. QED
  BY <1>1, <1>2 DEF Whole, RightSize, Pristine, Image

\* A new decoder has reported nothing.
LEMMA InitOutcome == Init => OutcomeHolds
  BY DEF Init, OutcomeHolds, ReportedArePristine, SuccessMeansWhole

\* A step before the renames, or one that gives up: nothing is published or reported.
LEMMA EarlyOutcome ==
  ASSUME OutcomeHolds, UNCHANGED <<disk, repaired>>, outcome' = outcome \/ outcome' = "failed",
         phase' \notin {"commit", "check", "parity"},
         phase' # "done" => phase \notin {"parity", "done"} /\ outcome' = outcome,
         \A f \in Files : writer'[f] # "shut"
  PROVE  OutcomeHolds'
<1>1. \A f \in Files : Pristine(f)' = Pristine(f)
  BY DEF Pristine
<1>2. QED
  BY <1>1 DEF OutcomeHolds, ReportedArePristine, SuccessMeansWhole

\* Everything up to the renames is such a step.
LEMMA StageOutcome ==
  ASSUME Known, OutcomeHolds,
         \/ LoadFileData \/ PreserveShards \/ EndCopy \/ Fold \/ EndWrite
         \/ \E f \in Files : \/ OpenPatch(f) \/ OpenWrite(f) \/ OpenFails(f) \/ CopyShard(f)
                             \/ CopyFails(f) \/ Register(f) \/ WriteRow(f)
  PROVE  OutcomeHolds'
<1>1. CASE LoadFileData \/ PreserveShards
  <2>1. /\ UNCHANGED <<disk, repaired>> /\ outcome' \in {outcome, "failed"}
        /\ phase' \notin {"commit", "check", "parity"}
        /\ phase \notin {"commit", "check", "parity", "done"}
        /\ phase' # "done" => outcome' = outcome
        /\ writer' = writer \/ writer' = [f \in Files |-> "none"]
    <3>1. CASE LoadFileData
      BY <3>1 DEF LoadFileData
    <3>2. CASE PreserveShards
      <4>1. Return("failed") \/ (phase' = "copy" /\ UNCHANGED <<writer, outcome>>)
        BY <3>2 DEF PreserveShards
      <4>2. UNCHANGED <<disk, repaired>> /\ phase = "preserve"
        BY <3>2 DEF PreserveShards
      <4>3. QED
        BY <4>1, <4>2 DEF Return
    <3>3. QED
      BY <1>1, <3>1, <3>2
  <2>2. QED
    BY <2>1, EarlyOutcome DEF OutcomeHolds
<1>2. CASE EndCopy \/ EndWrite
  <2>1. /\ UNCHANGED <<disk, repaired>> /\ outcome' \in {outcome, "failed"}
        /\ phase' \notin {"commit", "check", "parity"}
        /\ phase \notin {"commit", "check", "parity", "done"}
        /\ phase' # "done" => outcome' = outcome
        /\ writer' = writer \/ writer' = [f \in Files |-> "none"]
    BY <1>2 DEF EndCopy, EndWrite, Return
  <2>2. QED
    BY <2>1, EarlyOutcome DEF OutcomeHolds
<1>3. CASE Fold
  <2>1. /\ UNCHANGED <<disk, repaired>> /\ outcome' \in {outcome, "failed"}
        /\ phase' \notin {"commit", "check", "parity"}
        /\ phase \notin {"commit", "check", "parity", "done"}
        /\ phase' # "done" => outcome' = outcome
        /\ writer' = writer \/ writer' = [f \in Files |-> "none"]
    BY <1>3 DEF Fold, Return
  <2>2. QED
    BY <2>1, EarlyOutcome DEF OutcomeHolds
<1>4. ASSUME NEW f \in Files,
             \/ OpenPatch(f) \/ OpenWrite(f) \/ OpenFails(f) \/ CopyShard(f) \/ CopyFails(f)
             \/ Register(f) \/ WriteRow(f)
      PROVE  OutcomeHolds'
  <2>1. /\ UNCHANGED <<disk, repaired, outcome, phase>> /\ phase \in {"copy", "write"}
        /\ \/ writer' = writer
           \/ \E w \in {"copying", "none", "open"} : writer' = [writer EXCEPT ![f] = w]
    BY <1>4 DEF OpenPatch, OpenWrite, OpenFails, CopyShard, CopyFails, Register, WriteRow, Admitted
  <2>2. \A g \in Files : writer'[g] # "shut"
    BY <2>1 DEF OutcomeHolds, Known, QuietInv, ShapeHolds
  <2>3. QED
    BY <2>1, <2>2, EarlyOutcome
<1>5. QED
  BY <1>1, <1>2, <1>3, <1>4

\* The call's entry forgets what an earlier one reported.
LEMMA BeginOutcome == ASSUME BeginRepair PROVE OutcomeHolds'
  BY DEF BeginRepair, OutcomeHolds, ReportedArePristine, SuccessMeansWhole

\* The renames begin with nothing published.
LEMMA CloseOutcome == ASSUME OutcomeHolds, CloseReaders PROVE OutcomeHolds'
<1>1. \A f \in Files : Pristine(f)' = Pristine(f)
  BY DEF Pristine
<1>2. /\ UNCHANGED <<disk, repaired, writer, outcome>>
      /\ phase = "close" /\ phase' = "commit"
  BY DEF CloseReaders
<1>3. QED
  BY <1>1, <1>2 DEF OutcomeHolds, ReportedArePristine, SuccessMeansWhole

\* A rename publishes what was staged or is an error.
LEMMA CommitOutcome ==
  ASSUME Known, OutcomeHolds, NEW f \in Files, Commit(f)
  PROVE  OutcomeHolds'
<1>1. \A g \in Files : Pristine(g)' = Pristine(g)
  BY DEF Pristine
<1>2. tmp[f] \in Image /\ tmp[f][K + 1] = Nil /\ Intact(tmp[f], f, Slots)
  BY OpenWriterHolds DEF Known, Commit
<1>3. \/ disk'[f] = tmp[f] /\ errs' = errs
      \/ disk'[f] = disk[f] /\ errs' = errs \cup {f}
  BY DEF Commit, Known, QuietInv, ShapeHolds
<1>4. \A g \in Files : g # f => disk'[g] = disk[g] /\ writer'[g] = writer[g]
  BY DEF Commit, Known, QuietInv, ShapeHolds
<1>5. /\ phase = "commit" /\ phase' = phase /\ repaired' = repaired /\ outcome' = outcome
      /\ repaired = {} /\ outcome # "ok"
  BY DEF Commit, OutcomeHolds, Known
<1>6. ReportedArePristine' /\ SuccessMeansWhole'
  BY <1>5 DEF ReportedArePristine, SuccessMeansWhole
<1>7. \A g \in Files, j \in Slots : Unspoiled(g, j)' => Unspoiled(g, j)
  BY SpoiledStays DEF Commit, Fault, Known, RepairInv, TypeOK
<1>8. \A g \in Files : writer'[g] = "shut" =>
        g \in errs' \/ (disk'[g] \in Image /\ disk'[g][K + 1] = Nil
                       /\ \A j \in Slots : Unspoiled(g, j)' => disk'[g][j] = Orig[<<g, j>>])
  BY <1>2, <1>3, <1>4, <1>5, <1>7 DEF OutcomeHolds, Intact
<1>9. QED
  BY <1>1, <1>5, <1>6, <1>8 DEF OutcomeHolds, Intact

\* A rename that failed ends the repair.
LEMMA EndCommitOutcome == ASSUME Known, OutcomeHolds, EndCommit PROVE OutcomeHolds'
<1>0. UNCHANGED <<disk, repaired, errs>> /\ phase = "commit"
  BY DEF EndCommit
<1>1. CASE errs # {}
  BY <1>0, <1>1, EarlyOutcome DEF EndCommit, Return
<1>2. CASE errs = {}
  <2>1. \A f \in Files : Pristine(f)' = Pristine(f)
    BY DEF Pristine
  <2>2. phase' = "check" /\ UNCHANGED <<writer, outcome>>
    BY <1>2 DEF EndCommit
  <2>3. QED
    BY <1>0, <1>2, <2>1, <2>2
    DEF EndCommit, OutcomeHolds, ReportedArePristine, SuccessMeansWhole, Intact, Unspoiled
<1>3. QED
  BY <1>1, <1>2

\* Without a fault every file is whole at the checks: it was intact, or it has been
\* published.
LEMMA AllWhole ==
  ASSUME Known, OutcomeHolds, phase \in {"check", "parity"}, faults = 0, NEW f \in Files
  PROVE  disk[f] = Pristine(f)
<1>1. CASE phase = "parity"
  BY <1>1 DEF OutcomeHolds
<1>2. CASE phase = "check" /\ f \in wasOK
  BY <1>2, WholeIsPristine DEF Known, LeftoversHold, RepairInv
<1>3. CASE phase = "check" /\ f \notin wasOK
  <2>1. disk[f] \in Image /\ disk[f][K + 1] = Nil /\ Intact(disk[f], f, Slots)
    BY <1>3 DEF Known, QuietInv, StagesHold, OutcomeHolds
  <2>2. QED
    BY <2>1, PristineImage DEF Intact, Unspoiled
<1>4. QED
  BY <1>1, <1>2, <1>3

\* A file that the check passes is whole, silent corruption or not
\* (checkWrittenFiles): what it does not read is unwritten in a clone.
LEMMA PassedIsWhole ==
  ASSUME Known, OutcomeHolds, phase = "check", NEW f \in Rewritten, RightSize(disk[f]),
         \A j \in CheckedRows(f) : disk[f][j] = Orig[<<f, j>>]
  PROVE  disk[f] = Pristine(f)
<1>1. f \in Files /\ f \notin wasOK
  BY DEF Rewritten
<1>2. disk[f] \in Image /\ disk[f][K + 1] = Nil /\ Intact(disk[f], f, Slots)
  BY <1>1 DEF Known, QuietInv, StagesHold, OutcomeHolds
<1>3. \A j \in Slots : disk[f][j] = Orig[<<f, j>>]
  <2>1. CASE CheckedRows(f) = Slots
    BY <2>1
  <2>2. CASE f \in cloned /\ CheckedRows(f) = written[f]
    BY <1>2, <2>2 DEF Intact, Unspoiled
  <2>3. QED
    BY <2>1, <2>2 DEF CheckedRows
<1>4. QED
  BY <1>1, <1>2, <1>3, PristineImage

\* So what the check of the written files reports is true.
LEMMA CheckOutcome == ASSUME Known, OutcomeHolds, CheckWritten PROVE OutcomeHolds'
<1>1. PICK failing \in SUBSET Rewritten :
        /\ Report(failing)
        /\ \A f \in Rewritten \ failing :
             RightSize(disk[f]) /\ \A j \in CheckedRows(f) : disk[f][j] = Orig[<<f, j>>]
  <2> DEFINE bad  == {f \in Rewritten : \/ ~RightSize(disk[f])
                                        \/ \E j \in CheckedRows(f) : disk[f][j] # Orig[<<f, j>>]}
             head == {f \in Rewritten : disk[f][1] # Orig[<<f, 1>>]}
  <2>1. PICK hit \in SUBSET head, io \in {{}} \cup {{f} : f \in Rewritten} :
          Report(bad \cup hit \cup io)
    BY DEF CheckWritten
  <2>2. bad \cup hit \cup io \in SUBSET Rewritten
    OBVIOUS
  <2>3. \A f \in Rewritten \ (bad \cup hit \cup io) :
          RightSize(disk[f]) /\ \A j \in CheckedRows(f) : disk[f][j] = Orig[<<f, j>>]
    OBVIOUS
  <2> HIDE DEF bad
  <2>4. QED
    BY <2>1, <2>2, <2>3
<1>2. phase = "check" /\ UNCHANGED <<disk, errs, wasOK>>
  BY DEF CheckWritten
<1>3. \A f \in Rewritten \ failing : disk[f] = Pristine(f)
  BY <1>1, <1>2, PassedIsWhole
<1>4. repaired' = {f \in Rewritten : \A g \in failing : f < g}
  BY <1>1 DEF Report
<1>5. repaired' \subseteq Rewritten \ failing
  BY <1>4 DEF Rewritten, Files
<1>6. \A f \in repaired' : disk'[f] = Pristine(f)'
  BY <1>2, <1>3, <1>5 DEF Pristine
<1>7. ASSUME failing = {} PROVE \A f \in Files : disk'[f] = Pristine(f)'
  <2>1. \A f \in wasOK \cap Files : disk[f] = Pristine(f)
    BY <1>2, WholeIsPristine DEF Known, LeftoversHold, RepairInv
  <2>2. QED
    BY <1>2, <1>3, <1>7, <2>1 DEF Pristine, Rewritten
<1>8. CASE failing = {}
  <2>1. Return("ok") \/ (phase' = "parity" /\ UNCHANGED <<writer, outcome>>)
    BY <1>1, <1>8 DEF Report
  <2>2. QED
    BY <1>2, <1>6, <1>7, <1>8, <2>1
    DEF OutcomeHolds, ReportedArePristine, SuccessMeansWhole, Return
<1>9. CASE failing # {}
  <2>1. Return("failed")
    BY <1>1, <1>9 DEF Report
  <2>2. QED
    BY <1>2, <1>6, <2>1 DEF OutcomeHolds, ReportedArePristine, SuccessMeansWhole, Return
<1>10. QED
  BY <1>8, <1>9

\* The parity double check reports on files that passed the first one.
LEMMA VerifyOutcome == ASSUME Known, OutcomeHolds, VerifyParity PROVE OutcomeHolds'
<1>1. phase = "parity" /\ UNCHANGED <<disk, errs, repaired>> /\ \E r : Return(r)
  BY DEF VerifyParity
<1>2. \A f \in Files : disk'[f] = Pristine(f)'
  BY <1>1 DEF OutcomeHolds, Pristine
<1>3. repaired' \subseteq Files
  BY <1>1 DEF Known, RepairInv, TypeOK
<1>4. QED
  BY <1>1, <1>2, <1>3 DEF OutcomeHolds, ReportedArePristine, SuccessMeansWhole, Return

\* A new process has reported nothing.
LEMMA ForgetOutcome == ASSUME Forget PROVE OutcomeHolds'
  BY DEF Forget, OutcomeHolds, ReportedArePristine, SuccessMeansWhole

\* A step that changes nothing.
LEMMA StutterOutcome == ASSUME OutcomeHolds, UNCHANGED vars PROVE OutcomeHolds'
<1>1. \A f \in Files : Pristine(f)' = Pristine(f)
  BY DEF Pristine
<1>2. UNCHANGED <<disk, repaired, writer, outcome, phase, errs, cloned, written, faults>>
  BY DEF vars
<1>3. QED
  BY <1>1, <1>2 DEF OutcomeHolds, ReportedArePristine, SuccessMeansWhole, Intact, Unspoiled

\* Every step keeps the reports true.
LEMMA NextOutcome == Known /\ OutcomeHolds /\ [Next]_vars => OutcomeHolds'
<1> SUFFICES ASSUME Known, OutcomeHolds, [Next]_vars PROVE OutcomeHolds'
  OBVIOUS
<1>1. CASE LoadFileData \/ PreserveShards \/ EndCopy \/ Fold \/ EndWrite
  BY <1>1, StageOutcome
<1>2. ASSUME NEW f \in Files,
             OpenPatch(f) \/ OpenWrite(f) \/ OpenFails(f) \/ CopyShard(f) \/ CopyFails(f)
             \/ Register(f) \/ WriteRow(f)
      PROVE  OutcomeHolds'
  BY <1>2, StageOutcome
<1>3. ASSUME NEW f \in Files, Commit(f) PROVE OutcomeHolds'
  BY <1>3, CommitOutcome
<1>4. CASE BeginRepair \/ CloseReaders \/ EndCommit \/ CheckWritten \/ VerifyParity
  BY <1>4, BeginOutcome, CloseOutcome, EndCommitOutcome, CheckOutcome,
     VerifyOutcome
<1>5. CASE Crash \/ NewDecoder
  BY <1>5, ForgetOutcome DEF Crash, NewDecoder
<1>6. CASE Stopped \/ UNCHANGED vars
  BY <1>6, StutterOutcome DEF Stopped
<1>7. QED
  BY <1>1, <1>2, <1>3, <1>4, <1>5, <1>6 DEF Next, Step

\* The invariant of what Repair has published and reported.
THEOREM OutcomeInvariance ==
  ASSUME ~Reuse
  PROVE  Spec => []OutcomeHolds
<1>1. Init => LeftoversHold /\ OutcomeHolds
  BY InitLeft, InitOutcome
<1>2. QuietInv /\ LeftoversHold /\ [Next]_vars => LeftoversHold'
  BY NextLeft
<1>3. RepairInv /\ QuietInv /\ LeftoversHold /\ OutcomeHolds /\ [Next]_vars => OutcomeHolds'
  BY NextOutcome DEF Known
<1>4. QED
  BY <1>1, <1>2, <1>3, RepairInvariance, QuietInvariance, PTL DEF Spec

\* A repair that reports success leaves every file of the set whole, those it did
\* not touch included (Decoder.Repair).
THEOREM SuccessIsWhole ==
  ASSUME ~Reuse
  PROVE  Spec => []SuccessMeansWhole
<1>1. OutcomeHolds => SuccessMeansWhole
  BY DEF OutcomeHolds
<1>2. QED
  BY <1>1, OutcomeInvariance, PTL

\* Every path Repair returns, with or without an error, is whole on disk.
THEOREM ReportsAreTrue ==
  ASSUME ~Reuse
  PROVE  Spec => []ReportedArePristine
<1>1. OutcomeHolds => ReportedArePristine
  BY DEF OutcomeHolds
<1>2. QED
  BY <1>1, OutcomeInvariance, PTL

-----------------------------------------------------------------------------
\* A failure has a cause: a fault, or fewer recovery blocks than missing slices.
\* What the scan did not find is what the disk does not hold, until the renames.
FailureHolds ==
  /\ errs # {} => faults > 0
  /\ phase \in {"scanned", "preserve", "copy", "fold", "write"} => Unpresent = Missing(disk)
  /\ phase \in {"preserve", "copy", "fold", "write"} => before = disk
  /\ NoSpuriousFailure

\* A new decoder has not failed.
LEMMA InitFailure == Init => FailureHolds
  BY DEF Init, FailureHolds, NoSpuriousFailure

\* The scan finds every slice the disk holds.
LEMMA LoadFailure == ASSUME Known, FailureHolds, LoadFileData PROVE FailureHolds'
<1>1. PICK at \in [Content -> Loc \cup {Nowhere}] :
        /\ \A c \in Content : IF Holding(disk, c) = {} THEN at[c] = Nowhere
                                                       ELSE at[c] \in Holding(disk, c)
        /\ found' = [s \in Shards |-> at[Orig[s]]]
  BY DEF LoadFileData
<1>2. \A c \in Content : Holding(disk, c) \subseteq Loc
  BY DEF Holding
<1>3. \A s \in Shards : found'[s] = Nowhere <=> Holding(disk, Orig[s]) = {}
  BY <1>1, <1>2
<1>4. UNCHANGED <<disk, errs, faults, outcome, before, parity>> /\ phase' = "scanned"
  BY DEF LoadFileData
<1>5. Unpresent' = Missing(disk)'
  BY <1>3, <1>4 DEF Unpresent, Missing, Holding
<1>6. NoSpuriousFailure'
  BY <1>4 DEF FailureHolds, NoSpuriousFailure, Recoverable, Missing, Holding
<1>7. QED
  BY <1>4, <1>5, <1>6 DEF FailureHolds

\* A step that keeps the disk and the infos, and fails for a fault or not at all.
LEMMA KeepFailure ==
  ASSUME Known, FailureHolds, UNCHANGED <<disk, found, before, parity>>,
         faults' = faults \/ faults' = faults + 1,
         errs' \subseteq errs \/ faults' > 0,
         outcome' # "failed" \/ (outcome' = outcome) \/ faults' > 0 \/ ~Recoverable(before),
         phase' \in {"preserve", "copy", "fold", "write"} =>
           phase \in {"preserve", "copy", "fold", "write"},
         phase' # "scanned"
  PROVE  FailureHolds'
<1>1. faults \in Nat
  BY DEF Known, RepairInv, TypeOK
<1>2. Recoverable(before)' = Recoverable(before)
  BY DEF Recoverable, Missing, Holding
<1>3. Unpresent' = Unpresent /\ Missing(disk)' = Missing(disk)
  BY DEF Unpresent, Missing, Holding
<1>4. NoSpuriousFailure'
  BY <1>1, <1>2 DEF FailureHolds, NoSpuriousFailure
<1>5. errs' # {} => faults' > 0
  BY <1>1 DEF FailureHolds
<1>6. QED
  BY <1>3, <1>4, <1>5 DEF FailureHolds

\* The call remembers the disk it found.
LEMMA BeginFailure == ASSUME ~Reuse, Known, FailureHolds, BeginRepair PROVE FailureHolds'
<1>1. UNCHANGED <<disk, found>> /\ phase = "scanned" /\ before' = disk /\ errs' = {}
      /\ outcome' = "none" /\ phase' = "preserve"
  BY DEF BeginRepair
<1>2. Unpresent' = Unpresent /\ Missing(disk)' = Missing(disk)
  BY <1>1 DEF Unpresent, Missing, Holding
<1>3. QED
  BY <1>1, <1>2 DEF FailureHolds, NoSpuriousFailure

\* Preserving, staging and copying fail only for a fault.
LEMMA StageFailure ==
  ASSUME Known, FailureHolds,
         \/ PreserveShards \/ EndCopy
         \/ \E f \in Files : \/ OpenPatch(f) \/ OpenWrite(f) \/ OpenFails(f) \/ CopyShard(f)
                             \/ CopyFails(f) \/ Register(f)
  PROVE  FailureHolds'
<1>0. faults \in Nat
  BY DEF Known, RepairInv, TypeOK
<1>1. CASE PreserveShards
  <2>1. /\ UNCHANGED <<disk, found, before, parity, errs>> /\ phase = "preserve"
        /\ phase' \in {"copy", "done"}
        /\ faults' = faults + 1 \/ (faults' = faults /\ outcome' = outcome)
    BY <1>1 DEF PreserveShards, Return, Fault
  <2>2. QED
    BY <1>0, <2>1, KeepFailure
<1>2. CASE EndCopy
  <2>1. /\ UNCHANGED <<disk, found, before, parity, errs, faults>> /\ phase = "copy"
        /\ phase' \in {"fold", "done"}
        /\ outcome' = outcome \/ errs # {}
    BY <1>2 DEF EndCopy, Return
  <2>2. QED
    BY <2>1, KeepFailure DEF FailureHolds
<1>3. ASSUME NEW f \in Files,
             \/ OpenPatch(f) \/ OpenWrite(f) \/ OpenFails(f) \/ CopyShard(f) \/ CopyFails(f)
             \/ Register(f)
      PROVE  FailureHolds'
  <2>1. /\ UNCHANGED <<disk, found, before, parity, outcome, phase>> /\ phase = "copy"
        /\ faults' = faults + 1 \/ (faults' = faults /\ errs' = errs)
    BY <1>3 DEF OpenPatch, OpenWrite, OpenFails, CopyShard, CopyFails, Register, Admitted, Leaves,
                Fault
  <2>2. QED
    BY <1>0, <2>1, KeepFailure
<1>4. QED
  BY <1>1, <1>2, <1>3

\* A set has finitely many slices.
LEMMA ShardsFinite == IsFiniteSet(Shards)
<1>1. IsFiniteSet(Files) /\ IsFiniteSet(Slots)
  BY FS_Interval DEF Files, Slots
<1>2. QED
  BY <1>1, FS_Product DEF Shards

\* A reconstruction fails for a fault, or because the blocks do not suffice.
LEMMA FoldFailure == ASSUME Known, FailureHolds, Fold PROVE FailureHolds'
<1>0. faults \in Nat /\ parity \in Nat
  BY DEF Known, RepairInv, TypeOK
<1>1. UNCHANGED <<disk, found, before, parity>> /\ phase = "fold"
      /\ phase' \in {"close", "write", "done"} /\ errs' \in {errs, {}}
  BY DEF Fold, Return
<1>2. \/ faults' = faults /\ Unrepairable
      \/ faults' = faults + 1
      \/ faults' = faults /\ outcome' = outcome
  BY DEF Fold, Fault
<1>3. ASSUME Unrepairable PROVE ~Recoverable(before)
  <2>1. before = disk /\ Unpresent = Missing(disk)
    BY <1>1 DEF FailureHolds
  <2>2. CASE parity = 0
    BY <2>2 DEF Recoverable
  <2>3. CASE Cardinality(Unpresent) > parity
    <3>1. IsFiniteSet(Shards)
      BY ShardsFinite
    <3>2. Cardinality(Unpresent) \in Nat
      BY <3>1, FS_Subset, FS_CardinalityType DEF Unpresent
    <3>3. QED
      BY <1>0, <2>1, <2>3, <3>2 DEF Recoverable
  <2>4. QED
    BY <1>3, <2>2, <2>3 DEF Unrepairable
<1>4. QED
  BY <1>0, <1>1, <1>2, <1>3, KeepFailure

\* Rows fail to be written, and files to be renamed, only for a fault.
LEMMA WriteFailure ==
  ASSUME Known, FailureHolds,
         EndWrite \/ CloseReaders \/ EndCommit \/ \E f \in Files : WriteRow(f)
  PROVE  FailureHolds'
<1>0. faults \in Nat
  BY DEF Known, RepairInv, TypeOK
<1>1. CASE EndWrite \/ EndCommit
  <2>1. /\ UNCHANGED <<disk, found, before, parity, errs, faults>>
        /\ \/ phase = "write" /\ phase' \in {"fold", "close", "done"}
           \/ phase = "commit" /\ phase' \in {"check", "done"}
        /\ outcome' = outcome \/ errs # {}
    BY <1>1 DEF EndWrite, EndCommit, Return
  <2>2. QED
    BY <2>1, KeepFailure DEF FailureHolds
<1>2. CASE CloseReaders
  <2>1. /\ UNCHANGED <<disk, found, before, parity, faults, outcome>>
        /\ phase' = "commit" /\ errs' = {}
    BY <1>2 DEF CloseReaders
  <2>2. QED
    BY <2>1, KeepFailure
<1>3. ASSUME NEW f \in Files, WriteRow(f) PROVE FailureHolds'
  <2>1. /\ UNCHANGED <<disk, found, before, parity, outcome, phase>> /\ phase = "write"
        /\ faults' = faults + 1 \/ (faults' = faults /\ errs' = errs)
    BY <1>3 DEF WriteRow, Leaves, Fault
  <2>2. QED
    BY <1>0, <2>1, KeepFailure
<1>4. QED
  BY <1>1, <1>2, <1>3

\* A rename fails only for a fault; from here on the disk is no longer the one found.
LEMMA CommitFailure == ASSUME Known, FailureHolds, NEW f \in Files, Commit(f) PROVE FailureHolds'
<1>0. faults \in Nat
  BY DEF Known, RepairInv, TypeOK
<1>1. /\ UNCHANGED <<before, parity, outcome, phase>> /\ phase = "commit"
      /\ faults' = faults + 1 \/ (faults' = faults /\ errs' = errs)
  BY DEF Commit, Fault
<1>2. Recoverable(before)' = Recoverable(before)
  BY <1>1 DEF Recoverable, Missing, Holding
<1>3. QED
  BY <1>0, <1>1, <1>2 DEF FailureHolds, NoSpuriousFailure

\* Every file is whole at the checks, so they fail only for a fault.
LEMMA CheckFailure ==
  ASSUME Known, OutcomeHolds, FailureHolds, CheckWritten \/ VerifyParity
  PROVE  FailureHolds'
<1>0. faults \in Nat
  BY DEF Known, RepairInv, TypeOK
<1>1. faults = 0 => \A f \in Files : disk[f] = Pristine(f)
  BY AllWhole DEF CheckWritten, VerifyParity
<1>2. faults = 0 => \A f \in Files : RightSize(disk[f]) /\ \A j \in Slots : disk[f][j] = Orig[<<f, j>>]
  <2> SUFFICES ASSUME faults = 0, NEW f \in Files
               PROVE  RightSize(Pristine(f)) /\ \A j \in Slots : Pristine(f)[j] = Orig[<<f, j>>]
    BY <1>1
  <2>1. Slots \subseteq Pos /\ K \in Slots /\ K + 1 \in Pos \ Slots
    BY DEF Slots, Pos
  <2>2. Orig[<<f, K>>] # Nil
    BY <2>1 DEF Shards
  <2>3. QED
    BY <2>1, <2>2 DEF Pristine, RightSize
<1>3. ASSUME CheckWritten, faults' = 0 PROVE outcome' # "failed" \/ outcome' = outcome
  <2>1. \A f \in Files : CheckedRows(f) \subseteq Slots
    BY DEF CheckedRows, Known, RepairInv, TypeOK
  <2>2. 1 \in Slots /\ faults = 0
    BY <1>0, <1>3 DEF Slots, CheckWritten, Fault
  <2>3. {f \in Rewritten : \/ ~RightSize(disk[f])
                           \/ \E j \in CheckedRows(f) : disk[f][j] # Orig[<<f, j>>]} = {}
    BY <1>2, <2>1, <2>2 DEF Rewritten
  <2>4. {f \in Rewritten : disk[f][1] # Orig[<<f, 1>>]} = {}
    BY <1>2, <2>2 DEF Rewritten
  <2>5. Report({})
    <3>1. PICK hit \in SUBSET {}, io \in {{}} \cup {{f} : f \in Rewritten} :
            /\ IF io = {} THEN UNCHANGED faults ELSE Fault("read")
            /\ Report({} \cup hit \cup io)
      BY <1>3, <2>3, <2>4 DEF CheckWritten
    <3>2. io = {}
      BY <1>0, <1>3, <3>1 DEF Fault
    <3>3. hit = {} /\ {} \cup hit \cup io = {}
      BY <3>2
    <3>4. QED
      BY <3>1, <3>3
  <2>6. QED
    BY <2>5 DEF Report, Return
<1>4. ASSUME VerifyParity, faults' = 0 PROVE outcome' # "failed"
  BY <1>0, <1>4 DEF VerifyParity, Return, Fault
<1>5. /\ UNCHANGED <<disk, before, parity, errs>>
      /\ faults' = faults \/ faults' = faults + 1
      /\ phase' \in {"parity", "done"}
  BY DEF CheckWritten, VerifyParity, Report, Return, Fault
<1>6. Recoverable(before)' = Recoverable(before)
  BY <1>5 DEF Recoverable, Missing, Holding
<1>7. NoSpuriousFailure'
  BY <1>0, <1>3, <1>4, <1>5, <1>6 DEF FailureHolds, NoSpuriousFailure
<1>8. QED
  BY <1>0, <1>5, <1>7 DEF FailureHolds

\* A new process has not failed.
LEMMA ForgetFailure == ASSUME Forget PROVE FailureHolds'
  BY DEF Forget, FailureHolds, NoSpuriousFailure

\* A step that changes nothing.
LEMMA StutterFailure == ASSUME FailureHolds, UNCHANGED vars PROVE FailureHolds'
<1>1. UNCHANGED <<disk, found, before, parity, faults, errs, outcome, phase>>
  BY DEF vars
<1>2. /\ Unpresent' = Unpresent /\ Missing(disk)' = Missing(disk)
      /\ Recoverable(before)' = Recoverable(before)
  BY <1>1 DEF Unpresent, Recoverable, Missing, Holding
<1>3. QED
  BY <1>1, <1>2 DEF FailureHolds, NoSpuriousFailure

\* Every step of a decoder used once keeps the causes.
LEMMA NextFailure ==
  ASSUME ~Reuse
  PROVE  Known /\ OutcomeHolds /\ FailureHolds /\ [Next]_vars => FailureHolds'
<1> SUFFICES ASSUME Known, OutcomeHolds, FailureHolds, [Next]_vars PROVE FailureHolds'
  OBVIOUS
<1>1. CASE LoadFileData \/ BeginRepair \/ Fold
  BY <1>1, LoadFailure, BeginFailure, FoldFailure
<1>2. CASE PreserveShards \/ EndCopy
  BY <1>2, StageFailure
<1>3. ASSUME NEW f \in Files,
             OpenPatch(f) \/ OpenWrite(f) \/ OpenFails(f) \/ CopyShard(f) \/ CopyFails(f)
             \/ Register(f)
      PROVE  FailureHolds'
  BY <1>3, StageFailure
<1>4. ASSUME NEW f \in Files, WriteRow(f) \/ Commit(f) PROVE FailureHolds'
  BY <1>4, WriteFailure, CommitFailure
<1>5. CASE EndWrite \/ CloseReaders \/ EndCommit
  BY <1>5, WriteFailure
<1>6. CASE CheckWritten \/ VerifyParity
  BY <1>6, CheckFailure
<1>7. CASE Crash \/ NewDecoder
  BY <1>7, ForgetFailure DEF Crash, NewDecoder
<1>8. CASE Stopped \/ UNCHANGED vars
  BY <1>8, StutterFailure DEF Stopped
<1>9. QED
  BY <1>1, <1>2, <1>3, <1>4, <1>5, <1>6, <1>7, <1>8 DEF Next, Step

\* With recovery blocks enough for the slices the disk had lost when Repair was
\* called, Repair fails only if the environment does (reconstructTo).
THEOREM FailureHasCause ==
  ASSUME ~Reuse
  PROVE  Spec => []NoSpuriousFailure
<1>1. Init => LeftoversHold /\ FailureHolds
  BY InitLeft, InitFailure
<1>2. QuietInv /\ LeftoversHold /\ [Next]_vars => LeftoversHold'
  BY NextLeft
<1>3. RepairInv /\ QuietInv /\ LeftoversHold /\ OutcomeHolds /\ FailureHolds /\ [Next]_vars
        => FailureHolds'
  BY NextFailure DEF Known
<1>4. FailureHolds => NoSpuriousFailure
  BY DEF FailureHolds
<1>5. QED
  BY <1>1, <1>2, <1>3, <1>4, RepairInvariance, QuietInvariance, OutcomeInvariance, PTL DEF Spec

-----------------------------------------------------------------------------
\* Publishing a whole file over one that holds nothing of another loses no slice.
LEMMA PublishingLosesNothing ==
  ASSUME TypeOK, NEW f \in Files, disk' = [disk EXCEPT ![f] = Pristine(f)], Unmixed(disk)
  PROVE  Missing(disk') \subseteq Missing(disk)
<1> SUFFICES ASSUME NEW s \in Shards, Holding(disk, Orig[s]) # {}
             PROVE  Holding(disk', Orig[s]) # {}
  BY DEF Missing
<1>1. PICK l \in Loc : disk[l[1]] # NoFile /\ disk[l[1]][l[2]] = Orig[s]
  BY DEF Holding
<1>2. CASE l[1] # f
  <2>1. disk'[l[1]] = disk[l[1]]
    BY <1>2 DEF TypeOK, Loc
  <2>2. QED
    BY <1>1, <2>1 DEF Holding
<1>3. CASE l[1] = f
  <2>1. l \in Holding(disk, Orig[s])
    BY <1>1 DEF Holding
  <2>2. PICK j \in Slots : Orig[s] = Orig[<<f, j>>]
    BY <1>3, <2>1 DEF Unmixed
  <2>3. <<f, j>> \in Loc /\ j \in Pos
    BY DEF Loc, Pos, Slots
  <2>4. disk'[f] = Pristine(f) /\ Pristine(f)[j] = Orig[s]
    BY <2>2, <2>3 DEF TypeOK, Pristine
  <2>5. disk'[f] # NoFile
    <3>1. \A p \in Pos : p \in Slots => <<f, p>> \in Shards
      BY DEF Shards
    <3>2. Pristine(f) \in Image
      BY <3>1 DEF Pristine, Image
    <3>3. QED
      BY <2>4, <3>2
  <2>6. QED
    BY <2>3, <2>4, <2>5 DEF Holding
<1>4. QED
  BY <1>2, <1>3

\* While no file's slices sit in another, no crash, error or rename turns a set that
\* can be repaired into one that cannot (tempCommitCloser).
THEOREM RepairableStays ==
  ASSUME "silent" \notin Faults, ~Reuse
  PROVE  Spec => StaysRecoverable
<1>1. RepairInv /\ [Next]_vars =>
        [Unmixed(disk) /\ Recoverable(disk) => Recoverable(disk')]_vars
  <2> SUFFICES ASSUME RepairInv, Next, Unmixed(disk), Recoverable(disk)
               PROVE  Recoverable(disk')
    OBVIOUS
  <2>1. CASE disk' = disk
    BY <2>1
  <2>2. CASE disk' # disk
    <3>1. PICK f \in Files : Commit(f)
      BY <2>2, OnlyCommitPublishes
    <3>2. disk' = [disk EXCEPT ![f] = Pristine(f)]
      BY <2>2, <3>1, OpenWriterIsWhole DEF Commit
    <3>3. Missing(disk') \subseteq Missing(disk)
      BY <3>2, PublishingLosesNothing DEF RepairInv
    <3>4. IsFiniteSet(Missing(disk))
      BY ShardsFinite, FS_Subset DEF Missing
    <3>5. /\ Cardinality(Missing(disk')) <= Cardinality(Missing(disk))
          /\ Cardinality(Missing(disk')) \in Nat /\ Cardinality(Missing(disk)) \in Nat
      BY <3>3, <3>4, FS_Subset, FS_CardinalityType
    <3>6. parity \in Nat
      BY DEF RepairInv, TypeOK
    <3>7. QED
      BY <3>5, <3>6 DEF Recoverable
  <2>3. QED
    BY <2>1, <2>2
<1>2. QED
  BY <1>1, RepairInvariance, PTL DEF Spec, StaysRecoverable
=================================================================================
