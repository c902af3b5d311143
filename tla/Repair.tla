------------------------------- MODULE Repair -------------------------------
(***************************************************************************)
(* Decoder.Repair (par2/decoder.go, 1269-1530) over a small recovery set:   *)
(* the integrity scan it starts from, the staging of every damaged file in  *)
(* a temporary sibling, the reconstruction of the missing slices, the       *)
(* renames that publish the result, and the checks that follow them, with   *)
(* input/output errors, silent write corruption and crashes.                *)
(*                                                                          *)
(* Data is abstracted to whole slices: a file is a function from slice      *)
(* positions to the content found there.  Positions 1..K are the canonical  *)
(* ones; K+1 stands for bytes past the described length.  Junk is content   *)
(* that matches no slice checksum (damage, a hole, a half-written slice),   *)
(* Nil is "past the end of the file".                                       *)
(***************************************************************************)
EXTENDS Naturals, FiniteSets

CONSTANTS
  NumFiles,     \* length of the recovery set; files are repaired in this order
  K,            \* slices per file
  Content,      \* what a whole slice can hold
  Orig,         \* [Shards -> Content]: the protected content; duplicates allowed
  Junk, Nil, NoFile, Nowhere,
  Disks,        \* disks the recovery set may be found in
  MaxParity,    \* recovery blocks: 0..MaxParity of them are usable
  Workers,      \* Decoder.numGoroutines
  Chunks,       \* byte ranges a slice is reconstructed in
  CanPatch,     \* the fileIO implements patchFileIO
  Reuse,        \* Repair may be called again on the same Decoder
  Faults,       \* kinds of fault the environment may inject
  MaxFaults,    \* bound on the injected faults
  MaxAttempts   \* bound on the calls to Repair, crashed ones included

Files  == 1..NumFiles
Slots  == 1..K
Pos    == 1..(K + 1)
Shards == Files \X Slots
Loc    == Files \X Pos
Image  == [Pos -> Content \cup {Junk, Nil}]
FaultKinds == {"open", "read", "write", "silent", "rename", "crash"}

ASSUME SizeAssumption ==
  /\ NumFiles \in Nat \ {0} /\ K \in Nat \ {0} /\ Chunks \in Nat \ {0}
  /\ Workers \in Nat \ {0} /\ MaxParity \in Nat /\ MaxFaults \in Nat
  /\ MaxAttempts \in Nat \ {0}
ASSUME ContentAssumption ==
  /\ Junk \notin Content /\ Nil \notin Content /\ Junk # Nil
  /\ Orig \in [Shards -> Content]
  /\ NoFile \notin Image /\ Nowhere \notin Loc
  /\ Disks \subseteq [Files -> Image \cup {NoFile}]
ASSUME SwitchAssumption ==
  CanPatch \in BOOLEAN /\ Reuse \in BOOLEAN /\ Faults \subseteq FaultKinds

VARIABLES
  disk,         \* the protected files
  tmp,          \* their ".gopar-tmp" siblings
  parity,       \* usable recovery blocks, intact on disk
  \* fileIntegrityInfos, as LoadFileData left them or Repair updated them
  found,        \* shardInfos[].foundAt, Nowhere when not present
  inPlace,      \* shards whose canonical location is in locations
  missing, wrongSize,
  \* one call of Repair
  phase, checkParity, wasOK, preserved, cache,
  writer,       \* per file: the state of its writer and of its goroutine
  cloned, written,
  todo,         \* per file: slots its goroutine still has to write
  errs,         \* files whose goroutine of the current fan-out failed
  chunk, bank,  \* current byte range, content rebuilt for it
  repaired, outcome,
  before,       \* history: the disk when Repair was called
  faults, attempts, crashed

scanVars   == <<found, inPlace, missing, wrongSize>>
callVars   == <<checkParity, wasOK, before>>
writerVars == <<writer, cloned, written>>
boundVars  == <<attempts, crashed>>
vars == <<disk, tmp, parity, scanVars, phase, callVars, preserved, cache, writerVars,
          todo, errs, chunk, bank, repaired, outcome, faults, boundVars>>

-----------------------------------------------------------------------------
Pristine(f) == [p \in Pos |-> IF p \in Slots THEN Orig[<<f, p>>] ELSE Nil]
RightSize(img) == img[K] # Nil /\ img[K + 1] = Nil

\* The locations at which a scan of d matches the checksum of content c.
Holding(d, c) == {l \in Loc : d[l[1]] # NoFile /\ d[l[1]][l[2]] = c}
Missing(d) == {s \in Shards : Holding(d, Orig[s]) = {}}

\* A length check left out of fileIntegrityInfo.ok.
OKAnyLength(f) == f \notin missing /\ \A j \in Slots : <<f, j>> \in inPlace

\* fileIntegrityInfo.ok
OK(f) == /\ f \notin missing \cup wrongSize
         /\ \A j \in Slots : <<f, j>> \in inPlace

Rewritten == Files \ wasOK
Unpresent == {s \in Shards : found[s] = Nowhere}

NoCache == [f \in Files |-> NoFile]
\* readerCache.getPath: a path is opened once and keeps the file it opened,
\* whatever is renamed over the path later.
Opened(need) == [f \in Files |-> IF f \in need /\ cache[f] = NoFile THEN disk[f] ELSE cache[f]]
\* readRange: the bytes at a location, zero padding past the end.
ReadAt(open, l) == IF open[l[1]][l[2]] = Nil THEN Junk ELSE open[l[1]][l[2]]

Fault(kind) == /\ kind \in Faults
               /\ faults < MaxFaults
               /\ faults' = faults + 1

\* A staged file, truncated or extended to the described length.
Resized(img) == [p \in Pos |-> IF p \notin Slots THEN Nil
                               ELSE IF img[p] = Nil THEN Junk ELSE img[p]]
Empty == Resized([p \in Pos |-> Nil])

\* A write of data leaves c: the data itself, or silently something else.
Leaves(data, c) == IF c = data THEN UNCHANGED faults ELSE c = Junk /\ Fault("silent")

First(f, j) == j \in todo[f] /\ \A k \in todo[f] : j <= k
NoTodo == [f \in Files |-> {}]

-----------------------------------------------------------------------------
Init ==
  /\ disk \in Disks
  /\ parity \in 0..MaxParity
  /\ tmp = NoCache
  /\ found = [s \in Shards |-> Nowhere] /\ inPlace = {} /\ missing = {} /\ wrongSize = {}
  /\ phase = "new" /\ checkParity = FALSE /\ wasOK = {} /\ before = disk
  /\ preserved = [s \in Shards |-> Nowhere] /\ cache = NoCache
  /\ writer = [f \in Files |-> "none"] /\ cloned = {} /\ written = NoTodo
  /\ todo = NoTodo /\ errs = {} /\ chunk = 0 /\ bank = TRUE
  /\ repaired = {} /\ outcome = "none"
  /\ faults = 0 /\ attempts = 0 /\ crashed = FALSE

\* LoadFileData.  Which of several places holding a slice becomes foundAt is
\* the order the scanners reach them in; shards with equal content are
\* recorded in one critical section, so they agree.
LoadFileData ==
  /\ phase = "new"
  /\ \E at \in [Content -> Loc \cup {Nowhere}] :
       /\ \A c \in Content : IF Holding(disk, c) = {} THEN at[c] = Nowhere
                                                      ELSE at[c] \in Holding(disk, c)
       /\ found' = [s \in Shards |-> at[Orig[s]]]
  /\ inPlace' = {s \in Shards : s \in Holding(disk, Orig[s])}
  /\ missing' = {f \in Files : disk[f] = NoFile}
  /\ wrongSize' = {f \in Files : disk[f] # NoFile /\ ~RightSize(disk[f])}
  /\ phase' = "scanned"
  /\ UNCHANGED <<disk, tmp, parity, callVars, preserved, cache, writerVars, todo, errs,
                 chunk, bank, repaired, outcome, faults, boundVars>>

\* Repair is called.
BeginRepair ==
  /\ phase = "scanned" \/ (Reuse /\ phase = "done")
  /\ attempts < MaxAttempts
  /\ attempts' = attempts + 1
  /\ wasOK' = {f \in Files : OK(f)}
  /\ checkParity' \in BOOLEAN
  /\ before' = disk
  /\ preserved' = [s \in Shards |-> Nowhere]
  /\ writer' = [f \in Files |-> IF OK(f) THEN "none" ELSE "waiting"]
  /\ cloned' = {} /\ written' = NoTodo
  /\ repaired' = {} /\ outcome' = "none" /\ errs' = {}
  /\ phase' = "preserve"
  /\ UNCHANGED <<disk, tmp, parity, scanVars, cache, todo, chunk, bank, faults, crashed>>

\* closeAll, then return: every open writer is discarded with its temp file,
\* the deferred cache.Close runs.
Return(result) ==
  /\ tmp' = [f \in Files |-> IF writer[f] = "open" THEN NoFile ELSE tmp[f]]
  /\ writer' = [f \in Files |-> "none"]
  /\ todo' = NoTodo
  /\ cache' = NoCache
  /\ outcome' = result /\ phase' = "done"

ToPreserve == {s \in Shards : /\ s[1] \notin wasOK /\ found[s] # Nowhere
                              /\ found[s][1] # s[1] /\ found[s][1] \notin wasOK}

\* preserveShardsBeforeOverwrite
PreserveShards ==
  /\ phase = "preserve"
  /\ \/ LET open == Opened({found[s][1] : s \in ToPreserve}) IN
        /\ cache' = open
        /\ preserved' = [s \in Shards |-> IF s \in ToPreserve THEN ReadAt(open, found[s])
                                                              ELSE Nowhere]
        /\ phase' = "copy"
        /\ UNCHANGED <<tmp, writer, todo, outcome, faults>>
     \/ ToPreserve # {} /\ Fault("read") /\ Return("failed") /\ UNCHANGED preserved
  /\ UNCHANGED <<disk, parity, scanVars, callVars, cloned, written, errs, chunk, bank,
                 repaired, boundVars>>

-----------------------------------------------------------------------------
(* copySurvivingShards: one goroutine per rewritten file, at most Workers of  *)
(* them running, admitted in file order.                                      *)

Present(f) == {j \in Slots : found[<<f, j>>] # Nowhere}
\* Relocation inside the set forgotten: whatever is present stays as cloned.
MovedPreservedOnly(f) == {j \in Present(f) : preserved[<<f, j>>] # Nowhere}

\* Present shards a clone does not already hold at their place.
Moved(f) == {j \in Present(f) : \/ preserved[<<f, j>>] # Nowhere
                                \/ found[<<f, j>>] # <<f, j>>}

Admitted(f) == /\ phase = "copy" /\ writer[f] = "waiting"
               /\ \A g \in 1..(f - 1) : writer[g] # "waiting"
               /\ Cardinality({g \in Files : writer[g] = "copying"}) < Workers

OpenPatch(f) ==
  /\ Admitted(f) /\ CanPatch /\ f \notin missing /\ disk[f] # NoFile
  /\ tmp' = [tmp EXCEPT ![f] = Resized(disk[f])]
  /\ cloned' = cloned \cup {f}
  /\ writer' = [writer EXCEPT ![f] = "copying"]
  /\ todo' = [todo EXCEPT ![f] = Moved(f)]
  /\ UNCHANGED <<disk, parity, scanVars, phase, callVars, preserved, cache, written, errs,
                 chunk, bank, repaired, outcome, faults, boundVars>>

\* Also the fallback when the filesystem cannot clone.
OpenWrite(f) ==
  /\ Admitted(f)
  /\ tmp' = [tmp EXCEPT ![f] = Empty]
  /\ writer' = [writer EXCEPT ![f] = "copying"]
  /\ todo' = [todo EXCEPT ![f] = Present(f)]
  /\ UNCHANGED <<disk, parity, scanVars, phase, callVars, preserved, cache, cloned, written,
                 errs, chunk, bank, repaired, outcome, faults, boundVars>>

\* Opening fails; an attempted clone or truncation removed the temp file.
OpenFails(f) ==
  /\ Admitted(f) /\ Fault("open")
  /\ \E t \in {tmp[f], NoFile} : tmp' = [tmp EXCEPT ![f] = t]
  /\ writer' = [writer EXCEPT ![f] = "none"]
  /\ errs' = errs \cup {f}
  /\ UNCHANGED <<disk, parity, scanVars, phase, callVars, preserved, cache, cloned, written,
                 todo, chunk, bank, repaired, outcome, boundVars>>

CopyShard(f) ==
  /\ phase = "copy" /\ writer[f] = "copying"
  /\ \E j \in Slots :
       LET s    == <<f, j>>
           kept == preserved[s] # Nowhere
           open == IF kept THEN cache ELSE Opened({found[s][1]})
           data == IF kept THEN preserved[s] ELSE ReadAt(open, found[s])
       IN /\ First(f, j)
          /\ cache' = open
          /\ \E c \in {data, Junk} : Leaves(data, c) /\ tmp' = [tmp EXCEPT ![f][j] = c]
          /\ todo' = [todo EXCEPT ![f] = @ \ {j}]
          /\ written' = IF f \in cloned THEN [written EXCEPT ![f] = @ \cup {j}] ELSE written
  /\ UNCHANGED <<disk, parity, scanVars, phase, callVars, preserved, writer, cloned, errs,
                 chunk, bank, repaired, outcome, boundVars>>

\* The discard of the temp file left out of the error path.
CopyFailsKeepingTemp(f) ==
  /\ phase = "copy" /\ writer[f] = "copying" /\ todo[f] # {}
  /\ Fault("read") \/ Fault("write")
  /\ writer' = [writer EXCEPT ![f] = "none"]
  /\ todo' = [todo EXCEPT ![f] = {}]
  /\ errs' = errs \cup {f}
  /\ UNCHANGED <<disk, tmp, parity, scanVars, phase, callVars, preserved, cache, cloned,
                 written, chunk, bank, repaired, outcome, boundVars>>

\* The error dropped: the copy loop is left, the writer registered.
CopyFailsUnreported(f) ==
  /\ phase = "copy" /\ writer[f] = "copying" /\ todo[f] # {}
  /\ Fault("read") \/ Fault("write")
  /\ todo' = [todo EXCEPT ![f] = {}]
  /\ UNCHANGED <<disk, tmp, parity, scanVars, phase, callVars, preserved, cache, writerVars,
                 errs, chunk, bank, repaired, outcome, boundVars>>

\* A read or write error: the goroutine discards its own writer.
CopyFails(f) ==
  /\ phase = "copy" /\ writer[f] = "copying" /\ todo[f] # {}
  /\ Fault("read") \/ Fault("write")
  /\ tmp' = [tmp EXCEPT ![f] = NoFile]
  /\ writer' = [writer EXCEPT ![f] = "none"]
  /\ todo' = [todo EXCEPT ![f] = {}]
  /\ errs' = errs \cup {f}
  /\ UNCHANGED <<disk, parity, scanVars, phase, callVars, preserved, cache, cloned, written,
                 chunk, bank, repaired, outcome, boundVars>>

Register(f) ==
  /\ phase = "copy" /\ writer[f] = "copying" /\ todo[f] = {}
  /\ writer' = [writer EXCEPT ![f] = "open"]
  /\ UNCHANGED <<disk, tmp, parity, scanVars, phase, callVars, preserved, cache, cloned,
                 written, todo, errs, chunk, bank, repaired, outcome, faults, boundVars>>

\* wg.Wait, then the first copy error aborts.
EndCopy ==
  /\ phase = "copy" /\ \A f \in Files : writer[f] \in {"none", "open"}
  /\ IF errs = {}
       THEN /\ phase' = "fold" /\ chunk' = 1 /\ bank' = TRUE
            /\ UNCHANGED <<tmp, writer, todo, cache, outcome>>
       ELSE Return("failed") /\ UNCHANGED <<chunk, bank>>
  /\ UNCHANGED <<disk, parity, scanVars, callVars, preserved, cloned, written, errs, repaired,
                 faults, boundVars>>

-----------------------------------------------------------------------------
(* reconstructTo and the sink Repair passes to it.                            *)

\* The bytes fold input s reads, as a cache that opened need serves them.
Input(open, s) == IF preserved[s] # Nowhere THEN preserved[s] ELSE ReadAt(open, found[s])

\* One recovery block too many asked for.
UnrepairableStrict == parity = 0 \/ Cardinality(Unpresent) >= parity

Unrepairable == parity = 0 \/ Cardinality(Unpresent) > parity

\* The Reed-Solomon arithmetic: right inputs rebuild the right bytes, a
\* wrong one spoils them.
Fold ==
  /\ phase = "fold"
  /\ \/ /\ \/ Unrepairable /\ UNCHANGED faults
           \/ ~Unrepairable /\ Unpresent # {} /\ Fault("read")
        /\ Return("failed")
        /\ UNCHANGED <<bank, errs>>
     \/ /\ ~Unrepairable /\ Unpresent = {}
        /\ phase' = "close"
        /\ UNCHANGED <<tmp, writer, todo, cache, outcome, bank, errs, faults>>
     \/ /\ ~Unrepairable /\ Unpresent # {}
        /\ LET inputs == Shards \ Unpresent
               open   == Opened({found[s][1] : s \in {x \in inputs : preserved[x] = Nowhere}})
           IN /\ cache' = open
              /\ bank' = (bank /\ \A s \in inputs : Input(open, s) = Orig[s])
        /\ todo' = [f \in Files |-> {j \in Slots : <<f, j>> \in Unpresent}]
        /\ errs' = {}
        /\ phase' = "write"
        /\ UNCHANGED <<tmp, writer, outcome, faults>>
  /\ UNCHANGED <<disk, parity, scanVars, callVars, preserved, cloned, written, chunk,
                 repaired, boundVars>>

\* Rebuilt slices not added to the list of written ones.
WriteRowUnlisted(f) ==
  /\ phase = "write"
  /\ \E j \in Slots :
       LET data == IF bank /\ chunk = Chunks THEN Orig[<<f, j>>] ELSE Junk
       IN /\ First(f, j)
          /\ \/ /\ \E c \in {data, Junk} : Leaves(data, c) /\ tmp' = [tmp EXCEPT ![f][j] = c]
                /\ todo' = [todo EXCEPT ![f] = @ \ {j}]
                /\ UNCHANGED errs
             \/ /\ Fault("write")
                /\ todo' = [todo EXCEPT ![f] = {}]
                /\ errs' = errs \cup {f}
                /\ UNCHANGED tmp
  /\ UNCHANGED <<disk, parity, scanVars, phase, callVars, preserved, cache, writerVars,
                 chunk, bank, repaired, outcome, boundVars>>

\* One row of the current byte range, by the worker that took the file; the
\* slot holds its slice once the last range is in.
WriteRow(f) ==
  /\ phase = "write"
  /\ \E j \in Slots :
       LET data == IF bank /\ chunk = Chunks THEN Orig[<<f, j>>] ELSE Junk
       IN /\ First(f, j)
          /\ written' = IF chunk = 1 /\ f \in cloned
                          THEN [written EXCEPT ![f] = @ \cup {j}] ELSE written
          /\ \/ /\ \E c \in {data, Junk} : Leaves(data, c) /\ tmp' = [tmp EXCEPT ![f][j] = c]
                /\ todo' = [todo EXCEPT ![f] = @ \ {j}]
                /\ UNCHANGED errs
             \/ /\ Fault("write")
                /\ todo' = [todo EXCEPT ![f] = {}]
                /\ errs' = errs \cup {f}
                /\ UNCHANGED tmp
  /\ UNCHANGED <<disk, parity, scanVars, phase, callVars, preserved, cache, writer, cloned,
                 chunk, bank, repaired, outcome, boundVars>>

\* A range of zero bytes: the loop over the slice never advances.
EndWriteStuck ==
  /\ phase = "write" /\ todo = NoTodo
  /\ IF errs # {}
       THEN Return("failed") /\ UNCHANGED chunk
       ELSE /\ phase' = IF chunk < Chunks THEN "fold" ELSE "close"
            /\ UNCHANGED <<tmp, writer, todo, cache, outcome, chunk>>
  /\ UNCHANGED <<disk, parity, scanVars, callVars, preserved, cloned, written, errs, bank,
                 repaired, faults, boundVars>>

\* The sink waits for every worker before it returns its error.
EndWrite ==
  /\ phase = "write" /\ todo = NoTodo
  /\ IF errs # {}
       THEN Return("failed") /\ UNCHANGED chunk
       ELSE /\ phase' = IF chunk < Chunks THEN "fold" ELSE "close"
            /\ chunk' = IF chunk < Chunks THEN chunk + 1 ELSE chunk
            /\ UNCHANGED <<tmp, writer, todo, cache, outcome>>
  /\ UNCHANGED <<disk, parity, scanVars, callVars, preserved, cloned, written, errs, bank,
                 repaired, faults, boundVars>>

\* The readers kept open over the renames.
CloseReadersLate ==
  /\ phase = "close"
  /\ phase' = "commit" /\ errs' = {}
  /\ UNCHANGED <<disk, tmp, parity, scanVars, callVars, preserved, cache, writerVars, todo,
                 chunk, bank, repaired, outcome, faults>>
  /\ UNCHANGED boundVars

\* cache.Close before the renames.
CloseReaders ==
  /\ phase = "close"
  /\ cache' = NoCache /\ phase' = "commit" /\ errs' = {}
  /\ UNCHANGED <<disk, tmp, parity, scanVars, callVars, preserved, writerVars, todo, chunk,
                 bank, repaired, outcome, faults, boundVars>>

-----------------------------------------------------------------------------
(* Publication: one closeFn(true) per writer, in parallel.                    *)

Commit(f) ==
  /\ phase = "commit" /\ writer[f] = "open"
  /\ writer' = [writer EXCEPT ![f] = "shut"]
  /\ tmp' = [tmp EXCEPT ![f] = NoFile]
  /\ \/ disk' = [disk EXCEPT ![f] = tmp[f]] /\ UNCHANGED <<errs, faults>>
     \/ Fault("rename") /\ errs' = errs \cup {f} /\ UNCHANGED disk
  /\ UNCHANGED <<parity, scanVars, phase, callVars, preserved, cache, cloned, written, todo,
                 chunk, bank, repaired, outcome, boundVars>>

EndCommit ==
  /\ phase = "commit" /\ \A f \in Files : writer[f] # "open"
  /\ IF errs = {}
       THEN phase' = "check" /\ UNCHANGED <<tmp, writer, todo, cache, outcome>>
       ELSE Return("failed")
  /\ UNCHANGED <<disk, parity, scanVars, callVars, preserved, cloned, written, errs, chunk,
                 bank, repaired, faults, boundVars>>

\* The slices checkWrittenFiles reads back: those written over a clone, or
\* all of them when that is half the file or more, or nothing was written.
CheckedRows(f) ==
  IF f \in cloned /\ ~checkParity /\ written[f] # {} /\ 2 * Cardinality(written[f]) < K
    THEN written[f] ELSE Slots

\* The outcomes are taken in file order: the files before the first failing one
\* are reported, and their infos now describe whole files.
Report(failing) ==
  /\ repaired' = {f \in Rewritten : \A g \in failing : f < g}
  /\ found' = [s \in Shards |-> IF s[1] \in repaired' THEN s ELSE found[s]]
  /\ inPlace' = inPlace \cup {s \in Shards : s[1] \in repaired'}
  /\ missing' = missing \ repaired' /\ wrongSize' = wrongSize \ repaired'
  /\ IF failing # {} THEN Return("failed")
     ELSE IF checkParity
       THEN phase' = "parity" /\ UNCHANGED <<tmp, writer, todo, cache, outcome>>
       ELSE Return("ok")

CheckWritten ==
  /\ phase = "check"
  /\ LET bad  == {f \in Rewritten : \/ ~RightSize(disk[f])
                                    \/ \E j \in CheckedRows(f) : disk[f][j] # Orig[<<f, j>>]}
         \* the 16k head lies in the first slice and may show its damage
         head == {f \in Rewritten : disk[f][1] # Orig[<<f, 1>>]}
     IN \E hit \in SUBSET head, io \in {{}} \cup {{f} : f \in Rewritten} :
          /\ IF io = {} THEN UNCHANGED faults ELSE Fault("read")
          /\ Report(bad \cup hit \cup io)
  /\ UNCHANGED <<disk, parity, callVars, preserved, cloned, written, errs, chunk, bank,
                 boundVars>>

\* verifyParity, through a cache of its own: any shard that does not read as
\* the protected content changes some recomputed recovery block.
VerifyParity ==
  /\ phase = "parity"
  /\ LET open == [f \in Files |-> disk[f]]
         same == \A s \in Shards : ReadAt(open, found[s]) = Orig[s]
     IN \/ /\ Return(IF parity = 0 \/ same THEN "ok" ELSE "mismatch")
           /\ UNCHANGED faults
        \/ parity # 0 /\ Fault("read") /\ Return("failed")
  /\ UNCHANGED <<disk, parity, scanVars, callVars, preserved, cloned, written, errs, chunk,
                 bank, repaired, boundVars>>

-----------------------------------------------------------------------------
\* A new process: only the disk, temp files included, survives.
Forget ==
  /\ found' = [s \in Shards |-> Nowhere]
  /\ inPlace' = {} /\ missing' = {} /\ wrongSize' = {}
  /\ preserved' = [s \in Shards |-> Nowhere] /\ cache' = NoCache
  /\ writer' = [f \in Files |-> "none"] /\ cloned' = {} /\ written' = NoTodo
  /\ todo' = NoTodo /\ errs' = {} /\ chunk' = 0 /\ bank' = TRUE
  /\ wasOK' = {} /\ checkParity' = FALSE /\ before' = disk
  /\ repaired' = {} /\ outcome' = "none" /\ phase' = "new"
  /\ UNCHANGED <<disk, tmp, parity, attempts>>

Crash ==
  /\ phase \notin {"new", "done"}
  /\ Fault("crash") /\ crashed' = TRUE /\ Forget

NewDecoder ==
  /\ phase = "done" /\ attempts < MaxAttempts
  /\ Forget /\ UNCHANGED <<faults, crashed>>

Stopped == /\ phase \in {"done", "scanned"} /\ attempts = MaxAttempts
           /\ UNCHANGED vars

Step == \/ LoadFileData \/ BeginRepair \/ PreserveShards
        \/ \E f \in Files : \/ OpenPatch(f) \/ OpenWrite(f) \/ OpenFails(f)
                            \/ CopyShard(f) \/ CopyFails(f) \/ Register(f)
                            \/ WriteRow(f) \/ Commit(f)
        \/ EndCopy \/ Fold \/ EndWrite \/ CloseReaders \/ EndCommit
        \/ CheckWritten \/ VerifyParity

Next == Step \/ Crash \/ NewDecoder \/ Stopped

\* The Go runtime keeps running a goroutine that can run, and every wait in
\* Repair is for goroutines that can.
Spec == Init /\ [][Next]_vars /\ WF_vars(Step)

-----------------------------------------------------------------------------
(* Properties                                                                 *)

\* Type correctness.
TypeOK ==
  /\ disk \in [Files -> Image \cup {NoFile}]
  /\ tmp \in [Files -> Image \cup {NoFile}]
  /\ parity \in 0..MaxParity
  /\ found \in [Shards -> Loc \cup {Nowhere}]
  /\ inPlace \subseteq Shards /\ missing \subseteq Files /\ wrongSize \subseteq Files
  /\ phase \in {"new", "scanned", "preserve", "copy", "fold", "write", "close", "commit",
                "check", "parity", "done"}
  /\ checkParity \in BOOLEAN /\ wasOK \subseteq Files
  /\ preserved \in [Shards -> Content \cup {Junk, Nowhere}]
  /\ cache \in [Files -> Image \cup {NoFile}]
  /\ writer \in [Files -> {"none", "waiting", "copying", "open", "shut"}]
  /\ cloned \subseteq Files /\ written \in [Files -> SUBSET Slots]
  /\ todo \in [Files -> SUBSET Slots] /\ errs \subseteq Files
  /\ chunk \in 0..Chunks /\ bank \in BOOLEAN
  /\ repaired \subseteq Files /\ outcome \in {"none", "ok", "failed", "mismatch"}
  /\ before \in [Files -> Image \cup {NoFile}]
  /\ faults \in 0..MaxFaults /\ attempts \in 0..MaxAttempts /\ crashed \in BOOLEAN

\* A protected file is replaced by nothing but its complete original content:
\* whatever fails, and wherever the process dies, each path holds what it held
\* before or the whole repaired file (OpenWrite, OpenPatch, tempCommitCloser).
ReplacedOnlyByPristine ==
  [][\A f \in Files : disk'[f] # disk[f] => disk'[f] = Pristine(f)]_vars

\* Every path Repair returns names a file that is whole on disk, even when the
\* medium silently corrupted a write (checkWrittenFiles).
ReportedArePristine == \A f \in repaired : disk[f] = Pristine(f)

\* A repair that reports success leaves the whole recovery set intact, the
\* files it did not rewrite included.
SuccessMeansWhole == outcome = "ok" => \A f \in Files : disk[f] = Pristine(f)

\* No temporary sibling outlives a repair that returned, after whatever error
\* (closeAll and the copy goroutines' own discards); a success also clears what
\* a crashed attempt left behind.
NoStrayTemps ==
  /\ outcome = "ok" => \A f \in Files : tmp[f] = NoFile
  /\ phase = "done" /\ ~crashed => \A f \in Files : tmp[f] = NoFile

\* Renames happen with no reader left open and no goroutine still staging
\* (Windows refuses to rename over an open file).
CommitIsQuiet ==
  [][disk' # disk => /\ cache = NoCache
                     /\ \A f \in Files : todo[f] = {} /\ writer[f] # "copying"]_vars

Recoverable(d) == parity > 0 /\ Cardinality(Missing(d)) <= parity
\* No slice of one file is stored in another's path.
Unmixed(d) == \A s \in Shards : \E f \in Files :
                \A l \in Holding(d, Orig[s]) : l[1] = f /\ Orig[s] \in {Orig[<<f, j>>] : j \in Slots}

\* As long as no file's slices sit in another file, an interrupted or failed
\* repair never turns a repairable set into an unrepairable one.
StaysRecoverable ==
  [][Unmixed(disk) /\ Recoverable(disk) => Recoverable(disk')]_vars

\* With recovery blocks enough and no fault, Repair does not fail.
NoSpuriousFailure == outcome = "failed" /\ faults = 0 => ~Recoverable(before)

\* Every call returns: no wait in the fan-outs of Repair is for ever.
Returns == phase = "preserve" ~> phase \in {"done", "new"}

(* The inductive strengthening of TypeOK, of ReplacedOnlyByPristine and of what  *)
(* Repair reports, for a Decoder used once.                                     *)

\* What the scan recorded is on disk until the first rename, and everything
\* read from there is the protected content.
ScanHolds ==
  /\ phase = "new" => cache = NoCache
  /\ phase \in {"scanned", "preserve", "copy", "fold", "write"} =>
       /\ \A s \in Shards : found[s] # Nowhere => found[s] \in Holding(disk, Orig[s])
       /\ \A s \in inPlace : found[s] # Nowhere
       /\ \A f \in Files : cache[f] \in {NoFile, disk[f]}
  /\ phase \in {"preserve", "copy", "fold", "write"} =>
       \A f \in wasOK, j \in Slots : <<f, j>> \in inPlace
  /\ phase \in {"copy", "fold", "write"} =>
       \A s \in Shards : preserved[s] \in {Nowhere, Orig[s]}

\* A file still to be published has an open writer, unless its goroutine failed.
WritersHold ==
  /\ phase \in {"preserve", "copy"} =>
       \A f \in Files \ wasOK : writer[f] = "none" => f \in errs
  /\ phase \in {"fold", "write"} => \A f \in Files \ wasOK : writer[f] = "open"
  /\ phase \in {"new", "scanned", "check", "parity", "done"} =>
       \A f \in Files : writer[f] \in {"none", "shut"}
  /\ phase = "preserve" => \A f \in Files : writer[f] \in {"none", "waiting"}
  /\ phase \in {"fold", "write", "close", "commit"} =>
       \A f \in Files : writer[f] \in {"none", "open", "shut"}

\* No write can have spoiled the slot: none has silently failed, or it is a slot of
\* a clone that was not written.
Unspoiled(f, j) == \/ "silent" \notin Faults \/ faults = 0
                   \/ f \in cloned /\ j \notin written[f]
Intact(img, f, S) == \A j \in S : Unspoiled(f, j) => img[j] = Orig[<<f, j>>]

\* What an open writer holds at each stage.
StagedHolds ==
  \A f \in Files : writer[f] \in {"copying", "open"} =>
    /\ tmp[f] \in Image /\ tmp[f][K + 1] = Nil
    /\ phase = "copy" =>
         /\ todo[f] \subseteq Present(f)
         /\ writer[f] = "open" => todo[f] = {}
         /\ Intact(tmp[f], f, Present(f) \ todo[f])
    /\ phase \in {"fold", "write"} => Intact(tmp[f], f, Present(f))
    /\ phase = "write" /\ chunk = Chunks /\ f \notin errs =>
         Intact(tmp[f], f, Slots \ (Present(f) \cup todo[f]))
    /\ phase \in {"close", "commit"} => Intact(tmp[f], f, Slots)

\* Each byte range is reconstructed, then written, and only over missing slices;
\* the first range lists the missing slices of a clone as written.
RangesHold ==
  /\ phase \in {"fold", "write"} => bank /\ chunk \in 1..Chunks
  /\ phase = "write" => /\ \A f \in Files : todo[f] \cap Present(f) = {}
                        /\ \A f \in errs : todo[f] = {}
  /\ \A f \in cloned :
       /\ phase = "fold" /\ chunk > 1 => Slots \ Present(f) \subseteq written[f]
       /\ phase = "write" /\ f \notin errs =>
            Slots \ Present(f) \subseteq written[f] \cup (IF chunk = 1 THEN todo[f] ELSE {})

\* The inductive invariant: copies and reconstructed rows accumulate in the staged
\* files until they are whole but for silent corruption, from readers that still
\* see the scanned files.
RepairInv == TypeOK /\ ScanHolds /\ WritersHold /\ StagedHolds /\ RangesHold

(* What comments of the code say and the code does not do.                    *)

\* decoder.go:1515: "Every shard now sits at its canonical offset on disk, so
\* the parity double-check streams from the repaired files".
MismatchMeansDamage == outcome = "mismatch" => \E f \in Files : disk[f] # Pristine(f)

\* decoder.go:1219: repair is possible when the usable parity shards are at
\* least as many as the unusable data shards.
PossibleMeansRepaired ==
  outcome = "failed" /\ faults = 0 => Cardinality(Missing(before)) > parity

=============================================================================
