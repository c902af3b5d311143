----------------------------- MODULE LoadFileData -----------------------------
(***************************************************************************)
(* Decoder.LoadFileData (par2/decoder.go 674-850) and its worker pool       *)
(* (par2/windowscan.go 25-112): every data file is searched for slices of   *)
(* known content, by workers that take tasks from an unbuffered channel.    *)
(* With FindMisaligned a task is a file (FileScan is the search through     *)
(* one); without, it is a window of a file.                                 *)
(*                                                                          *)
(* A file on disk is the sequence of what the search meets in it: known     *)
(* contents or Junk.  A place in it stands for the byte offset there.       *)
(***************************************************************************)
EXTENDS Naturals, Sequences, FiniteSets, SequencesExt

CONSTANTS
  Content,         \* per file of the recovery set, its slices' contents
  Junk,            \* bytes no checksum matches
  Missing, Locked, \* what the disk may hold instead of a file: nothing, or one that fails to open
  Nowhere,
  Disks,           \* possible states of the disk
  MaxBad,          \* bound on the windows that cannot be read
  WindowSlices,    \* slices per window
  Workers          \* numGoroutines, none of them idle for want of files

Files == DOMAIN Content
Slices == UNION {{f} \X DOMAIN Content[f] : f \in Files}
Bytes == {Junk} \cup UNION {ToSet(Content[f]) : f \in Files}

ASSUME LoadAssumption ==
  /\ Content \in Seq(Seq(Bytes))
  /\ \A d \in Disks : /\ d = [f \in Files |-> d[f]]
                       /\ \A f \in Files : d[f] \in {Missing, Locked} \/ d[f] \in Seq(Bytes)
  /\ WindowSlices \in Nat \ {0}
  /\ Nowhere \notin Files /\ Nowhere \notin Files \X Nat

VARIABLES
  misaligned,      \* scanPolicy.findMisaligned
  disk, bad,       \* the files as the scan finds them; unreadable windows <<file, place>>
  pc, todo,        \* LoadFileData, and the tasks it has not sent
  work,            \* the workers
  errs,            \* the files with an error
  infos, flags,    \* fileIntegrityInfos
  counts,          \* hits and misses per file
  loaded, failedAt \* d.fileIntegrityInfos was assigned; the file whose error is returned

vars == <<misaligned, disk, bad, pc, todo, work, errs, infos, flags, counts, loaded, failedAt>>
env == <<misaligned, disk, bad>>

-----------------------------------------------------------------------------
Readable(f) == disk[f] \notin {Missing, Locked}
Windows(f) == {p \in 1..Len(disk[f]) : (p - 1) % WindowSlices = 0}
WindowEnd(f, p) == Min({Len(disk[f]), p + WindowSlices - 1})

\* fileIDs and slices whose checksums are those of content c.
Located(c) == {s \in Slices : Content[s[1]][s[2]] = c}

\* forEachWindow sends the windows of the files that were opened, file by file.
WindowTasks ==
  FlattenSeq([f \in Files |->
    IF Readable(f) THEN [n \in 1..((Len(disk[f]) + WindowSlices - 1) \div WindowSlices) |->
                           <<f, (n - 1) * WindowSlices + 1>>]
                   ELSE <<>>])
FileTasks == [f \in Files |-> <<f, 1>>]

ShardOK(s) == s \in infos[s].locations
AllShardsOK(f) == \A s \in Slices : s[1] = f => ShardOK(s)

\* The first 16k match: they are taken to lie in the first slice.
SixteenK(f) == IF Content[f] = <<>> THEN disk[f] = <<>>
               ELSE disk[f] # <<>> /\ disk[f][1] = Content[f][1]
WrongSize(f) == Len(disk[f]) # Len(Content[f])

\* The flags fillFileIntegrityInfos and loadFileDataWindowed derive from a scan.
Verdict(f) == [missing |-> FALSE, hashMismatch |-> ~(SixteenK(f) /\ AllShardsOK(f)),
               wrongByteCount |-> WrongSize(f)]

Idle == [at |-> "idle"]
Exited == [at |-> "exited"]
\* A worker at the first place of a window.
At(stage, f, p) == [at |-> stage, file |-> f, first |-> p, place |-> p, hits |-> 0, misses |-> 0]
Clean == [missing |-> FALSE, hashMismatch |-> FALSE, wrongByteCount |-> FALSE]
Gone == [Clean EXCEPT !.missing = TRUE]

-----------------------------------------------------------------------------
\* Nothing is known of the disk, and no worker has a task.
Init ==
  /\ disk \in Disks /\ misaligned \in BOOLEAN
  /\ bad \in {b \in SUBSET UNION {{f} \X Windows(f) : f \in {g \in Files : Readable(g)}} :
                Cardinality(b) <= MaxBad}
  /\ pc = "open" /\ todo = <<>>
  /\ work = [w \in Workers |-> Idle]
  /\ errs = {}
  /\ infos = [s \in Slices |-> [foundAt |-> Nowhere, locations |-> {}]]
  /\ flags = [f \in Files |-> Clean]
  /\ counts = [f \in Files |-> [hits |-> 0, misses |-> 0]]
  /\ loaded = FALSE /\ failedAt = Nowhere

\* The windowed scan opens every file before the pool starts.
Start ==
  /\ pc = "open" /\ pc' = "send"
  /\ IF misaligned
     THEN todo' = FileTasks /\ UNCHANGED <<errs, flags>>
     ELSE /\ todo' = WindowTasks
          /\ errs' = {f \in Files : disk[f] = Locked}
          /\ flags' = [f \in Files |-> IF disk[f] = Missing THEN Gone ELSE Clean]
  /\ UNCHANGED <<env, work, infos, counts, loaded, failedAt>>

\* A worker receives a task; the last send closes the channel.
Send(w) ==
  /\ pc = "send" /\ todo # <<>> /\ work[w].at = "idle"
  /\ work' = [work EXCEPT ![w] = At(IF misaligned THEN "open" ELSE "read", Head(todo)[1], Head(todo)[2])]
  /\ todo' = Tail(todo)
  /\ UNCHANGED <<env, pc, errs, infos, flags, counts, loaded, failedAt>>

Close ==
  /\ pc = "send" /\ todo = <<>> /\ pc' = "wait"
  /\ UNCHANGED <<env, todo, work, errs, infos, flags, counts, loaded, failedAt>>

Exit(w) ==
  /\ pc = "wait" /\ work[w].at = "idle"
  /\ work' = [work EXCEPT ![w] = Exited]
  /\ UNCHANGED <<env, pc, todo, errs, infos, flags, counts, loaded, failedAt>>

\* fillFileIntegrityInfos opens its file.
OpenFile(w) ==
  LET f == work[w].file IN
  /\ work[w].at = "open"
  /\ work' = [work EXCEPT ![w] = IF ~Readable(f) THEN Idle
                                 ELSE IF disk[f] = <<>> THEN [@ EXCEPT !.at = "verdict"]
                                 ELSE [@ EXCEPT !.at = "read"]]
  /\ errs' = IF disk[f] = Locked THEN errs \cup {f} ELSE errs
  /\ flags' = IF disk[f] = Missing THEN [flags EXCEPT ![f] = Gone] ELSE flags
  /\ UNCHANGED <<env, pc, todo, infos, counts, loaded, failedAt>>

\* One file's error skips the windows of every file.
SkippedByAny(f) == ~misaligned /\ errs # {}
Skipped(f) == ~misaligned /\ f \in errs

\* A worker that meets an error returns instead of taking the next task.
AfterErrorExited == Exited
AfterError == Idle

ReadWindow(w) ==
  LET f == work[w].file  unread == <<f, work[w].place>> \in bad IN
  /\ work[w].at = "read"
  /\ work' = [work EXCEPT ![w] = IF Skipped(f) THEN Idle
                                 ELSE IF unread THEN AfterError
                                 ELSE [@ EXCEPT !.at = "scan"]]
  /\ errs' = IF ~Skipped(f) /\ unread THEN errs \cup {f} ELSE errs
  /\ UNCHANGED <<env, pc, todo, infos, flags, counts, loaded, failedAt>>

\* The locations of a slice start anew at each match.
RecordedAnew(info, loc) == [foundAt |-> loc, locations |-> {loc}]
\* A match is recorded under scanMu: first come, first found.
Recorded(info, loc) ==
  [foundAt |-> IF info.foundAt = Nowhere THEN loc ELSE info.foundAt,
   locations |-> info.locations \cup {loc}]

\* scanBuffer meets one place of the window.
ScanSlice(w) ==
  LET f == work[w].file  p == work[w].place  found == Located(disk[f][p])
      last == p = WindowEnd(f, work[w].first)  hit == found # {} IN
  /\ work[w].at = "scan"
  /\ infos' = [s \in Slices |-> IF s \in found THEN Recorded(infos[s], <<f, p>>) ELSE infos[s]]
  /\ work' = [work EXCEPT ![w] = [at |-> IF last THEN "count" ELSE "scan",
                                  file |-> f, first |-> @.first, place |-> p + 1,
                                  hits |-> @.hits + (IF hit THEN 1 ELSE 0),
                                  misses |-> @.misses + (IF hit THEN 0 ELSE 1)]]
  /\ UNCHANGED <<env, pc, todo, errs, flags, counts, loaded, failedAt>>

\* The window's hits and misses are added to the file's.
CountWindow(w) ==
  LET f == work[w].file  p == work[w].place IN
  /\ work[w].at = "count"
  /\ counts' = [counts EXCEPT ![f] = [hits |-> @.hits + work[w].hits, misses |-> @.misses + work[w].misses]]
  /\ work' = [work EXCEPT ![w] = IF ~misaligned THEN Idle
                                 ELSE At(IF p > Len(disk[f]) THEN "verdict" ELSE "read", f, p)]
  /\ UNCHANGED <<env, pc, todo, errs, infos, flags, loaded, failedAt>>

\* fillFileIntegrityInfos derives the flags while other files are being scanned.
JudgeFile(w) ==
  LET f == work[w].file IN
  /\ work[w].at = "verdict"
  /\ flags' = [flags EXCEPT ![f] = Verdict(f)]
  /\ work' = [work EXCEPT ![w] = Idle]
  /\ UNCHANGED <<env, pc, todo, errs, infos, counts, loaded, failedAt>>

\* The windowed scan derives the flags after the pool is done.
Judged == {f \in Files : ~misaligned /\ Readable(f) /\ f \notin errs}

FirstError == IF errs = {} THEN Nowhere ELSE Min(errs)

\* The pool is done: results are reported in file order, and the first error returned.
Finish ==
  /\ pc = "wait" /\ \A w \in Workers : work[w].at = "exited"
  /\ pc' = "done"
  /\ flags' = [f \in Files |-> IF f \in Judged THEN Verdict(f) ELSE flags[f]]
  /\ loaded' = (errs = {})
  /\ failedAt' = FirstError
  /\ UNCHANGED <<env, todo, work, errs, infos, counts>>

Worker(w) == \/ OpenFile(w) \/ ReadWindow(w) \/ ScanSlice(w)
             \/ CountWindow(w) \/ JudgeFile(w) \/ Exit(w)
Next == Start \/ Close \/ Finish \/ \E w \in Workers : Send(w) \/ Worker(w)

Spec == Init /\ [][Next]_vars

-----------------------------------------------------------------------------
\* What one goroutine scanning file after file finds.
Places == UNION {{f} \X (1..Len(disk[f])) : f \in {g \in Files : Readable(g)}}
ScannedLocations(s) == {l \in Places : disk[l[1]][l[2]] = Content[s[1]][s[2]]}
ScannedFlags(f) ==
  IF ~Readable(f) THEN Gone
  ELSE [missing |-> FALSE, wrongByteCount |-> WrongSize(f),
        hashMismatch |-> ~(SixteenK(f) /\ \A i \in 1..Len(Content[f]) :
                                            i <= Len(disk[f]) /\ disk[f][i] = Content[f][i])]
ScannedHits(f) == IF Readable(f) THEN Cardinality({p \in 1..Len(disk[f]) : Located(disk[f][p]) # {}}) ELSE 0

\* A scan that succeeds finds what a sequential scan does: every location, flag and count; only which of a slice's locations is
\* its foundAt may differ.
FoundAll ==
  loaded =>
    /\ \A s \in Slices : /\ infos[s].locations = ScannedLocations(s)
                         /\ infos[s].foundAt \in IF ScannedLocations(s) = {} THEN {Nowhere}
                                                 ELSE ScannedLocations(s)
    /\ \A f \in Files : /\ flags[f] = ScannedFlags(f)
                        /\ counts[f].hits = ScannedHits(f)
                        /\ Readable(f) => counts[f].hits + counts[f].misses = Len(disk[f])

\* The error returned is that of the first file that has one.
FirstErrorWins ==
  pc = "done" => failedAt = LET failing == {f \in Files : disk[f] = Locked \/ \E b \in bad : b[1] = f}
                            IN  IF failing = {} THEN Nowhere ELSE Min(failing)

\* Whatever the workers' schedule, a scan finds what one goroutine would find, and
\* fails where it would: "every file is still scanned but the first erroring file in
\* file order wins, matching the sequential outcome for that file" (decoder.go:691-693).
SameAsSequential == FoundAll /\ FirstErrorWins
===============================================================================
