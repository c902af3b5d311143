---------------------------- MODULE SessionProofs ----------------------------
(***************************************************************************)
(* Proofs about the data scan (ScanInv), the load of the recovery volumes   *)
(* (LoadInv) and the session that runs both at once (SessionInv), for every *)
(* set of files, disk, set of volumes, window, batch and number of workers. *)
(*                                                                          *)
(* A scan's invariant says of every place of every file which task it waits *)
(* in, until it is compared, found and counted; a load's says the same of   *)
(* every packet.  When the last worker has exited nothing waits, and what   *)
(* was found is all there is to find.                                       *)
(***************************************************************************)
EXTENDS Session, SequenceLemmas, FiniteSetTheorems

-----------------------------------------------------------------------------
(* The data scan. *)

Stages == {"open", "read", "scan", "count", "verdict"}
Busy == {w \in Workers : work[w].at \in Stages}
Todo == ToSet(todo)

ScanTypeOK ==
  /\ misaligned \in BOOLEAN /\ disk \in Disks
  /\ pc \in {"open", "send", "wait", "done"}
  /\ todo \in Seq(Files \X Nat) /\ IsInjective(todo)
  /\ work \in [Workers -> {Idle, Exited} \cup [at : Stages, file : Files, first : Nat, place : Nat,
                                               hits : Nat, misses : Nat]]
  /\ errs \subseteq Files
  /\ infos \in [Slices -> [foundAt : {Nowhere} \cup (Files \X Nat), locations : SUBSET (Files \X Nat)]]
  /\ flags \in [Files -> [missing : BOOLEAN, hashMismatch : BOOLEAN, wrongByteCount : BOOLEAN]]
  /\ counts \in [Files -> [hits : Nat, misses : Nat]]
  /\ loaded \in BOOLEAN

\* What the code does when: the tasks are there while they are sent, and the workers
\* are gone when the scan is over.
StagesHold ==
  /\ pc # "send" => todo = <<>>
  /\ pc = "open" => Busy = {} /\ errs = {} /\ \A f \in Files : counts[f] = [hits |-> 0, misses |-> 0]
  /\ pc = "done" => /\ \A w \in Workers : work[w].at = "exited"
                    /\ loaded = (errs = {}) /\ failedAt = FirstError
  /\ loaded => pc = "done" /\ errs = {}

TaskOK(t) == IF misaligned THEN t[2] = 1 ELSE Readable(t[1]) /\ t[2] \in Windows(t[1])
WorkerOK(r) ==
  LET f == r.file  p == r.first IN
  /\ r.at \in {"open", "verdict"} => misaligned
  /\ r.at = "open" => p = 1 /\ r.place = 1 /\ r.hits = 0 /\ r.misses = 0
  /\ r.at # "open" => Readable(f)
  /\ r.at \in {"read", "scan", "count"} => p \in Windows(f)
  /\ r.at = "read" => r.place = p /\ r.hits = 0 /\ r.misses = 0
  /\ r.at = "scan" => r.place \in p..WindowEnd(f, p)
  /\ r.at = "count" => r.place = WindowEnd(f, p) + 1
TasksHold == (\A t \in Todo : TaskOK(t)) /\ (\A w \in Busy : WorkerOK(work[w]))

Separate(f, p, g, q) == f = g => ~misaligned /\ (p + WindowSlices <= q \/ q + WindowSlices <= p)

\* No two tasks are about the same window, nor about the same file when a task is a file.
TasksApart ==
  /\ \A t, u \in Todo : t # u => Separate(t[1], t[2], u[1], u[2])
  /\ \A t \in Todo : \A w \in Busy : Separate(t[1], t[2], work[w].file, work[w].first)
  /\ \A w, v \in Busy : w # v => Separate(work[w].file, work[w].first, work[v].file, work[v].first)

EndOf(f, p) == IF misaligned THEN Len(disk[f]) ELSE WindowEnd(f, p)
Waits(t, f, q) == t[1] = f /\ q \in t[2]..EndOf(f, t[2])
\* A worker has not yet compared a place of its task, or not added it to the counts.
Awaits(w, f, q) == /\ w \in Busy /\ work[w].at # "verdict" /\ work[w].file = f
                   /\ q \in work[w].place..EndOf(f, work[w].first)
Owes(w, f, q) == /\ w \in Busy /\ work[w].at # "verdict" /\ work[w].file = f
                 /\ q \in work[w].first..EndOf(f, work[w].first)
Unscanned(f, q) == (\E t \in Todo : Waits(t, f, q)) \/ (\E w \in Workers : Awaits(w, f, q))
Uncounted(f, q) == (\E t \in Todo : Waits(t, f, q)) \/ (\E w \in Workers : Owes(w, f, q))

\* What was found is on disk; what was compared and is on disk was found.
FoundHolds ==
  /\ \A s \in Slices : /\ infos[s].locations \subseteq ScannedLocations(s)
                       /\ infos[s].foundAt \in IF infos[s].locations = {} THEN {Nowhere} ELSE infos[s].locations
  /\ pc # "open" =>
       \A f \in Files \ errs : Readable(f) =>
         \A q \in 1..Len(disk[f]) : ~Unscanned(f, q) =>
           \A s \in Slices : Content[s[1]][s[2]] = disk[f][q] => <<f, q>> \in infos[s].locations

Known(f, S) == {q \in S : Located(disk[f][q]) # {}}
Counted(f) == {q \in 1..Len(disk[f]) : ~Uncounted(f, q)}
Tally(c, f, S) == c.hits = Cardinality(Known(f, S)) /\ c.misses = Cardinality(S \ Known(f, S))

\* Places that were compared are counted by their worker, and then for their file.
CountsHold ==
  /\ \A w \in Busy : work[w].at \in {"scan", "count"} =>
                       Tally(work[w], work[w].file, work[w].first..(work[w].place - 1))
  /\ \A f \in Files : ~Readable(f) => counts[f] = [hits |-> 0, misses |-> 0]
  /\ pc # "open" => \A f \in Files \ errs : Readable(f) => Tally(counts[f], f, Counted(f))

DoneWith(f) == (\A t \in Todo : t[1] # f) /\ (\A w \in Busy : work[w].file # f)

\* A file that is done has its verdict; without the misaligned search, when all are.
FlagsHold ==
  IF misaligned
  THEN pc # "open" => \A f \in Files \ errs : DoneWith(f) => flags[f] = ScannedFlags(f)
  ELSE /\ pc \in {"send", "wait"} => \A f \in Files : ~Readable(f) => f \in errs \/ flags[f] = Gone
       /\ pc = "done" => \A f \in Files \ errs : flags[f] = ScannedFlags(f)

Fails(f) == disk[f] = Locked \/ \E b \in bad : b[1] = f

\* An error is that of its file, and one that was not met is still to come.
ErrorsHold ==
  /\ bad \subseteq Files \X Nat /\ \A b \in bad : Readable(b[1]) /\ b[2] \in Windows(b[1])
  /\ \A f \in errs : Fails(f)
  /\ pc # "open" =>
       /\ \A f \in Files : disk[f] = Locked =>
            \/ f \in errs
            \/ misaligned /\ \/ \E t \in Todo : t[1] = f
                             \/ \E w \in Busy : work[w].file = f /\ work[w].at = "open"
       /\ \A b \in bad : \/ b[1] \in errs
                         \/ \E t \in Todo : Waits(t, b[1], b[2])
                         \/ \E w \in Workers :
                              Awaits(w, b[1], b[2]) /\ (work[w].at \in {"scan", "count"} => b[2] # work[w].first)

ScanInv == /\ ScanTypeOK /\ StagesHold /\ TasksHold /\ TasksApart
           /\ FoundHolds /\ CountsHold /\ FlagsHold /\ ErrorsHold

-----------------------------------------------------------------------------
\* The least of two numbers.
LEMMA Lesser ==
  ASSUME NEW a \in Nat, NEW b \in Nat
  PROVE  Min({a, b}) = IF a <= b THEN a ELSE b
<1>1. CASE a <= b
  <2>1. a \in {a, b} /\ \A y \in {a, b} : a <= y
    BY <1>1
  <2>2. \A x \in {a, b} : (\A y \in {a, b} : x <= y) => x = a
    BY <1>1
  <2> QED BY <1>1, <2>1, <2>2 DEF Min
<1>2. CASE b < a
  <2>1. b \in {a, b} /\ \A y \in {a, b} : b <= y
    BY <1>2
  <2>2. \A x \in {a, b} : (\A y \in {a, b} : x <= y) => x = b
    BY <1>2
  <2> QED BY <1>2, <2>1, <2>2 DEF Min
<1> QED BY <1>1, <1>2

\* What the disk holds.
LEMMA DiskIs ==
  ASSUME disk \in Disks, NEW f \in Files, Readable(f)
  PROVE  /\ disk[f] \in Seq(Bytes) /\ Len(disk[f]) \in Nat
         /\ DOMAIN disk[f] = 1..Len(disk[f])
BY LoadAssumption DEF Readable

\* The files are numbered.
LEMMA FilesAre == Files = 1..Len(Content) /\ Len(Content) \in Nat /\ Files \subseteq Nat
BY LoadAssumption DEF Files

\* Where a window ends.
LEMMA WindowEnds ==
  ASSUME disk \in Disks, NEW f \in Files, Readable(f), NEW p \in Windows(f)
  PROVE  /\ p \in 1..Len(disk[f]) /\ (p - 1) % WindowSlices = 0 /\ WindowSlices \in Nat \ {0}
         /\ WindowEnd(f, p) \in p..Len(disk[f])
         /\ WindowEnd(f, p) = IF Len(disk[f]) <= p + WindowSlices - 1 THEN Len(disk[f]) ELSE p + WindowSlices - 1
<1>1. Len(disk[f]) \in Nat /\ p \in 1..Len(disk[f]) /\ (p - 1) % WindowSlices = 0 /\ WindowSlices \in Nat \ {0}
  BY DiskIs, LoadAssumption DEF Windows
<1>2. p + WindowSlices - 1 \in Nat /\ p + WindowSlices - 1 >= p
  BY <1>1
<1>3. WindowEnd(f, p) = IF Len(disk[f]) <= p + WindowSlices - 1 THEN Len(disk[f]) ELSE p + WindowSlices - 1
  BY <1>1, <1>2, Lesser DEF WindowEnd
<1> QED BY <1>1, <1>2, <1>3

\* The window after a window that does not reach the end of the file.
LEMMA NextWindow ==
  ASSUME disk \in Disks, NEW f \in Files, Readable(f), NEW p \in Windows(f), WindowEnd(f, p) < Len(disk[f])
  PROVE  WindowEnd(f, p) + 1 \in Windows(f) /\ WindowEnd(f, p) + 1 = p + WindowSlices
<1>1. /\ Len(disk[f]) \in Nat /\ p \in 1..Len(disk[f]) /\ (p - 1) % WindowSlices = 0 /\ WindowSlices \in Nat \ {0}
      /\ WindowEnd(f, p) = p + WindowSlices - 1
  BY WindowEnds, DiskIs
<1>2. ((p - 1) + WindowSlices) % WindowSlices = 0
  <2>1. WindowSlices % WindowSlices = 0
    <3>1. WindowSlices \in Int /\ WindowSlices = WindowSlices * 1
      BY <1>1
    <3> QED BY <1>1, <3>1, Multiples
  <2>2. p - 1 \in Int /\ WindowSlices \in Int
    BY <1>1
  <2> QED BY ONLY <1>1, <2>1, <2>2, Boundaries
<1>3. (p + WindowSlices) - 1 = (p - 1) + WindowSlices /\ (p - 1) + WindowSlices = WindowEnd(f, p)
  BY ONLY <1>1
<1>4. ((p + WindowSlices) - 1) % WindowSlices = 0 /\ p + WindowSlices \in 1..Len(disk[f])
  BY <1>1, <1>2, <1>3
<1>5. WindowEnd(f, p) + 1 = p + WindowSlices
  BY ONLY <1>1
<1> QED BY <1>4, <1>5 DEF Windows

\* Windows do not overlap.
LEMMA WindowsApart ==
  ASSUME disk \in Disks, NEW f \in Files, Readable(f), NEW p \in Windows(f), NEW q \in Windows(f), p < q
  PROVE  p + WindowSlices <= q
<1>1. /\ p \in Int /\ q \in Int /\ WindowSlices \in Nat \ {0}
      /\ (p - 1) % WindowSlices = 0 /\ (q - 1) % WindowSlices = 0
  BY WindowEnds
<1>2. p - 1 \in Int /\ q - 1 \in Int /\ p - 1 < q - 1
  BY <1>1
<1>3. (p - 1) + WindowSlices <= q - 1
  BY ONLY <1>1, <1>2, Boundaries
<1> QED BY <1>1, <1>3

\* The tasks of a scan are the windows, or the files, each once.
LEMMA TasksAre ==
  ASSUME disk \in Disks
  PROVE  /\ WindowTasks \in Seq(Files \X Nat) /\ IsInjective(WindowTasks)
         /\ \A t : t \in ToSet(WindowTasks) <=>
                     \E f \in Files : Readable(f) /\ \E p \in Windows(f) : t = <<f, p>>
         /\ FileTasks \in Seq(Files \X Nat) /\ IsInjective(FileTasks)
         /\ \A t : t \in ToSet(FileTasks) <=> \E f \in Files : t = <<f, 1>>
<1> DEFINE N(f) == (Len(disk[f]) + WindowSlices - 1) \div WindowSlices
           T(f) == [n \in 1..N(f) |-> <<f, (n - 1) * WindowSlices + 1>>]
           ss == [f \in Files |-> IF Readable(f) THEN T(f) ELSE <<>>]
<1>1. WindowSlices \in Nat \ {0}
  BY LoadAssumption
<1>2. ASSUME NEW f \in Files, Readable(f)
      PROVE  /\ N(f) \in Nat /\ T(f) \in Seq(Files \X Nat) /\ IsInjective(T(f))
             /\ \A t : t \in ToSet(T(f)) <=> \E p \in Windows(f) : t = <<f, p>>
  <2>1. Len(disk[f]) \in Nat
    BY <1>2, DiskIs
  <2>2. /\ N(f) \in Nat
        /\ \A k \in 1..N(f) : (k - 1) * WindowSlices + 1 \in 1..Len(disk[f])
                                /\ ((k - 1) * WindowSlices) % WindowSlices = 0
        /\ \A k, m \in 1..N(f) : k < m => (k - 1) * WindowSlices + WindowSlices <= (m - 1) * WindowSlices
        /\ \A p \in 1..Len(disk[f]) : (p - 1) % WindowSlices = 0 =>
             \E k \in 1..N(f) : p = (k - 1) * WindowSlices + 1
    BY <1>1, <2>1, Pieces
  <2> HIDE DEF N
  <2>3. \A k \in 1..N(f) : T(f)[k] = <<f, (k - 1) * WindowSlices + 1>> /\ T(f)[k] \in Files \X Nat
    BY <2>2
  <2>4. T(f) \in Seq(Files \X Nat) /\ DOMAIN T(f) = 1..N(f)
    BY <2>2, <2>3
  <2> HIDE DEF T
  <2>5. IsInjective(T(f))
    <3> SUFFICES ASSUME NEW k \in 1..N(f), NEW m \in 1..N(f), T(f)[k] = T(f)[m] PROVE k = m
      BY <2>4 DEF IsInjective
    <3>1. (k - 1) * WindowSlices + 1 = (m - 1) * WindowSlices + 1
      BY <2>3
    <3>2. (k - 1) * WindowSlices \in Int /\ (m - 1) * WindowSlices \in Int
      BY <1>1
    <3>3. ~(k < m) /\ ~(m < k)
      BY <1>1, <2>2, <3>1, <3>2
    <3> QED BY <3>3
  <2>6. ASSUME NEW k \in 1..N(f) PROVE \E p \in Windows(f) : T(f)[k] = <<f, p>>
    <3>1. (k - 1) * WindowSlices \in Int
      BY <1>1
    <3>2. ((k - 1) * WindowSlices + 1) - 1 = (k - 1) * WindowSlices
      BY <3>1
    <3>3. (k - 1) * WindowSlices + 1 \in Windows(f)
      BY <2>2, <3>2 DEF Windows
    <3> QED BY <2>3, <3>3
  <2>7. ASSUME NEW p \in Windows(f) PROVE \E k \in 1..N(f) : T(f)[k] = <<f, p>>
    <3>1. p \in 1..Len(disk[f]) /\ (p - 1) % WindowSlices = 0
      BY DEF Windows
    <3> QED BY <2>2, <2>3, <3>1
  <2>8. ToSet(T(f)) = {T(f)[k] : k \in 1..N(f)}
    BY <2>4 DEF ToSet
  <2> QED BY <2>2, <2>4, <2>5, <2>6, <2>7, <2>8
<1> HIDE DEF N, T
<1>3. ss \in Seq(Seq(Files \X Nat)) /\ DOMAIN ss = Files
  <2>1. \A f \in Files : ss[f] \in Seq(Files \X Nat)
    BY <1>2
  <2>2. ss \in [1..Len(Content) -> Seq(Files \X Nat)]
    BY <2>1, FilesAre
  <2> HIDE DEF ss
  <2> QED BY <2>2, FilesAre
<1>4. \A f \in Files : ss[f] = IF Readable(f) THEN T(f) ELSE <<>>
  OBVIOUS
<1>5. WindowTasks = FlattenSeq(ss)
  BY DEF WindowTasks, N, T
<1> HIDE DEF ss
<1>6. IsInjective(<<>>) /\ ToSet(<<>>) = {}
  BY DEF IsInjective, ToSet
<1>7. \A f \in Files : \A t : t \in ToSet(ss[f]) <=> Readable(f) /\ \E p \in Windows(f) : t = <<f, p>>
  BY <1>2, <1>4, <1>6
<1>8. \A f, g \in Files : f # g => ToSet(ss[f]) \cap ToSet(ss[g]) = {}
  BY <1>7
<1>9. \A f \in Files : IsInjective(ss[f])
  BY <1>2, <1>4, <1>6
<1>10. /\ WindowTasks \in Seq(Files \X Nat) /\ IsInjective(WindowTasks)
       /\ ToSet(WindowTasks) = UNION {ToSet(ss[f]) : f \in Files}
  BY <1>3, <1>5, <1>8, <1>9, Flattened
<1>11. \A t : t \in ToSet(WindowTasks) <=> \E f \in Files : t \in ToSet(ss[f])
  BY <1>10
<1>12. /\ FileTasks \in Seq(Files \X Nat) /\ IsInjective(FileTasks)
       /\ \A t : t \in ToSet(FileTasks) <=> \E f \in Files : t = <<f, 1>>
  <2>1. FileTasks \in [1..Len(Content) -> Files \X Nat] /\ \A f \in Files : FileTasks[f] = <<f, 1>>
    BY FilesAre DEF FileTasks
  <2>2. FileTasks \in Seq(Files \X Nat) /\ DOMAIN FileTasks = Files
    BY <2>1, FilesAre
  <2>3. \A f, g \in Files : FileTasks[f] = FileTasks[g] => f = g
    BY <2>1
  <2>4. ToSet(FileTasks) = {FileTasks[f] : f \in Files}
    BY <2>2 DEF ToSet
  <2>5. IsInjective(FileTasks)
    BY <2>2, <2>3 DEF IsInjective
  <2>6. \A t : t \in ToSet(FileTasks) <=> \E f \in Files : t = <<f, 1>>
    BY <2>1, <2>4
  <2> QED BY <2>2, <2>5, <2>6
<1> QED BY <1>7, <1>10, <1>11, <1>12

-----------------------------------------------------------------------------
Records == [at : Stages, file : Files, first : Nat, place : Nat, hits : Nat, misses : Nat]

\* What a worker is at, and on which task.
LEMMA WorkersAre ==
  ASSUME ScanTypeOK, NEW w \in Workers
  PROVE  /\ work[w] \in {Idle, Exited} \cup Records
         /\ w \in Busy <=> work[w] \in Records
         /\ w \in Busy => /\ work[w].at \in Stages /\ work[w].file \in Files
                          /\ work[w].first \in Nat /\ work[w].place \in Nat
                          /\ work[w].hits \in Nat /\ work[w].misses \in Nat
         /\ w \notin Busy => work[w].at \in {"idle", "exited"}
         /\ work[w].at = "idle" <=> work[w] = Idle
<1>1. work[w] \in {Idle, Exited} \cup Records
  BY DEF ScanTypeOK, Records
<1>2. work[w] \in Records => /\ work[w].at \in Stages /\ work[w].file \in Files
                             /\ work[w].first \in Nat /\ work[w].place \in Nat
                             /\ work[w].hits \in Nat /\ work[w].misses \in Nat
  BY DEF Records
<1>3. Idle.at = "idle" /\ Exited.at = "exited" /\ "idle" \notin Stages /\ "exited" \notin Stages
  BY DEF Idle, Exited, Stages
<1> QED BY <1>1, <1>2, <1>3 DEF Busy

\* A worker that is given a task.
LEMMA AtIsTyped ==
  ASSUME NEW s \in Stages, NEW f \in Files, NEW p \in Nat
  PROVE  At(s, f, p) \in Records
BY DEF At, Records

\* The scan begins with nothing known.
LEMMA ScanTypeInit == Init => ScanTypeOK
<1> SUFFICES ASSUME Init PROVE ScanTypeOK
  OBVIOUS
<1>1. todo \in Seq(Files \X Nat) /\ IsInjective(todo)
  BY DEF Init, IsInjective
<1> QED BY <1>1 DEF Init, ScanTypeOK, Clean

\* The types are kept by every step of the scan.
LEMMA ScanTypeStep == ScanTypeOK /\ TasksHold /\ [Next]_vars => ScanTypeOK'
<1> SUFFICES ASSUME ScanTypeOK, TasksHold, [Next]_vars PROVE ScanTypeOK'
  OBVIOUS
<1> USE DEF env
<1>1. CASE UNCHANGED vars
  BY <1>1 DEF ScanTypeOK, vars
<1>2. CASE Start
  <2>1. todo' \in Seq(Files \X Nat) /\ IsInjective(todo')
    BY <1>2, TasksAre DEF Start, ScanTypeOK
  <2>2. errs' \subseteq Files /\ flags' \in [Files -> [missing : BOOLEAN, hashMismatch : BOOLEAN, wrongByteCount : BOOLEAN]]
    <3>1. /\ Gone \in [missing : BOOLEAN, hashMismatch : BOOLEAN, wrongByteCount : BOOLEAN]
          /\ Clean \in [missing : BOOLEAN, hashMismatch : BOOLEAN, wrongByteCount : BOOLEAN]
      BY DEF Gone, Clean
    <3>2. CASE misaligned
      BY <1>2, <3>2 DEF Start, ScanTypeOK
    <3>3. CASE ~misaligned
      <4>1. flags' = [f \in Files |-> IF disk[f] = Missing THEN Gone ELSE Clean]
        BY <1>2, <3>3 DEF Start
      <4>2. errs' \subseteq Files
        BY <1>2, <3>3 DEF Start
      <4> QED BY <3>1, <4>1, <4>2
    <3> QED BY <3>2, <3>3
  <2> QED BY <1>2, <2>1, <2>2 DEF Start, ScanTypeOK
<1>3. ASSUME NEW w \in Workers, Send(w) PROVE ScanTypeOK'
  <2>1. todo' \in Seq(Files \X Nat) /\ IsInjective(todo') /\ Head(todo) \in Files \X Nat
    BY <1>3, Rest DEF Send, ScanTypeOK
  <2>2. work'[w] \in Records /\ work' = [work EXCEPT ![w] = work'[w]]
    BY <1>3, <2>1, AtIsTyped DEF Send, ScanTypeOK, Stages
  <2> QED BY <1>3, <2>1, <2>2 DEF Send, ScanTypeOK, Records
<1>4. CASE Close
  BY <1>4 DEF Close, ScanTypeOK
<1>5. ASSUME NEW w \in Workers, Exit(w) PROVE ScanTypeOK'
  BY <1>5 DEF Exit, ScanTypeOK
<1>6. ASSUME NEW w \in Workers, OpenFile(w) PROVE ScanTypeOK'
  <2>1. work[w] \in Records /\ work[w].file \in Files
    BY <1>6, WorkersAre DEF OpenFile, Busy, Stages
  <2>2. work'[w] \in {Idle} \cup Records /\ work' = [work EXCEPT ![w] = work'[w]]
    BY <1>6, <2>1 DEF OpenFile, ScanTypeOK, Records, Stages
  <2>3. errs' \subseteq Files /\ flags' \in [Files -> [missing : BOOLEAN, hashMismatch : BOOLEAN, wrongByteCount : BOOLEAN]]
    BY <1>6, <2>1 DEF OpenFile, ScanTypeOK, Gone, Clean
  <2> QED BY <1>6, <2>2, <2>3 DEF OpenFile, ScanTypeOK, Records
<1>7. ASSUME NEW w \in Workers, ReadWindow(w) PROVE ScanTypeOK'
  <2>1. work[w] \in Records /\ work[w].file \in Files
    BY <1>7, WorkersAre DEF ReadWindow, Busy, Stages
  <2>2. work'[w] \in {Idle} \cup Records /\ work' = [work EXCEPT ![w] = work'[w]]
    BY <1>7, <2>1 DEF ReadWindow, ScanTypeOK, Records, Stages, AfterError
  <2> QED BY <1>7, <2>1, <2>2 DEF ReadWindow, ScanTypeOK, Records
<1>8. ASSUME NEW w \in Workers, ScanSlice(w) PROVE ScanTypeOK'
  <2>1. /\ work[w] \in Records /\ work[w].file \in Files /\ work[w].first \in Nat /\ work[w].place \in Nat
        /\ work[w].hits \in Nat /\ work[w].misses \in Nat
    BY <1>8, WorkersAre DEF ScanSlice, Busy, Stages
  <2>2. work'[w] \in Records /\ work' = [work EXCEPT ![w] = work'[w]]
    BY <1>8, <2>1 DEF ScanSlice, ScanTypeOK, Records, Stages
  <2>3. infos' \in [Slices -> [foundAt : {Nowhere} \cup (Files \X Nat), locations : SUBSET (Files \X Nat)]]
    <3>1. ASSUME NEW s \in Slices
          PROVE  Recorded(infos[s], <<work[w].file, work[w].place>>)
                   \in [foundAt : {Nowhere} \cup (Files \X Nat), locations : SUBSET (Files \X Nat)]
      BY <2>1 DEF ScanTypeOK, Recorded
    <3> QED BY <1>8, <3>1 DEF ScanSlice, ScanTypeOK
  <2> QED BY <1>8, <2>2, <2>3 DEF ScanSlice, ScanTypeOK, Records
<1>9. ASSUME NEW w \in Workers, CountWindow(w) PROVE ScanTypeOK'
  <2>1. /\ work[w] \in Records /\ work[w].file \in Files /\ work[w].first \in Nat /\ work[w].place \in Nat
        /\ work[w].hits \in Nat /\ work[w].misses \in Nat
    BY <1>9, WorkersAre DEF CountWindow, Busy, Stages
  <2>2. work'[w] \in {Idle} \cup Records /\ work' = [work EXCEPT ![w] = work'[w]]
    <3>1. \A s \in Stages : At(s, work[w].file, work[w].place) \in Records
      BY <2>1, AtIsTyped
    <3> QED BY <1>9, <2>1, <3>1 DEF CountWindow, ScanTypeOK, Stages
  <2>3. counts' \in [Files -> [hits : Nat, misses : Nat]]
    BY <1>9, <2>1 DEF CountWindow, ScanTypeOK
  <2> QED BY <1>9, <2>2, <2>3 DEF CountWindow, ScanTypeOK, Records
<1>10. ASSUME NEW w \in Workers, JudgeFile(w) PROVE ScanTypeOK'
  <2>1. work[w].file \in Files
    BY <1>10, WorkersAre DEF JudgeFile, Busy, Stages
  <2>2. flags' \in [Files -> [missing : BOOLEAN, hashMismatch : BOOLEAN, wrongByteCount : BOOLEAN]]
    BY <1>10, <2>1 DEF JudgeFile, ScanTypeOK, Verdict, WrongSize
  <2> QED BY <1>10, <2>2 DEF JudgeFile, ScanTypeOK
<1>11. CASE Finish
  <2>1. flags' \in [Files -> [missing : BOOLEAN, hashMismatch : BOOLEAN, wrongByteCount : BOOLEAN]]
    BY <1>11 DEF Finish, ScanTypeOK, Verdict, WrongSize
  <2> QED BY <1>11, <2>1 DEF Finish, ScanTypeOK
<1> QED BY <1>1, <1>2, <1>3, <1>4, <1>5, <1>6, <1>7, <1>8, <1>9, <1>10, <1>11 DEF Next, Worker

-----------------------------------------------------------------------------
\* The files do not change while they are scanned.
LEMMA DiskStays ==
  ASSUME [Next]_vars
  PROVE  /\ disk' = disk /\ misaligned' = misaligned /\ bad' = bad
         /\ \A f : Readable(f)' <=> Readable(f)
         /\ \A f : Windows(f)' = Windows(f)
         /\ \A f, p : WindowEnd(f, p)' = WindowEnd(f, p) /\ EndOf(f, p)' = EndOf(f, p)
         /\ \A f, p, g, q : Separate(f, p, g, q)' <=> Separate(f, p, g, q)
         /\ \A t, f, q : Waits(t, f, q)' <=> Waits(t, f, q)
         /\ \A s : ScannedLocations(s)' = ScannedLocations(s)
         /\ \A f : ScannedFlags(f)' = ScannedFlags(f)
         /\ \A f : Fails(f)' <=> Fails(f)
         /\ \A f, S : Known(f, S)' = Known(f, S)
<1>1. disk' = disk /\ misaligned' = misaligned /\ bad' = bad
  BY DEF Next, Worker, vars, env, Start, Send, Close, Exit, OpenFile, ReadWindow, ScanSlice, CountWindow,
         JudgeFile, Finish
<1>2. \A f : Readable(f)' <=> Readable(f)
  BY <1>1 DEF Readable
<1>3. \A f : Windows(f)' = Windows(f)
  BY <1>1 DEF Windows
<1>4. \A f, p : WindowEnd(f, p)' = WindowEnd(f, p) /\ EndOf(f, p)' = EndOf(f, p)
  BY <1>1 DEF WindowEnd, EndOf
<1>5. \A f, p, g, q : Separate(f, p, g, q)' <=> Separate(f, p, g, q)
  BY <1>1 DEF Separate
<1>6. \A t, f, q : Waits(t, f, q)' <=> Waits(t, f, q)
  BY <1>4 DEF Waits
<1>7. \A s : ScannedLocations(s)' = ScannedLocations(s)
  BY <1>1 DEF ScannedLocations, Places, Readable
<1>8. \A f : ScannedFlags(f)' = ScannedFlags(f)
  BY <1>1 DEF ScannedFlags, Readable, WrongSize, SixteenK
<1>9. \A f : Fails(f)' <=> Fails(f)
  BY <1>1 DEF Fails
<1>10. \A f, S : Known(f, S)' = Known(f, S)
  BY <1>1 DEF Known, Located
<1> QED BY <1>1, <1>2, <1>3, <1>4, <1>5, <1>6, <1>7, <1>8, <1>9, <1>10

\* A step of one worker leaves the others where they are.
LEMMA OthersStay ==
  ASSUME ScanTypeOK, [Next]_vars, NEW w \in Workers, NEW x, work' = [work EXCEPT ![w] = x]
  PROVE  /\ work'[w] = x
         /\ \A v \in Workers : v # w => work'[v] = work[v]
         /\ \A v \in Workers : v # w => (v \in Busy' <=> v \in Busy)
         /\ \A v \in Workers : v # w => \A f, q : (Awaits(v, f, q)' <=> Awaits(v, f, q))
         /\ \A v \in Workers : v # w => \A f, q : (Owes(v, f, q)' <=> Owes(v, f, q))
<1>1. work'[w] = x /\ \A v \in Workers : v # w => work'[v] = work[v]
  BY DEF ScanTypeOK
<1>2. \A v \in Workers : v # w => (v \in Busy' <=> v \in Busy)
  BY <1>1 DEF Busy
<1>3. \A f, p : EndOf(f, p)' = EndOf(f, p)
  BY DiskStays
<1>4. ASSUME NEW v \in Workers, v # w, NEW f, NEW q PROVE Awaits(v, f, q)' <=> Awaits(v, f, q)
  <2>1. work'[v] = work[v] /\ (v \in Busy' <=> v \in Busy)
    BY <1>1, <1>2, <1>4
  <2> QED BY <1>3, <2>1 DEF Awaits
<1>5. ASSUME NEW v \in Workers, v # w, NEW f, NEW q PROVE Owes(v, f, q)' <=> Owes(v, f, q)
  <2>1. work'[v] = work[v] /\ (v \in Busy' <=> v \in Busy)
    BY <1>1, <1>2, <1>5
  <2> QED BY <1>3, <2>1 DEF Owes
<1> QED BY <1>1, <1>2, <1>4, <1>5

\* The scan ends when its workers have.
LEMMA StagesStep == ScanTypeOK /\ ScanTypeOK' /\ StagesHold /\ [Next]_vars => StagesHold'
<1> SUFFICES ASSUME ScanTypeOK, ScanTypeOK', StagesHold, [Next]_vars PROVE StagesHold'
  OBVIOUS
<1> USE DEF env
<1>1. CASE UNCHANGED vars
  BY <1>1 DEF StagesHold, vars, FirstError, Busy
<1>2. CASE Start
  <2>1. pc' = "send" /\ loaded' = loaded
    BY <1>2 DEF Start
  <2> QED BY <1>2, <2>1 DEF Start, StagesHold
<1>3. ASSUME NEW w \in Workers, Send(w) PROVE StagesHold'
  BY <1>3 DEF Send, StagesHold
<1>4. CASE Close
  BY <1>4 DEF Close, StagesHold
<1>5. ASSUME NEW w \in Workers, Exit(w) PROVE StagesHold'
  BY <1>5 DEF Exit, StagesHold
<1>6. ASSUME NEW w \in Workers, work[w].at \in Stages, pc' = pc, todo' = todo, loaded' = loaded PROVE StagesHold'
  <2>1. w \in Busy /\ "exited" \notin Stages
    BY <1>6 DEF Busy, Stages
  <2>2. pc # "open" /\ pc # "done" /\ ~loaded
    BY <1>6, <2>1 DEF StagesHold, Busy, Stages
  <2> QED BY <1>6, <2>2 DEF StagesHold
<1>7. CASE Finish
  BY <1>7 DEF Finish, StagesHold, FirstError
<1> QED BY <1>1, <1>2, <1>3, <1>4, <1>5, <1>6, <1>7
        DEF Next, Worker, OpenFile, ReadWindow, ScanSlice, CountWindow, JudgeFile, Stages

\* One worker or the sender has done something to the tasks.
LEMMA TasksStep ==
  ScanTypeOK /\ ScanTypeOK' /\ StagesHold /\ TasksHold /\ [Next]_vars => TasksHold'
<1> SUFFICES ASSUME ScanTypeOK, ScanTypeOK', StagesHold, TasksHold, [Next]_vars PROVE TasksHold'
  OBVIOUS
<1> USE DEF env
<1>a. /\ \A w \in Busy : WorkerOK(work[w])
      /\ \A t \in Todo : TaskOK(t)
  BY DEF TasksHold
<1>b. (/\ \A w \in Busy' : WorkerOK(work'[w])
       /\ \A t \in Todo' : TaskOK(t)) => TasksHold'
  <2>1. ASSUME NEW w \in Busy', WorkerOK(work'[w]) PROVE WorkerOK(work[w])'
    <3>1. misaligned' = misaligned /\ disk' = disk
      BY DiskStays
    <3> QED BY <2>1, <3>1 DEF WorkerOK, Readable, Windows, WindowEnd
  <2>2. ASSUME NEW t \in Todo', TaskOK(t) PROVE TaskOK(t)'
    BY <2>2, DiskStays DEF TaskOK
  <2> QED BY <2>1, <2>2 DEF TasksHold
<1>c. disk \in Disks
  BY DEF ScanTypeOK
<1>d. ASSUME NEW w \in Workers, NEW x, work' = [work EXCEPT ![w] = x], todo' = todo,
             x \in {Idle, Exited} \/ WorkerOK(x)
      PROVE  TasksHold'
  <2>1. \A v \in Busy' : v = w \/ (v \in Busy /\ work'[v] = work[v])
    BY <1>d, OthersStay DEF Busy
  <2>2. w \in Busy' => WorkerOK(work'[w])
    <3>1. CASE x \in {Idle, Exited}
      <4>1. work'[w] = x
        BY <1>d, OthersStay
      <4>2. w \notin Busy'
        BY <3>1, <4>1 DEF Busy, Idle, Exited, Stages
      <4> QED BY <4>2
    <3>2. CASE WorkerOK(x)
      <4>1. work'[w] = x
        BY <1>d, OthersStay
      <4> QED BY <3>2, <4>1
    <3> QED BY <1>d, <3>1, <3>2
  <2>3. Todo' = Todo
    BY <1>d DEF Todo
  <2> QED BY <1>a, <1>b, <2>1, <2>2, <2>3
<1>1. CASE UNCHANGED vars
  <2>1. Busy' = Busy /\ work' = work /\ Todo' = Todo
    BY <1>1 DEF vars, Busy, Todo
  <2> QED BY <1>a, <1>b, <2>1
<1>2. CASE Start
  <2>1. Busy' = {}
    BY <1>2 DEF Start, StagesHold, Busy
  <2>2. ASSUME NEW t \in Todo' PROVE TaskOK(t)
    <3>1. CASE misaligned
      <4>1. todo' = FileTasks
        BY <1>2, <3>1 DEF Start
      <4>2. \E f \in Files : t = <<f, 1>>
        BY <1>c, <2>2, <4>1, TasksAre DEF Todo
      <4> QED BY <3>1, <4>2 DEF TaskOK
    <3>2. CASE ~misaligned
      <4>1. todo' = WindowTasks
        BY <1>2, <3>2 DEF Start
      <4>2. \E f \in Files : Readable(f) /\ \E p \in Windows(f) : t = <<f, p>>
        BY <1>c, <2>2, <4>1, TasksAre DEF Todo
      <4> QED BY <3>2, <4>2 DEF TaskOK
    <3> QED BY <3>1, <3>2
  <2> QED BY <1>b, <2>1, <2>2
<1>3. ASSUME NEW w \in Workers, Send(w) PROVE TasksHold'
  <2>1. Head(todo) \in Todo /\ Todo' = Todo \ {Head(todo)}
    BY <1>3, Rest DEF Send, Todo, ScanTypeOK
  <2>2. work' = [work EXCEPT ![w] = At(IF misaligned THEN "open" ELSE "read", Head(todo)[1], Head(todo)[2])]
    BY <1>3 DEF Send
  <2>3. TaskOK(Head(todo)) => WorkerOK(At(IF misaligned THEN "open" ELSE "read", Head(todo)[1], Head(todo)[2]))
    BY DEF At, WorkerOK, TaskOK
  <2>4. \A v \in Busy' : v = w \/ (v \in Busy /\ work'[v] = work[v])
    BY <2>2, OthersStay DEF Busy
  <2>5. WorkerOK(work'[w])
    <3> QED BY <1>a, <2>1, <2>2, <2>3, OthersStay
  <2> QED BY <1>a, <1>b, <2>1, <2>4, <2>5
<1>4. CASE Close \/ Finish
  <2>1. Busy' = Busy /\ work' = work /\ Todo' = Todo
    BY <1>4 DEF Close, Finish, Busy, Todo
  <2> QED BY <1>a, <1>b, <2>1
<1>5. ASSUME NEW w \in Workers, Exit(w) PROVE TasksHold'
  <2> QED BY <1>5, <1>d DEF Exit
<1>6. ASSUME NEW w \in Workers, OpenFile(w) PROVE TasksHold'
  <2>1. w \in Busy /\ work[w] \in Records /\ work[w].file \in Files
    BY <1>6, WorkersAre DEF OpenFile, Busy, Stages
  <2>2. WorkerOK(work[w]) /\ work[w].at = "open"
    BY <1>6, <1>a, <2>1 DEF OpenFile
  <2> DEFINE f == work[w].file
             x == IF ~Readable(f) THEN Idle
                  ELSE IF disk[f] = <<>> THEN [work[w] EXCEPT !.at = "verdict"]
                  ELSE [work[w] EXCEPT !.at = "read"]
  <2>3. work' = [work EXCEPT ![w] = x] /\ todo' = todo
    BY <1>6, <2>1 DEF OpenFile, ScanTypeOK
  <2>4. CASE ~Readable(f)
    <3> QED BY <1>d, <2>3, <2>4
  <2>5. CASE Readable(f) /\ disk[f] = <<>>
    <3>1. WorkerOK([work[w] EXCEPT !.at = "verdict"])
      BY <2>1, <2>2, <2>5 DEF Records, WorkerOK
    <3> QED BY <1>d, <2>3, <2>5, <3>1
  <2>6. CASE Readable(f) /\ disk[f] # <<>>
    <3>1. 1 \in Windows(f)
      <4>1. Len(disk[f]) \in Nat /\ Len(disk[f]) # 0
        BY <1>c, <2>1, <2>6, DiskIs
      <4>2. (1 - 1) % WindowSlices = 0
        <5>1. WindowSlices \in Nat \ {0} /\ 0 = WindowSlices * 0
          BY LoadAssumption
        <5>2. 0 % WindowSlices = 0
          BY <5>1, Multiples
        <5> QED BY <5>2
      <4> QED BY <4>1, <4>2 DEF Windows
    <3>2. WorkerOK([work[w] EXCEPT !.at = "read"])
      BY <2>1, <2>2, <2>6, <3>1 DEF Records, WorkerOK
    <3> QED BY <1>d, <2>3, <2>6, <3>2
  <2> QED BY <2>4, <2>5, <2>6
<1>7. ASSUME NEW w \in Workers, ReadWindow(w) PROVE TasksHold'
  <2>1. w \in Busy /\ work[w] \in Records /\ work[w].file \in Files
    BY <1>7, WorkersAre DEF ReadWindow, Busy, Stages
  <2>2. WorkerOK(work[w]) /\ work[w].at = "read"
    BY <1>7, <1>a, <2>1 DEF ReadWindow
  <2>3. todo' = todo /\ \E x : work' = [work EXCEPT ![w] = x] /\ x \in {Idle, [work[w] EXCEPT !.at = "scan"]}
    BY <1>7 DEF ReadWindow, AfterError, ScanTypeOK
  <2>4. WorkerOK([work[w] EXCEPT !.at = "scan"])
    <3>1. Readable(work[w].file) /\ work[w].first \in Windows(work[w].file) /\ work[w].place = work[w].first
      BY <2>2 DEF WorkerOK
    <3>2. WindowEnd(work[w].file, work[w].first) \in Nat /\ work[w].first \in Nat
          /\ work[w].first <= WindowEnd(work[w].file, work[w].first)
      BY <1>c, <2>1, <3>1, WindowEnds, DiskIs
    <3>3. work[w].place \in work[w].first..WindowEnd(work[w].file, work[w].first)
      BY <3>1, <3>2
    <3> QED BY <2>1, <2>2, <3>1, <3>3 DEF Records, WorkerOK
  <2> QED BY <1>d, <2>3, <2>4
<1>8. ASSUME NEW w \in Workers, ScanSlice(w) PROVE TasksHold'
  <2>1. w \in Busy /\ work[w] \in Records /\ work[w].file \in Files /\ work[w].place \in Nat
    BY <1>8, WorkersAre DEF ScanSlice, Busy, Stages
  <2>2. WorkerOK(work[w]) /\ work[w].at = "scan"
    BY <1>8, <1>a, <2>1 DEF ScanSlice
  <2>3. todo' = todo /\ work' = [work EXCEPT ![w] = work'[w]]
    BY <1>8 DEF ScanSlice, ScanTypeOK
  <2>4. /\ work'[w].at = IF work[w].place = WindowEnd(work[w].file, work[w].first) THEN "count" ELSE "scan"
        /\ work'[w].file = work[w].file /\ work'[w].first = work[w].first /\ work'[w].place = work[w].place + 1
    BY <1>8 DEF ScanSlice, ScanTypeOK
  <2>5. WindowEnd(work[w].file, work[w].first) \in Nat /\ work[w].first \in Nat
    BY <1>c, <2>1, <2>2, WindowEnds, DiskIs DEF WorkerOK
  <2>6. WorkerOK(work'[w])
    BY <2>1, <2>2, <2>4, <2>5 DEF WorkerOK
  <2> QED BY <1>d, <2>3, <2>6
<1>9. ASSUME NEW w \in Workers, CountWindow(w) PROVE TasksHold'
  <2>1. w \in Busy /\ work[w] \in Records /\ work[w].file \in Files /\ work[w].place \in Nat
    BY <1>9, WorkersAre DEF CountWindow, Busy, Stages
  <2> DEFINE f == work[w].file
             p == work[w].place
  <2>2. Readable(f) /\ work[w].first \in Windows(f) /\ p = WindowEnd(f, work[w].first) + 1
    BY <1>9, <1>a, <2>1 DEF CountWindow, WorkerOK
  <2>3. todo' = todo /\ work' = [work EXCEPT ![w] = IF ~misaligned THEN Idle
                                   ELSE At(IF p > Len(disk[f]) THEN "verdict" ELSE "read", f, p)]
    BY <1>9 DEF CountWindow, ScanTypeOK
  <2>4. WindowEnd(f, work[w].first) \in Nat /\ WindowEnd(f, work[w].first) <= Len(disk[f]) /\ Len(disk[f]) \in Nat
    BY <1>c, <2>1, <2>2, WindowEnds, DiskIs
  <2>5. p <= Len(disk[f]) => p \in Windows(f)
    <3>1. p <= Len(disk[f]) => WindowEnd(f, work[w].first) < Len(disk[f])
      BY <2>2, <2>4
    <3> QED BY <1>c, <2>1, <2>2, <3>1, NextWindow
  <2>6. CASE ~misaligned
    <3> QED BY <1>d, <2>3, <2>6
  <2>7. CASE misaligned
    <3>1. p > Len(disk[f]) => WorkerOK(At("verdict", f, p))
      BY <2>2, <2>7 DEF At, WorkerOK
    <3>2. ~(p > Len(disk[f])) => WorkerOK(At("read", f, p))
      BY <2>1, <2>2, <2>4, <2>5, <2>7 DEF At, WorkerOK
    <3> QED BY <1>d, <2>3, <2>7, <3>1, <3>2
  <2> QED BY <2>6, <2>7
<1>10. ASSUME NEW w \in Workers, JudgeFile(w) PROVE TasksHold'
  <2> QED BY <1>10, <1>d DEF JudgeFile
<1> QED BY <1>1, <1>2, <1>3, <1>4, <1>5, <1>6, <1>7, <1>8, <1>9, <1>10 DEF Next, Worker

\* Tasks stay apart: one that is sent goes to one worker, who stays in it.
LEMMA ApartStep ==
  ScanTypeOK /\ ScanTypeOK' /\ StagesHold /\ TasksHold /\ TasksApart /\ [Next]_vars => TasksApart'
<1> SUFFICES ASSUME ScanTypeOK, ScanTypeOK', StagesHold, TasksHold, TasksApart, [Next]_vars PROVE TasksApart'
  OBVIOUS
<1> USE DEF env
<1>a. misaligned' = misaligned /\ disk \in Disks
  BY DiskStays DEF ScanTypeOK
<1>b. (/\ \A t, u \in Todo' : t # u => Separate(t[1], t[2], u[1], u[2])
       /\ \A t \in Todo' : \A w \in Busy' : Separate(t[1], t[2], work'[w].file, work'[w].first)
       /\ \A w, v \in Busy' : w # v => Separate(work'[w].file, work'[w].first, work'[v].file, work'[v].first))
      => TasksApart'
  BY <1>a DEF TasksApart, Separate
<1>c. /\ \A t, u \in Todo : t # u => Separate(t[1], t[2], u[1], u[2])
      /\ \A t \in Todo : \A w \in Busy : Separate(t[1], t[2], work[w].file, work[w].first)
      /\ \A w, v \in Busy : w # v => Separate(work[w].file, work[w].first, work[v].file, work[v].first)
  BY DEF TasksApart
<1>d. ASSUME NEW w \in Busy, NEW x, work' = [work EXCEPT ![w] = x], todo' = todo,
             \/ x.at \notin Stages
             \/ x.file = work[w].file /\ (misaligned \/ x.first = work[w].first)
      PROVE  TasksApart'
  <2>1. Todo' = Todo /\ w \in Workers /\ work'[w] = x
    BY <1>d, OthersStay DEF Todo, Busy
  <2>2. \A v \in Busy' : v \in Busy /\ (v # w => work'[v] = work[v])
    BY <1>d, <2>1, OthersStay DEF Busy
  <2>3. w \in Busy' => x.file = work[w].file /\ (misaligned \/ x.first = work[w].first)
    BY <1>d, <2>1 DEF Busy
  <2>4. \A v \in Busy' : work'[v].file = work[v].file /\ (misaligned \/ work'[v].first = work[v].first)
    BY <2>1, <2>2, <2>3
  <2>5. \A t \in Todo' : \A v \in Busy' : Separate(t[1], t[2], work'[v].file, work'[v].first)
    BY <1>c, <2>1, <2>2, <2>4 DEF Separate
  <2>6. \A u, v \in Busy' : u # v => Separate(work'[u].file, work'[u].first, work'[v].file, work'[v].first)
    <3> SUFFICES ASSUME NEW u \in Busy', NEW v \in Busy', u # v
                 PROVE  Separate(work'[u].file, work'[u].first, work'[v].file, work'[v].first)
      OBVIOUS
    <3>1. Separate(work[u].file, work[u].first, work[v].file, work[v].first)
      BY <1>c, <2>2
    <3> QED BY <2>4, <3>1 DEF Separate
  <2> QED BY <1>b, <1>c, <2>1, <2>5, <2>6
<1>1. CASE UNCHANGED vars \/ Close \/ Finish
  <2>1. Busy' = Busy /\ work' = work /\ Todo' = Todo
    BY <1>1 DEF vars, Close, Finish, Busy, Todo
  <2> QED BY <1>b, <1>c, <2>1
<1>2. CASE Start
  <2>1. Busy' = {}
    BY <1>2 DEF Start, StagesHold, Busy
  <2>2. ASSUME NEW t \in Todo', NEW u \in Todo', t # u PROVE Separate(t[1], t[2], u[1], u[2])
    <3>1. CASE misaligned
      <4>1. todo' = FileTasks
        BY <1>2, <3>1 DEF Start
      <4>2. \A s \in Todo' : \E f \in Files : s = <<f, 1>>
        BY <1>a, <4>1, TasksAre DEF Todo
      <4>3. PICK f \in Files : t = <<f, 1>>
        BY <4>2
      <4>4. PICK g \in Files : u = <<g, 1>>
        BY <4>2
      <4> QED BY <2>2, <4>3, <4>4 DEF Separate
    <3>2. CASE ~misaligned
      <4>1. todo' = WindowTasks
        BY <1>2, <3>2 DEF Start
      <4>2. \A s \in Todo' : \E f \in Files : Readable(f) /\ \E p \in Windows(f) : s = <<f, p>>
        BY <1>a, <4>1, TasksAre DEF Todo
      <4>3. PICK f \in Files : Readable(f) /\ \E p \in Windows(f) : t = <<f, p>>
        BY <4>2
      <4>4. PICK p \in Windows(f) : t = <<f, p>>
        BY <4>3
      <4>5. PICK g \in Files : Readable(g) /\ \E q \in Windows(g) : u = <<g, q>>
        BY <4>2
      <4>6. PICK q \in Windows(g) : u = <<g, q>>
        BY <4>5
      <4>7. CASE f = g
        <5>1. p # q /\ p \in Int /\ q \in Int
          BY <1>a, <2>2, <4>3, <4>4, <4>6, <4>7, WindowEnds
        <5>2. p + WindowSlices <= q \/ q + WindowSlices <= p
          BY <1>a, <4>3, <4>7, <5>1, WindowsApart
        <5> QED BY <3>2, <4>4, <4>6, <5>2 DEF Separate
      <4> QED BY <4>4, <4>6, <4>7 DEF Separate
    <3> QED BY <3>1, <3>2
  <2> QED BY <1>b, <2>1, <2>2
<1>3. ASSUME NEW w \in Workers, Send(w) PROVE TasksApart'
  <2> DEFINE h == Head(todo)
  <2>1. h \in Todo /\ Todo' = Todo \ {h}
    BY <1>3, Rest DEF Send, Todo, ScanTypeOK
  <2>2. work' = [work EXCEPT ![w] = At(IF misaligned THEN "open" ELSE "read", h[1], h[2])] /\ w \notin Busy
    BY <1>3 DEF Send, Busy, Stages
  <2>3. work'[w].file = h[1] /\ work'[w].first = h[2]
    <3>1. work'[w] = At(IF misaligned THEN "open" ELSE "read", h[1], h[2])
      BY <2>2, OthersStay
    <3> QED BY <3>1 DEF At
  <2>4. \A v \in Busy' : v = w \/ (v \in Busy /\ work'[v] = work[v])
    BY <2>2, OthersStay DEF Busy
  <2>5. \A t \in Todo' : \A v \in Busy' : Separate(t[1], t[2], work'[v].file, work'[v].first)
    BY <1>c, <2>1, <2>3, <2>4
  <2>6. \A u, v \in Busy' : u # v => Separate(work'[u].file, work'[u].first, work'[v].file, work'[v].first)
    <3> SUFFICES ASSUME NEW u \in Busy', NEW v \in Busy', u # v
                 PROVE  Separate(work'[u].file, work'[u].first, work'[v].file, work'[v].first)
      OBVIOUS
    <3>1. CASE u # w /\ v # w
      BY <1>c, <2>4, <3>1
    <3>2. CASE u = w
      BY <1>c, <2>1, <2>3, <2>4, <3>2
    <3>3. CASE v = w
      <4>1. Separate(h[1], h[2], work'[u].file, work'[u].first)
        BY <1>c, <2>1, <2>4, <3>3
      <4> QED BY <2>3, <3>3, <4>1 DEF Separate
    <3> QED BY <3>1, <3>2, <3>3
  <2> QED BY <1>b, <1>c, <2>1, <2>5, <2>6
<1>4. ASSUME NEW w \in Workers, Exit(w) PROVE TasksApart'
  <2>1. work' = [work EXCEPT ![w] = Exited] /\ todo' = todo /\ w \notin Busy
    BY <1>4 DEF Exit, Busy, Stages
  <2>2. Busy' = Busy /\ \A v \in Busy : work'[v] = work[v]
    <3>0. work'[w] = Exited
      BY <2>1, OthersStay
    <3>1. w \notin Busy'
      BY <3>0 DEF Busy, Exited, Stages
    <3>2. \A v \in Workers : v # w => (v \in Busy' <=> v \in Busy) /\ work'[v] = work[v]
      BY <2>1, OthersStay
    <3> QED BY <2>1, <3>1, <3>2 DEF Busy
  <2>3. Todo' = Todo
    BY <2>1 DEF Todo
  <2> QED BY <1>b, <1>c, <2>2, <2>3
<1>5. ASSUME NEW w \in Workers, OpenFile(w) \/ ReadWindow(w) \/ ScanSlice(w) \/ JudgeFile(w) PROVE TasksApart'
  <2>1. w \in Busy /\ work[w] \in Records
    BY <1>5, WorkersAre DEF OpenFile, ReadWindow, ScanSlice, JudgeFile, Busy, Stages
  <2>2. todo' = todo /\ work' = [work EXCEPT ![w] = work'[w]]
    BY <1>5 DEF OpenFile, ReadWindow, ScanSlice, JudgeFile, ScanTypeOK
  <2>3. work'[w] = Idle \/ (work'[w].file = work[w].file /\ work'[w].first = work[w].first)
    BY <1>5, <2>1 DEF OpenFile, ReadWindow, ScanSlice, JudgeFile, AfterError, Records, ScanTypeOK
  <2>4. Idle.at \notin Stages
    BY DEF Idle, Stages
  <2> QED BY <1>d, <2>1, <2>2, <2>3, <2>4
<1>6. ASSUME NEW w \in Workers, CountWindow(w) PROVE TasksApart'
  <2>1. w \in Busy /\ work[w] \in Records
    BY <1>6, WorkersAre DEF CountWindow, Busy, Stages
  <2>2. todo' = todo /\ work' = [work EXCEPT ![w] = work'[w]]
    BY <1>6 DEF CountWindow, ScanTypeOK
  <2>3. work'[w] = Idle \/ (work'[w].file = work[w].file /\ misaligned)
    BY <1>6, <2>1 DEF CountWindow, At, ScanTypeOK
  <2>4. Idle.at \notin Stages
    BY DEF Idle, Stages
  <2> QED BY <1>d, <2>1, <2>2, <2>3, <2>4
<1> QED BY <1>1, <1>2, <1>3, <1>4, <1>5, <1>6 DEF Next, Worker

-----------------------------------------------------------------------------
\* Every place of a file is in a window of it.
LEMMA InAWindow ==
  ASSUME disk \in Disks, NEW f \in Files, Readable(f), NEW q \in 1..Len(disk[f])
  PROVE  \E p \in Windows(f) : q \in p..WindowEnd(f, p)
<1>1. Len(disk[f]) \in Nat /\ WindowSlices \in Nat \ {0}
  BY DiskIs, LoadAssumption
<1> DEFINE n == WindowSlices
           N == (Len(disk[f]) + n - 1) \div n
<1>2. /\ \A k \in 1..N : (k - 1) * n + 1 \in 1..Len(disk[f]) /\ ((k - 1) * n) % n = 0
      /\ \E k \in 1..N : (k - 1) * n + 1 <= q /\ q <= k * n
  BY <1>1, Pieces
<1> HIDE DEF N
<1>3. PICK k \in 1..N : (k - 1) * n + 1 <= q /\ q <= k * n
  BY <1>2
<1> DEFINE p == (k - 1) * n + 1
<1>4. (k - 1) * n \in Int /\ k * n = (k - 1) * n + n /\ q \in Int
  BY <1>1
<1>5. p \in 1..Len(disk[f]) /\ (p - 1) % n = 0 /\ p <= q /\ q <= p + n - 1
  <2>1. p - 1 = (k - 1) * n
    BY ONLY <1>4
  <2>2. ((k - 1) * n) % n = 0 /\ p \in 1..Len(disk[f])
    BY <1>2
  <2>3. p <= q /\ q <= p + n - 1
    <3>1. p = (k - 1) * n + 1 /\ n \in Int
      BY <1>1
    <3> HIDE DEF p
    <3> QED BY ONLY <1>3, <1>4, <3>1
  <2> QED BY ONLY <2>1, <2>2, <2>3
<1> HIDE DEF p
<1>6. p \in Windows(f)
  BY <1>5 DEF Windows
<1>7. q \in p..WindowEnd(f, p)
  BY <1>1, <1>5, <1>6, WindowEnds
<1> QED BY <1>6, <1>7

\* When the tasks are made, they are about every place.
LEMMA StartCovers ==
  ASSUME ScanTypeOK, StagesHold, Start, NEW f \in Files, Readable(f), NEW q \in 1..Len(disk[f])
  PROVE  \E t \in Todo' : Waits(t, f, q) /\ t \in Files \X Nat
<1>1. disk \in Disks /\ misaligned \in BOOLEAN /\ Len(disk[f]) \in Nat
  BY DiskIs DEF ScanTypeOK
<1>2. CASE misaligned
  <2>1. todo' = FileTasks
    BY <1>2 DEF Start
  <2>2. <<f, 1>> \in Todo'
    BY <1>1, <2>1, TasksAre DEF Todo
  <2>3. Waits(<<f, 1>>, f, q)
    BY <1>2 DEF Waits, EndOf
  <2> QED BY <2>2, <2>3
<1>3. CASE ~misaligned
  <2>1. todo' = WindowTasks
    BY <1>3 DEF Start
  <2>2. PICK p \in Windows(f) : q \in p..WindowEnd(f, p)
    BY <1>1, InAWindow
  <2>3. <<f, p>> \in Todo' /\ p \in Nat
    BY <1>1, <2>1, TasksAre, WindowEnds DEF Todo
  <2>4. Waits(<<f, p>>, f, q)
    BY <1>3, <2>2 DEF Waits, EndOf
  <2> QED BY <2>3, <2>4
<1> QED BY <1>1, <1>2, <1>3

\* A worker keeps what it has not compared yet, unless its file fails.
LEMMA AwaitsStep ==
  ASSUME ScanTypeOK, ScanTypeOK', TasksHold, [Next]_vars, NEW w \in Workers, Worker(w),
         NEW f \in Files, Readable(f), f \notin errs', NEW q \in 1..Len(disk[f])
  PROVE  /\ todo' = todo
         /\ Awaits(w, f, q) => Awaits(w, f, q)' \/ (ScanSlice(w) /\ work[w].file = f /\ work[w].place = q)
         /\ Owes(w, f, q) => Owes(w, f, q)' \/ (CountWindow(w) /\ work[w].file = f /\ q \in work[w].first..(work[w].place - 1))
         /\ Owes(w, f, q)' => Owes(w, f, q)
         /\ Owes(w, f, q)' /\ CountWindow(w) => q >= work[w].place
<1> USE DEF env
<1>a. /\ disk' = disk /\ misaligned' = misaligned /\ disk \in Disks /\ Len(disk[f]) \in Nat
      /\ \A g, p : EndOf(g, p)' = EndOf(g, p)
  BY DiskStays, DiskIs DEF ScanTypeOK
<1>b. w \in Busy => /\ work[w] \in Records /\ work[w].file \in Files /\ work[w].place \in Nat /\ work[w].first \in Nat
                    /\ WorkerOK(work[w])
  BY WorkersAre DEF TasksHold
<1>c. todo' = todo
  BY DEF Worker, Exit, OpenFile, ReadWindow, ScanSlice, CountWindow, JudgeFile
<1> DEFINE A(r) == /\ r.at \in Stages \ {"verdict"} /\ r.file = f /\ q \in r.place..EndOf(f, r.first)
           O(r) == /\ r.at \in Stages \ {"verdict"} /\ r.file = f /\ q \in r.first..EndOf(f, r.first)
<1>d. /\ Awaits(w, f, q) <=> A(work[w])
      /\ Owes(w, f, q) <=> O(work[w])
  BY DEF Awaits, Owes, Busy
<1>e. /\ Awaits(w, f, q)' <=> A(work'[w])
      /\ Owes(w, f, q)' <=> O(work'[w])
  BY <1>a DEF Awaits, Owes, Busy
<1>1. ASSUME w \in Busy, work'[w].at \in Stages \ {"verdict"}, work'[w].file = work[w].file,
             work'[w].first = work[w].first, work'[w].place = work[w].place, work[w].at \in Stages \ {"verdict"},
             ~CountWindow(w)
      PROVE  (A(work'[w]) <=> A(work[w])) /\ (O(work'[w]) <=> O(work[w]))
  BY <1>1
<1>2. CASE OpenFile(w)
  <2>1. w \in Busy /\ work[w].at = "open" /\ ~CountWindow(w)
    BY <1>2 DEF OpenFile, Busy, Stages, CountWindow
  <2>2. misaligned /\ work[w].first = 1 /\ work[w].place = 1
    BY <1>b, <2>1 DEF WorkerOK
  <2>3. work'[w] = IF ~Readable(work[w].file) THEN Idle
                   ELSE IF disk[work[w].file] = <<>> THEN [work[w] EXCEPT !.at = "verdict"]
                   ELSE [work[w] EXCEPT !.at = "read"]
    BY <1>2 DEF OpenFile, ScanTypeOK
  <2>4. CASE work[w].file # f
    BY <1>b, <1>d, <1>e, <1>c, <2>1, <2>3, <2>4 DEF Records, Idle, Stages
  <2>5. CASE work[w].file = f
    <3>1. disk[f] # <<>>
      BY <1>a
    <3>2. work'[w] = [work[w] EXCEPT !.at = "read"]
      BY <2>3, <2>5, <3>1
    <3>3. /\ work'[w].at = "read" /\ work'[w].file = work[w].file /\ work'[w].first = work[w].first
          /\ work'[w].place = work[w].place
      BY <1>b, <2>1, <3>2 DEF Records
    <3>4. (A(work'[w]) <=> A(work[w])) /\ (O(work'[w]) <=> O(work[w]))
      BY <1>1, <2>1, <3>3 DEF Stages
    <3> HIDE DEF A, O
    <3> QED BY <1>c, <1>d, <1>e, <2>1, <3>4
  <2> QED BY <2>4, <2>5
<1>3. CASE ReadWindow(w)
  <2>1. w \in Busy /\ work[w].at = "read" /\ ~CountWindow(w)
    BY <1>3 DEF ReadWindow, Busy, Stages, CountWindow
  <2>2. CASE work[w].file # f
    <3>1. work'[w] = Idle \/ work'[w] = [work[w] EXCEPT !.at = "scan"]
      BY <1>3 DEF ReadWindow, ScanTypeOK, AfterError
    <3>2. ~A(work[w]) /\ ~O(work[w]) /\ ~A(work'[w]) /\ ~O(work'[w])
      BY <1>b, <2>1, <2>2, <3>1 DEF Records, Idle, Stages
    <3> HIDE DEF A, O
    <3> QED BY <1>c, <1>d, <1>e, <2>1, <3>2
  <2>3. CASE work[w].file = f
    <3>1. f \notin errs /\ <<f, work[w].place>> \notin bad
      BY <1>3, <2>3 DEF ReadWindow, Skipped
    <3>2. work'[w] = [work[w] EXCEPT !.at = "scan"]
      BY <1>3, <2>3, <3>1 DEF ReadWindow, Skipped, ScanTypeOK
    <3>3. /\ work'[w].at = "scan" /\ work'[w].file = work[w].file /\ work'[w].first = work[w].first
          /\ work'[w].place = work[w].place
      BY <1>b, <2>1, <3>2 DEF Records
    <3>4. (A(work'[w]) <=> A(work[w])) /\ (O(work'[w]) <=> O(work[w]))
      BY <1>1, <2>1, <3>3 DEF Stages
    <3> HIDE DEF A, O
    <3> QED BY <1>c, <1>d, <1>e, <2>1, <3>4
  <2> QED BY <2>2, <2>3
<1>4. CASE ScanSlice(w)
  <2>1. w \in Busy /\ work[w].at = "scan" /\ ~CountWindow(w)
    BY <1>4 DEF ScanSlice, Busy, Stages, CountWindow
  <2>2. /\ work'[w].at \in {"count", "scan"} /\ work'[w].file = work[w].file
        /\ work'[w].first = work[w].first /\ work'[w].place = work[w].place + 1
    BY <1>4 DEF ScanSlice, ScanTypeOK
  <2>3. O(work'[w]) <=> O(work[w])
    BY <2>1, <2>2 DEF Stages
  <2>4. A(work[w]) => A(work'[w]) \/ (work[w].file = f /\ work[w].place = q)
    BY <1>b, <2>1, <2>2 DEF Stages
  <2> HIDE DEF A, O
  <2> QED BY <1>4, <1>c, <1>d, <1>e, <2>1, <2>3, <2>4
<1>5. CASE CountWindow(w)
  <2> DEFINE p == work[w].place
  <2>1. w \in Busy /\ work[w].at = "count" /\ ~ScanSlice(w)
    BY <1>5 DEF ScanSlice, Busy, Stages, CountWindow
  <2>2. work'[w] = IF ~misaligned THEN Idle
                   ELSE At(IF p > Len(disk[work[w].file]) THEN "verdict" ELSE "read", work[w].file, p)
    BY <1>5 DEF CountWindow, ScanTypeOK
  <2>3. p \in Nat /\ work[w].first \in Nat /\ Readable(work[w].file) /\ work[w].first \in Windows(work[w].file)
        /\ p = WindowEnd(work[w].file, work[w].first) + 1
    BY <1>b, <2>1 DEF WorkerOK
  <2>3a. WindowEnd(work[w].file, work[w].first) \in Nat /\ work[w].first <= WindowEnd(work[w].file, work[w].first)
    <3>1. WindowEnd(work[w].file, work[w].first) \in work[w].first..Len(disk[work[w].file])
      BY <1>a, <1>b, <2>1, <2>3, WindowEnds
    <3> QED BY <2>3, <3>1
  <2>4. A(work'[w]) => A(work[w])
    BY <1>b, <2>1, <2>2, <2>3 DEF At, Idle, Stages, EndOf
  <2>5. CASE misaligned
    <3>1. work'[w] = At(IF p > Len(disk[work[w].file]) THEN "verdict" ELSE "read", work[w].file, p)
      BY <2>2, <2>5
    <3>2. /\ work'[w].at = IF p > Len(disk[work[w].file]) THEN "verdict" ELSE "read"
          /\ work'[w].file = work[w].file /\ work'[w].first = p /\ work'[w].place = p
      BY <3>1 DEF At
    <3>3. A(work[w]) => A(work'[w])
      BY <1>a, <2>1, <2>3, <2>5, <3>2 DEF Stages, EndOf
    <3>4. O(work[w]) => O(work'[w]) \/ (work[w].file = f /\ q \in work[w].first..(p - 1))
      BY <1>a, <2>1, <2>3, <2>5, <3>2 DEF Stages, EndOf
    <3>5. O(work'[w]) => O(work[w]) /\ q >= p
      BY <1>a, <2>1, <2>3, <2>3a, <2>5, <3>2 DEF Stages, EndOf
    <3> HIDE DEF A, O
    <3> QED BY <1>5, <1>c, <1>d, <1>e, <2>1, <3>3, <3>4, <3>5
  <2>6. CASE ~misaligned
    <3>1. work'[w] = Idle
      BY <2>2, <2>6
    <3>2. ~A(work'[w]) /\ ~O(work'[w])
      BY <3>1 DEF Idle, Stages
    <3>3. ~A(work[w])
      BY <2>3, <2>3a, <2>6 DEF EndOf
    <3>4. O(work[w]) => work[w].file = f /\ q \in work[w].first..(p - 1)
      BY <2>3, <2>3a, <2>6 DEF EndOf
    <3> HIDE DEF A, O
    <3> QED BY <1>5, <1>c, <1>d, <1>e, <2>1, <3>2, <3>3, <3>4
  <2> QED BY <2>5, <2>6
<1>6. CASE JudgeFile(w) \/ Exit(w)
  <2>1. ~A(work[w]) /\ ~O(work[w]) /\ ~CountWindow(w)
    BY <1>6 DEF JudgeFile, Exit, Stages, CountWindow
  <2>2. work'[w] \in {Idle, Exited}
    BY <1>6 DEF JudgeFile, Exit, ScanTypeOK
  <2>3. ~A(work'[w]) /\ ~O(work'[w])
    BY <2>2 DEF Idle, Exited, Stages
  <2> HIDE DEF A, O
  <2> QED BY <1>c, <1>d, <1>e, <2>1, <2>3
<1> QED BY <1>2, <1>3, <1>4, <1>5, <1>6 DEF Worker

\* No two holders of a task are about the same place.
LEMMA Alone ==
  ASSUME ScanTypeOK, TasksHold, TasksApart, NEW f \in Files, NEW q, NEW w \in Workers, Owes(w, f, q)
  PROVE  /\ \A t \in Todo : ~Waits(t, f, q)
         /\ \A v \in Workers : v # w => ~Owes(v, f, q)
<1>1. disk \in Disks /\ misaligned \in BOOLEAN /\ Todo \subseteq Files \X Nat
  <2>1. \A t \in ToSet(todo) : t \in Files \X Nat
    BY DEF ScanTypeOK, ToSet
  <2> QED BY <2>1 DEF ScanTypeOK, Todo
<1>2. w \in Busy /\ work[w].file = f /\ q \in work[w].first..EndOf(f, work[w].first) /\ work[w].at # "verdict"
  BY DEF Owes
<1>3. ASSUME NEW g \in Files, NEW p \in Windows(g), NEW r, Readable(g), ~misaligned, r \in p..EndOf(g, p)
      PROVE  r \in Int /\ p \in Int /\ r >= p /\ r < p + WindowSlices
  BY <1>1, <1>3, WindowEnds, DiskIs DEF EndOf
<1>4. ASSUME ~misaligned, NEW v \in Workers, Owes(v, f, q)
      PROVE  Readable(f) /\ work[v].first \in Windows(f)
  <2>1. v \in Busy /\ work[v].file = f /\ work[v].at \in Stages /\ work[v].at # "verdict"
    BY <1>4 DEF Owes, Busy
  <2>2. WorkerOK(work[v])
    BY <2>1 DEF TasksHold
  <2> QED BY <1>4, <2>1, <2>2 DEF WorkerOK, Stages
<1>5. ASSUME NEW t \in Todo, Waits(t, f, q) PROVE FALSE
  <2>1. t[1] = f /\ q \in t[2]..EndOf(f, t[2])
    BY <1>5 DEF Waits
  <2>2. ~misaligned /\ (t[2] + WindowSlices <= work[w].first \/ work[w].first + WindowSlices <= t[2])
    BY <1>2, <2>1 DEF TasksApart, Separate
  <2>3. Readable(f) /\ t[2] \in Windows(f)
    BY <2>1, <2>2 DEF TasksHold, TaskOK
  <2>4. q \in Int /\ t[2] \in Int /\ q >= t[2] /\ q < t[2] + WindowSlices
    BY <1>3, <2>1, <2>2, <2>3
  <2>5. work[w].first \in Int /\ q >= work[w].first /\ q < work[w].first + WindowSlices
    BY <1>2, <1>3, <1>4, <2>2, <2>3
  <2> QED BY <2>2, <2>4, <2>5, LoadAssumption
<1>6. ASSUME NEW v \in Workers, v # w, Owes(v, f, q) PROVE FALSE
  <2>1. v \in Busy /\ work[v].file = f /\ q \in work[v].first..EndOf(f, work[v].first)
    BY <1>6 DEF Owes
  <2>2. ~misaligned /\ (work[v].first + WindowSlices <= work[w].first \/ work[w].first + WindowSlices <= work[v].first)
    BY <1>2, <1>6, <2>1 DEF TasksApart, Separate
  <2>3. Readable(f) /\ work[v].first \in Windows(f)
    BY <1>4, <1>6, <2>2
  <2>4. work[v].first \in Int /\ q >= work[v].first /\ q < work[v].first + WindowSlices
    BY <1>3, <2>1, <2>2, <2>3
  <2>5. q \in Int /\ work[w].first \in Int /\ q >= work[w].first /\ q < work[w].first + WindowSlices
    BY <1>2, <1>3, <1>4, <2>2, <2>3
  <2> QED BY <2>2, <2>4, <2>5, LoadAssumption
<1> QED BY <1>5, <1>6

\* Sending a task hands its places to the worker.
LEMMA SendKeeps ==
  ASSUME ScanTypeOK, TasksHold, [Next]_vars, NEW w \in Workers, Send(w), NEW f \in Files, NEW q
  PROVE  /\ \E h \in Todo : /\ Todo' = Todo \ {h}
                            /\ Waits(h, f, q) <=> Awaits(w, f, q)'
                            /\ Waits(h, f, q) <=> Owes(w, f, q)'
                            /\ w \in Busy' /\ work'[w].file = h[1] /\ work'[w].at \in {"open", "read"}
                            /\ misaligned => work'[w].at = "open"
         /\ ~Awaits(w, f, q) /\ ~Owes(w, f, q)
         /\ Unscanned(f, q)' <=> Unscanned(f, q)
         /\ Uncounted(f, q)' <=> Uncounted(f, q)
<1> DEFINE h == Head(todo)
           s == IF misaligned THEN "open" ELSE "read"
<1>1. h \in Todo /\ Todo' = Todo \ {h}
  BY Rest DEF Send, Todo, ScanTypeOK
<1>2. work' = [work EXCEPT ![w] = At(s, h[1], h[2])] /\ w \notin Busy
  BY DEF Send, Busy, Stages
<1>3. work'[w] = At(s, h[1], h[2])
  BY <1>2, OthersStay
<1>4. /\ work'[w].at = s /\ work'[w].file = h[1] /\ work'[w].first = h[2] /\ work'[w].place = h[2]
      /\ s \in {"open", "read"} /\ s \in Stages /\ s # "verdict"
  BY <1>3 DEF At, Stages
<1>5. w \in Busy'
  BY <1>4 DEF Busy
<1>6. /\ disk' = disk /\ misaligned' = misaligned
      /\ \A g, p : EndOf(g, p)' = EndOf(g, p)
      /\ \A t : Waits(t, f, q)' <=> Waits(t, f, q)
  BY DiskStays
<1> HIDE DEF h, s
<1>7. (Awaits(w, f, q)' <=> Waits(h, f, q)) /\ (Owes(w, f, q)' <=> Waits(h, f, q))
  BY <1>4, <1>5, <1>6 DEF Awaits, Owes, Waits
<1>8. ~Awaits(w, f, q) /\ ~Owes(w, f, q)
  BY <1>2 DEF Awaits, Owes
<1>9. \A v \in Workers : v # w => (Awaits(v, f, q)' <=> Awaits(v, f, q)) /\ (Owes(v, f, q)' <=> Owes(v, f, q))
  BY <1>2, OthersStay
<1>10. Unscanned(f, q)' <=> Unscanned(f, q)
  <2>1. Unscanned(f, q)' <=> (\E t \in Todo' : Waits(t, f, q)) \/ (\E v \in Workers : Awaits(v, f, q)')
    BY <1>6 DEF Unscanned
  <2> QED BY <1>1, <1>7, <1>8, <1>9, <2>1 DEF Unscanned
<1>11. Uncounted(f, q)' <=> Uncounted(f, q)
  <2>1. Uncounted(f, q)' <=> (\E t \in Todo' : Waits(t, f, q)) \/ (\E v \in Workers : Owes(v, f, q)')
    BY <1>6 DEF Uncounted
  <2> QED BY <1>1, <1>7, <1>8, <1>9, <2>1 DEF Uncounted
<1>12. misaligned => work'[w].at = "open"
  BY <1>4 DEF s
<1> QED BY <1>1, <1>4, <1>5, <1>7, <1>8, <1>10, <1>11, <1>12

\* A place is compared when its worker scans it, and added to the counts with its window.
LEMMA PlacesStep ==
  ASSUME ScanTypeOK, ScanTypeOK', TasksHold, TasksApart, [Next]_vars, ~Start,
         NEW f \in Files, Readable(f), f \notin errs', NEW q \in 1..Len(disk[f])
  PROVE  /\ Unscanned(f, q) => \/ Unscanned(f, q)'
                               \/ \E w \in Workers : ScanSlice(w) /\ work[w].file = f /\ work[w].place = q
         /\ Uncounted(f, q)' <=> /\ Uncounted(f, q)
                                 /\ \A w \in Workers : ~ /\ CountWindow(w) /\ work[w].file = f
                                                         /\ q \in work[w].first..(work[w].place - 1)
<1>a. \A t : Waits(t, f, q)' <=> Waits(t, f, q)
  BY DiskStays
<1>b. /\ Unscanned(f, q)' <=> (\E t \in Todo' : Waits(t, f, q)) \/ (\E v \in Workers : Awaits(v, f, q)')
      /\ Uncounted(f, q)' <=> (\E t \in Todo' : Waits(t, f, q)) \/ (\E v \in Workers : Owes(v, f, q)')
  BY <1>a DEF Unscanned, Uncounted
<1>1. CASE UNCHANGED vars \/ Close \/ Finish
  <2>1. /\ work' = work /\ todo' = todo /\ disk' = disk /\ misaligned' = misaligned
        /\ \A w \in Workers : ~CountWindow(w)
    BY <1>1 DEF vars, env, Close, Finish, CountWindow, ScanTypeOK, Idle, At
  <2>2. Todo' = Todo /\ \A v \in Workers : (Awaits(v, f, q)' <=> Awaits(v, f, q)) /\ (Owes(v, f, q)' <=> Owes(v, f, q))
    BY <2>1 DEF Todo, Awaits, Owes, Busy, EndOf, WindowEnd
  <2> QED BY <1>b, <2>1, <2>2 DEF Unscanned, Uncounted
<1>2. ASSUME NEW w \in Workers, Send(w)
      PROVE  /\ Unscanned(f, q) => Unscanned(f, q)'
             /\ Uncounted(f, q)' <=> Uncounted(f, q)
             /\ \A v \in Workers : ~CountWindow(v)
  <2>1. todo' # todo
    BY <1>2, Rest DEF Send, ScanTypeOK
  <2> QED BY <1>2, <2>1, SendKeeps DEF CountWindow
<1>3. ASSUME NEW w \in Workers, Worker(w)
      PROVE  /\ Unscanned(f, q) => \/ Unscanned(f, q)'
                                   \/ \E v \in Workers : ScanSlice(v) /\ work[v].file = f /\ work[v].place = q
             /\ Uncounted(f, q)' <=> /\ Uncounted(f, q)
                                     /\ \A v \in Workers : ~ /\ CountWindow(v) /\ work[v].file = f
                                                             /\ q \in work[v].first..(work[v].place - 1)
  <2>1. /\ todo' = todo
        /\ Awaits(w, f, q) => Awaits(w, f, q)' \/ (ScanSlice(w) /\ work[w].file = f /\ work[w].place = q)
        /\ Owes(w, f, q) => Owes(w, f, q)' \/ (CountWindow(w) /\ work[w].file = f /\ q \in work[w].first..(work[w].place - 1))
        /\ Owes(w, f, q)' => Owes(w, f, q)
        /\ Owes(w, f, q)' /\ CountWindow(w) => q >= work[w].place
    BY <1>3, AwaitsStep
  <2>2. work' = [work EXCEPT ![w] = work'[w]] /\ work'[w] # work[w]
    <3>1. work[w].at \in Stages => work[w] \in Records /\ work[w].place \in Nat
      BY WorkersAre DEF Busy
    <3>2. work' = [work EXCEPT ![w] = work'[w]]
      BY <1>3 DEF Worker, OpenFile, ReadWindow, ScanSlice, CountWindow, JudgeFile, Exit, ScanTypeOK
    <3>3. CASE ScanSlice(w)
      <4>1. work[w].place \in Nat
        BY <3>1, <3>3 DEF ScanSlice, Stages
      <4>2. work'[w].place = work[w].place + 1
        BY <3>3 DEF ScanSlice, ScanTypeOK
      <4> QED BY <3>2, <4>1, <4>2
    <3>4. CASE OpenFile(w) \/ ReadWindow(w)
      <4>1. work[w] \in Records /\ work[w].at \in {"open", "read"}
        BY <3>1, <3>4 DEF OpenFile, ReadWindow, Stages
      <4>2. work'[w].at # work[w].at
        BY <3>4, <4>1 DEF OpenFile, ReadWindow, ScanTypeOK, Idle, AfterError, Records
      <4> QED BY <3>2, <4>2
    <3>5. CASE CountWindow(w)
      <4>1. work[w].at = "count" /\ work'[w].at # "count"
        BY <3>5 DEF CountWindow, ScanTypeOK, Idle, At
      <4> QED BY <3>2, <4>1
    <3>6. CASE JudgeFile(w) \/ Exit(w)
      <4>1. work[w].at # work'[w].at
        BY <3>6 DEF JudgeFile, Exit, ScanTypeOK, Idle, Exited
      <4> QED BY <3>2, <4>1
    <3> QED BY <1>3, <3>3, <3>4, <3>5, <3>6 DEF Worker
  <2>3. \A v \in Workers : v # w => (Awaits(v, f, q)' <=> Awaits(v, f, q)) /\ (Owes(v, f, q)' <=> Owes(v, f, q))
    BY <2>2, OthersStay
  <2>4. Todo' = Todo
    BY <2>1 DEF Todo
  <2>5. \A v \in Workers : CountWindow(v) => v = w
    <3> SUFFICES ASSUME NEW v \in Workers, CountWindow(v), v # w PROVE FALSE
      OBVIOUS
    <3>1. work'[w] = work[w]
      BY DEF CountWindow, ScanTypeOK
    <3> QED BY <2>2, <3>1
  <2>6. Unscanned(f, q) => \/ Unscanned(f, q)'
                           \/ \E v \in Workers : ScanSlice(v) /\ work[v].file = f /\ work[v].place = q
    BY <1>b, <2>1, <2>3, <2>4 DEF Unscanned
  <2>7. Uncounted(f, q)' => Uncounted(f, q)
    BY <1>b, <2>1, <2>3, <2>4 DEF Uncounted
  <2>8. ASSUME CountWindow(w), work[w].file = f, q \in work[w].first..(work[w].place - 1) PROVE ~Uncounted(f, q)'
    <3>1. w \in Busy /\ work[w].at = "count" /\ work[w].place \in Nat /\ work[w].first \in Nat
      BY <2>8, WorkersAre DEF CountWindow, Busy, Stages
    <3>2. Readable(f) /\ work[w].first \in Windows(f) /\ work[w].place = WindowEnd(f, work[w].first) + 1
      BY <2>8, <3>1 DEF TasksHold, WorkerOK
    <3>3. WindowEnd(f, work[w].first) \in Nat /\ WindowEnd(f, work[w].first) <= Len(disk[f]) /\ Len(disk[f]) \in Nat
      BY <3>2, WindowEnds, DiskIs DEF ScanTypeOK
    <3>4. Owes(w, f, q)
      BY <2>8, <3>1, <3>2, <3>3 DEF Owes, EndOf
    <3>5. ~Owes(w, f, q)'
      BY <2>1, <2>8, <3>1
    <3> QED BY <1>b, <2>3, <2>4, <3>4, <3>5, Alone
  <2>9. Uncounted(f, q) => \/ Uncounted(f, q)'
                           \/ CountWindow(w) /\ work[w].file = f /\ q \in work[w].first..(work[w].place - 1)
    BY <1>b, <2>1, <2>3, <2>4 DEF Uncounted
  <2> QED BY <2>5, <2>6, <2>7, <2>8, <2>9
<1> QED BY <1>1, <1>2, <1>3 DEF Next

-----------------------------------------------------------------------------
\* What is found or failed stays so.
LEMMA Grows ==
  ASSUME ScanTypeOK, [Next]_vars
  PROVE  /\ \A s \in Slices : infos[s].locations \subseteq infos'[s].locations
         /\ pc' # "open" => pc # "open" \/ Start
         /\ pc # "open" => errs \subseteq errs' /\ ~Start
         /\ (\A w \in Workers : ~ScanSlice(w)) => infos' = infos
<1> USE DEF env
<1>1. CASE Start \/ Close \/ Finish \/ UNCHANGED vars
  BY <1>1 DEF Start, Close, Finish, vars
<1>2. ASSUME NEW w \in Workers, Send(w) \/ Exit(w) \/ OpenFile(w) \/ ReadWindow(w) \/ CountWindow(w) \/ JudgeFile(w)
      PROVE  infos' = infos /\ pc' = pc /\ errs \subseteq errs'
  BY <1>2 DEF Send, Exit, OpenFile, ReadWindow, CountWindow, JudgeFile
<1>3. ASSUME NEW w \in Workers, ScanSlice(w)
      PROVE  /\ \A s \in Slices : infos[s].locations \subseteq infos'[s].locations
             /\ pc' = pc /\ errs' = errs
  <2>1. ASSUME NEW s \in Slices PROVE infos[s].locations \subseteq infos'[s].locations
    <3>1. infos'[s] = IF s \in Located(disk[work[w].file][work[w].place])
                      THEN Recorded(infos[s], <<work[w].file, work[w].place>>) ELSE infos[s]
      BY <1>3 DEF ScanSlice
    <3>2. infos[s].locations \subseteq Recorded(infos[s], <<work[w].file, work[w].place>>).locations
      BY DEF Recorded
    <3> QED BY <3>1, <3>2
  <2> QED BY <1>3, <2>1 DEF ScanSlice
<1>4. pc # "open" => ~Start
  BY DEF Start
<1> QED BY <1>1, <1>2, <1>3, <1>4 DEF Next, Worker

\* Whatever is found is there, and what is compared is found.
LEMMA FoundStep ==
  ScanTypeOK /\ ScanTypeOK' /\ StagesHold /\ TasksHold /\ TasksApart /\ FoundHolds /\ [Next]_vars => FoundHolds'
<1> SUFFICES ASSUME ScanTypeOK, ScanTypeOK', StagesHold, TasksHold, TasksApart, FoundHolds, [Next]_vars
             PROVE  FoundHolds'
  OBVIOUS
<1>a. /\ disk' = disk /\ \A f : Readable(f)' <=> Readable(f)
      /\ \A s : ScannedLocations(s)' = ScannedLocations(s)
  BY DiskStays
<1>b. \A s \in Slices : /\ infos[s].locations \subseteq ScannedLocations(s)
                        /\ infos[s].foundAt \in IF infos[s].locations = {} THEN {Nowhere} ELSE infos[s].locations
  BY DEF FoundHolds
<1>1. ASSUME NEW s \in Slices
      PROVE  /\ infos'[s].locations \subseteq ScannedLocations(s)
             /\ infos'[s].foundAt \in IF infos'[s].locations = {} THEN {Nowhere} ELSE infos'[s].locations
  <2>1. CASE \A w \in Workers : ~ScanSlice(w)
    BY <1>b, <2>1, Grows
  <2>2. ASSUME NEW w \in Workers, ScanSlice(w)
        PROVE  /\ infos'[s].locations \subseteq ScannedLocations(s)
               /\ infos'[s].foundAt \in IF infos'[s].locations = {} THEN {Nowhere} ELSE infos'[s].locations
    <3> DEFINE f == work[w].file
               p == work[w].place
    <3>1. infos'[s] = IF s \in Located(disk[f][p]) THEN Recorded(infos[s], <<f, p>>) ELSE infos[s]
      BY <2>2 DEF ScanSlice
    <3>2. CASE s \notin Located(disk[f][p])
      BY <1>b, <3>1, <3>2
    <3>3. CASE s \in Located(disk[f][p])
      <4>1. w \in Busy /\ f \in Files /\ work[w].at = "scan"
        BY <2>2, WorkersAre DEF ScanSlice, Busy, Stages
      <4>2. Readable(f) /\ work[w].first \in Windows(f) /\ p \in work[w].first..WindowEnd(f, work[w].first)
        BY <4>1 DEF TasksHold, WorkerOK
      <4>3. p \in 1..Len(disk[f])
        BY <4>1, <4>2, WindowEnds, DiskIs DEF ScanTypeOK
      <4>4. <<f, p>> \in ScannedLocations(s)
        BY <3>3, <4>1, <4>2, <4>3 DEF Located, ScannedLocations, Places
      <4>5. Recorded(infos[s], <<f, p>>).locations = infos[s].locations \cup {<<f, p>>}
        BY DEF Recorded
      <4>6. Recorded(infos[s], <<f, p>>).foundAt \in infos[s].locations \cup {<<f, p>>}
        BY <1>b DEF Recorded
      <4> QED BY <1>b, <3>1, <3>3, <4>4, <4>5, <4>6
    <3> QED BY <3>2, <3>3
  <2> QED BY <2>1, <2>2
<1>2. ASSUME pc' # "open", NEW f \in Files, f \notin errs', Readable(f), NEW q \in 1..Len(disk[f]), ~Unscanned(f, q)',
             NEW s \in Slices, Content[s[1]][s[2]] = disk[f][q]
      PROVE  <<f, q>> \in infos'[s].locations
  <2>1. CASE Start
    <3>1. PICK t \in Todo' : Waits(t, f, q)
      BY <1>2, <2>1, StartCovers
    <3>2. Waits(t, f, q)'
      BY <3>1, DiskStays
    <3> QED BY <1>2, <3>1, <3>2 DEF Unscanned
  <2>2. CASE ~Start
    <3>1. pc # "open" /\ f \notin errs
      BY <1>2, <2>2, Grows
    <3>2. ~Unscanned(f, q) \/ \E w \in Workers : ScanSlice(w) /\ work[w].file = f /\ work[w].place = q
      BY <1>2, <2>2, PlacesStep
    <3>3. CASE ~Unscanned(f, q)
      <4>1. <<f, q>> \in infos[s].locations
        BY <1>2, <3>1, <3>3 DEF FoundHolds
      <4> QED BY <4>1, Grows
    <3>4. ASSUME NEW w \in Workers, ScanSlice(w), work[w].file = f, work[w].place = q
          PROVE  <<f, q>> \in infos'[s].locations
      <4>1. s \in Located(disk[f][q])
        BY <1>2 DEF Located
      <4>2. infos'[s] = Recorded(infos[s], <<f, q>>)
        BY <3>4, <4>1 DEF ScanSlice
      <4> QED BY <4>2 DEF Recorded
    <3> QED BY <3>2, <3>3, <3>4
  <2> QED BY <2>1, <2>2
<1> QED BY <1>a, <1>1, <1>2 DEF FoundHolds

-----------------------------------------------------------------------------
\* Two disjoint sets of places are counted apart.
LEMMA TallyAdds ==
  ASSUME NEW f, NEW S, NEW T, IsFiniteSet(S), IsFiniteSet(T), S \cap T = {},
         NEW c, NEW d, NEW e, Tally(c, f, S), Tally(d, f, T), e.hits = c.hits + d.hits, e.misses = c.misses + d.misses
  PROVE  Tally(e, f, S \cup T)
<1> DEFINE A == Known(f, S)   B == Known(f, T)
<1>1. /\ A \in SUBSET S /\ B \in SUBSET T
      /\ Known(f, S \cup T) = A \cup B /\ (S \cup T) \ (A \cup B) = (S \ A) \cup (T \ B)
      /\ A \cap B = {} /\ (S \ A) \cap (T \ B) = {}
  BY DEF Known
<1>2. IsFiniteSet(A) /\ IsFiniteSet(B) /\ IsFiniteSet(S \ A) /\ IsFiniteSet(T \ B)
  BY <1>1, FS_Subset
<1>3. /\ Cardinality(A \cup B) = Cardinality(A) + Cardinality(B) - Cardinality({})
      /\ Cardinality((S \ A) \cup (T \ B)) = Cardinality(S \ A) + Cardinality(T \ B) - Cardinality({})
  BY <1>1, <1>2, FS_Union
<1>4. /\ Cardinality({}) = 0 /\ Cardinality(A) \in Nat /\ Cardinality(B) \in Nat
      /\ Cardinality(S \ A) \in Nat /\ Cardinality(T \ B) \in Nat
  BY <1>2, FS_EmptySet, FS_CardinalityType
<1>5. /\ c.hits = Cardinality(A) /\ c.misses = Cardinality(S \ A)
      /\ d.hits = Cardinality(B) /\ d.misses = Cardinality(T \ B)
  BY DEF Tally
<1>6. e.hits = Cardinality(A \cup B) /\ e.misses = Cardinality((S \ A) \cup (T \ B))
  BY <1>3, <1>4, <1>5
<1> HIDE DEF A, B
<1> QED BY <1>1, <1>6 DEF Tally

\* Nothing is counted of no place, and a place once.
LEMMA TallyOfOne ==
  ASSUME NEW f, NEW p, NEW c, c.hits = IF Located(disk[f][p]) # {} THEN 1 ELSE 0,
         c.misses = IF Located(disk[f][p]) # {} THEN 0 ELSE 1
  PROVE  Tally(c, f, {p})
<1>1. Known(f, {p}) = (IF Located(disk[f][p]) # {} THEN {p} ELSE {})
  BY DEF Known
<1>2. {p} \ {p} = {} /\ {p} \ {} = {p}
  OBVIOUS
<1>3. Cardinality({}) = 0 /\ Cardinality({p}) = 1
  BY FS_EmptySet, FS_Singleton
<1> QED BY <1>1, <1>2, <1>3 DEF Tally

\* Nothing counts for nothing.
LEMMA TallyOfNone ==
  ASSUME NEW f, NEW S, S = {}, NEW c, c.hits = 0, c.misses = 0
  PROVE  Tally(c, f, S)
<1>1. Known(f, S) = {} /\ S \ Known(f, S) = {}
  BY DEF Known
<1> QED BY <1>1, FS_EmptySet DEF Tally

\* The hits and misses of a set of places are its size.
LEMMA TallyIsAll ==
  ASSUME NEW f, NEW n \in Nat, NEW c, Tally(c, f, 1..n)
  PROVE  c.hits + c.misses = n /\ c.hits = Cardinality({q \in 1..n : Located(disk[f][q]) # {}})
<1> DEFINE A == Known(f, 1..n)
<1>1. A \in SUBSET (1..n) /\ (1..n) \cap A = A /\ A = {q \in 1..n : Located(disk[f][q]) # {}}
  BY DEF Known
<1>2. IsFiniteSet(1..n) /\ Cardinality(1..n) = n
  BY FS_Interval
<1>3. IsFiniteSet(A) /\ Cardinality((1..n) \ A) = Cardinality(1..n) - Cardinality((1..n) \cap A)
  BY <1>1, <1>2, FS_Subset, FS_Difference
<1>4. Cardinality(A) \in Nat
  BY <1>3, FS_CardinalityType
<1> HIDE DEF A
<1>5. Cardinality((1..n) \ A) = n - Cardinality(A)
  BY <1>1, <1>2, <1>3
<1>6. c.hits = Cardinality(A) /\ c.misses = Cardinality((1..n) \ A)
  BY DEF Tally, A
<1> QED BY <1>1, <1>4, <1>5, <1>6

\* The hits and misses of a worker are of the places it has compared, and those of a
\* file are of the places that were counted.
LEMMA CountsStep ==
  ScanTypeOK /\ ScanTypeOK' /\ StagesHold /\ TasksHold /\ TasksApart /\ CountsHold /\ [Next]_vars => CountsHold'
<1> SUFFICES ASSUME ScanTypeOK, ScanTypeOK', StagesHold, TasksHold, TasksApart, CountsHold, [Next]_vars
             PROVE  CountsHold'
  OBVIOUS
<1> USE DEF env
<1>a. /\ disk' = disk /\ disk \in Disks /\ \A f : Readable(f)' <=> Readable(f)
  BY DiskStays DEF ScanTypeOK
<1> DEFINE OfWorker(r) == r.at \in {"scan", "count"} => Tally(r, r.file, r.first..(r.place - 1))
           New(f) == {q \in 1..Len(disk[f]) : ~Uncounted(f, q)'}
<1>b. (/\ \A w \in Busy' : OfWorker(work'[w])
       /\ \A f \in Files : ~Readable(f) => counts'[f] = [hits |-> 0, misses |-> 0]
       /\ pc' # "open" => \A f \in Files \ errs' : Readable(f) => Tally(counts'[f], f, New(f))) => CountsHold'
  <2>1. ASSUME NEW w \in Busy', OfWorker(work'[w]), work'[w].at \in {"scan", "count"}
        PROVE  Tally(work[w], work[w].file, work[w].first..(work[w].place - 1))'
    BY <1>a, <2>1 DEF Tally, Known, Located
  <2>2. \A f : Counted(f)' = New(f)
    BY <1>a DEF Counted
  <2>3. ASSUME NEW f \in Files, Tally(counts'[f], f, New(f)) PROVE Tally(counts[f], f, Counted(f))'
    <3> HIDE DEF New
    <3> QED BY <1>a, <2>2, <2>3 DEF Tally, Known, Located
  <2> HIDE DEF New
  <2> QED BY <1>a, <2>1, <2>3 DEF CountsHold
<1>c. /\ \A w \in Busy : OfWorker(work[w])
      /\ \A f \in Files : ~Readable(f) => counts[f] = [hits |-> 0, misses |-> 0]
      /\ pc # "open" => \A f \in Files \ errs : Readable(f) => Tally(counts[f], f, Counted(f))
  BY DEF CountsHold
<1>d. ASSUME counts' = counts, ~Start, \A w \in Workers : ~CountWindow(w), \A w \in Busy' : OfWorker(work'[w])
      PROVE  CountsHold'
  <2>1. ASSUME pc' # "open", NEW f \in Files \ errs', Readable(f) PROVE Tally(counts'[f], f, New(f))
    <3>1. pc # "open" /\ f \notin errs
      BY <1>d, <2>1, Grows
    <3>2. New(f) = Counted(f)
      BY <1>d, <2>1, PlacesStep DEF Counted
    <3> HIDE DEF New
    <3> QED BY <1>c, <1>d, <2>1, <3>1, <3>2
  <2> HIDE DEF OfWorker, New
  <2> QED BY <1>b, <1>c, <1>d, <2>1
<1>e. ASSUME NEW w \in Workers, NEW x, work' = [work EXCEPT ![w] = x], x.at \in Stages => OfWorker(x)
      PROVE  \A v \in Busy' : OfWorker(work'[v])
  <2>1. work'[w] = x /\ \A v \in Workers : v # w => work'[v] = work[v] /\ (v \in Busy' <=> v \in Busy)
    BY <1>e, OthersStay
  <2>2. w \in Busy' => x.at \in Stages
    BY <2>1 DEF Busy
  <2> HIDE DEF OfWorker
  <2>3. \A v \in Busy' : v \in Workers
    BY DEF Busy
  <2> QED BY <1>c, <1>e, <2>1, <2>2, <2>3
<1>1. CASE UNCHANGED vars \/ Close \/ Finish
  <2>1. /\ counts' = counts /\ work' = work /\ Busy' = Busy
        /\ \A w \in Workers : ~CountWindow(w)
    BY <1>1 DEF vars, Close, Finish, Busy, CountWindow, ScanTypeOK, Idle, At
  <2>2. ~Start
    BY <1>1 DEF Start, vars, Close, Finish
  <2> HIDE DEF OfWorker
  <2> QED BY <1>c, <1>d, <2>1, <2>2
<1>2. CASE Start
  <2>1. counts' = counts /\ work' = work /\ Busy' = {} /\ \A f \in Files : counts[f] = [hits |-> 0, misses |-> 0]
    BY <1>2 DEF Start, StagesHold, Busy
  <2>2. ASSUME NEW f \in Files, Readable(f) PROVE Tally(counts'[f], f, New(f))
    <3>1. ASSUME NEW q \in 1..Len(disk[f]) PROVE Uncounted(f, q)'
      <4>1. PICK t \in Todo' : Waits(t, f, q)
        BY <1>2, <2>2, StartCovers
      <4>2. Waits(t, f, q)'
        BY <4>1, DiskStays
      <4> QED BY <4>1, <4>2 DEF Uncounted
    <3>2. New(f) = {}
      BY <3>1
    <3> HIDE DEF New
    <3> QED BY <2>1, <3>2, TallyOfNone
  <2> HIDE DEF New
  <2> QED BY <1>b, <2>1, <2>2
<1>3. ASSUME NEW w \in Workers, Send(w) PROVE CountsHold'
  <2> DEFINE x == At(IF misaligned THEN "open" ELSE "read", Head(todo)[1], Head(todo)[2])
  <2>1. work' = [work EXCEPT ![w] = x] /\ counts' = counts /\ todo # <<>> /\ todo' = Tail(todo) /\ pc # "open"
    BY <1>3 DEF Send
  <2>2. x.at \notin {"scan", "count"}
    BY DEF At
  <2>3. \A v \in Workers : ~CountWindow(v)
    <3>1. todo' # todo
      BY <2>1, Rest DEF ScanTypeOK
    <3> QED BY <3>1 DEF CountWindow
  <2>4. \A v \in Busy' : OfWorker(work'[v])
    BY <1>e, <2>1, <2>2
  <2>5. ~Start
    BY <2>1 DEF Start
  <2> QED BY <1>d, <2>1, <2>3, <2>4, <2>5
<1>4. ASSUME NEW w \in Workers, Exit(w) \/ OpenFile(w) \/ ReadWindow(w) \/ ScanSlice(w) \/ JudgeFile(w)
      PROVE  CountsHold'
  <2>1. counts' = counts /\ pc' = pc /\ work' = [work EXCEPT ![w] = work'[w]]
    BY <1>4 DEF Exit, OpenFile, ReadWindow, ScanSlice, JudgeFile, ScanTypeOK
  <2>2. ~Start
    BY <2>1 DEF Start
  <2>3. ASSUME NEW v \in Workers, CountWindow(v) PROVE FALSE
    <3>1. v = w
      <4>1. work'[v].at # work[v].at
        BY <2>3 DEF CountWindow, ScanTypeOK, Idle, At
      <4>2. \A u \in Workers : u # w => work'[u] = work[u]
        BY <2>1 DEF ScanTypeOK
      <4> QED BY <4>1, <4>2
    <3> QED BY <1>4, <2>3, <3>1 DEF CountWindow, Exit, OpenFile, ReadWindow, ScanSlice, JudgeFile
  <2>4. work'[w].at \in Stages => OfWorker(work'[w])
    <3>1. CASE Exit(w) \/ OpenFile(w) \/ JudgeFile(w)
      <4>1. work[w].at = "open" => work[w] \in Records
        BY WorkersAre DEF Busy, Stages
      <4>2. work'[w].at \notin {"scan", "count"}
        BY <3>1, <4>1 DEF Exit, OpenFile, JudgeFile, Idle, Exited, ScanTypeOK, Records
      <4> QED BY <4>2
    <3>2. CASE ReadWindow(w)
      <4>1. w \in Busy /\ work[w] \in Records /\ work[w].at = "read"
        BY <3>2, WorkersAre DEF ReadWindow, Busy, Stages
      <4>2. WorkerOK(work[w])
        BY <4>1 DEF TasksHold
      <4>3. work'[w] = Idle \/ work'[w] = [work[w] EXCEPT !.at = "scan"]
        BY <3>2 DEF ReadWindow, ScanTypeOK, AfterError
      <4>4. CASE work'[w] = Idle
        BY <4>4 DEF Idle
      <4>5. CASE work'[w] = [work[w] EXCEPT !.at = "scan"]
        <5>1. /\ work'[w].hits = 0 /\ work'[w].misses = 0 /\ work'[w].place = work'[w].first
              /\ work'[w].first \in Nat
          BY <4>1, <4>2, <4>5 DEF Records, WorkerOK
        <5>2. work'[w].first..(work'[w].place - 1) = {}
          BY <5>1
        <5> QED BY <5>1, <5>2, TallyOfNone
      <4> QED BY <4>3, <4>4, <4>5
    <3>3. CASE ScanSlice(w)
      <4> DEFINE r == work[w]
                 f == r.file
                 p == r.place
                 d == [hits |-> IF Located(disk[f][p]) # {} THEN 1 ELSE 0,
                       misses |-> IF Located(disk[f][p]) # {} THEN 0 ELSE 1]
      <4>1. w \in Busy /\ r.at = "scan" /\ f \in Files /\ r.first \in Nat /\ p \in Nat /\ r.hits \in Nat /\ r.misses \in Nat
        BY <3>3, WorkersAre DEF ScanSlice, Busy, Stages
      <4>2. Readable(f) /\ r.first \in Windows(f) /\ p \in r.first..WindowEnd(f, r.first)
        BY <4>1 DEF TasksHold, WorkerOK
      <4>3. p >= r.first
        <5>1. WindowEnd(f, r.first) \in Int
          BY <1>a, <4>1, <4>2, WindowEnds, DiskIs
        <5> QED BY <4>1, <4>2, <5>1
      <4>4. /\ work'[w].file = f /\ work'[w].first = r.first /\ work'[w].place = p + 1
            /\ work'[w].hits = r.hits + d.hits /\ work'[w].misses = r.misses + d.misses
        BY <3>3 DEF ScanSlice, ScanTypeOK
      <4>5. Tally(r, f, r.first..(p - 1)) /\ Tally(d, f, {p})
        BY <1>c, <4>1, TallyOfOne
      <4>6. /\ IsFiniteSet(r.first..(p - 1)) /\ IsFiniteSet({p})
            /\ (r.first..(p - 1)) \cap {p} = {} /\ (r.first..(p - 1)) \cup {p} = r.first..((p + 1) - 1)
        <5>1. r.first \in Int /\ p - 1 \in Int /\ p \in Int /\ p >= r.first
          BY <4>1, <4>3
        <5>2. IsFiniteSet(r.first..(p - 1)) /\ IsFiniteSet({p})
          BY ONLY <5>1, FS_Interval, FS_Singleton
        <5>3. (r.first..(p - 1)) \cap {p} = {} /\ (r.first..(p - 1)) \cup {p} = r.first..((p + 1) - 1)
          BY ONLY <5>1
        <5> QED BY ONLY <5>2, <5>3
      <4> HIDE DEF d, p, f, r
      <4>7. Tally(work'[w], f, (r.first..(p - 1)) \cup {p})
        BY <4>4, <4>5, <4>6, TallyAdds
      <4> QED BY <4>4, <4>6, <4>7
    <3> QED BY <1>4, <3>1, <3>2, <3>3
  <2>5. \A v \in Busy' : OfWorker(work'[v])
    <3> HIDE DEF OfWorker
    <3> QED BY <1>e, <2>1, <2>4
  <2> QED BY <1>d, <2>1, <2>2, <2>3, <2>5
<1>5. ASSUME NEW w \in Workers, CountWindow(w) PROVE CountsHold'
  <2> DEFINE r == work[w]
             f == r.file
             p == r.place
             Part == r.first..(p - 1)
  <2>1. /\ w \in Busy /\ r.at = "count" /\ f \in Files /\ r.first \in Nat /\ p \in Nat /\ r.hits \in Nat /\ r.misses \in Nat
        /\ pc' = pc /\ errs' = errs
    BY <1>5, WorkersAre DEF CountWindow, Busy, Stages
  <2>2. Readable(f) /\ r.first \in Windows(f) /\ p = WindowEnd(f, r.first) + 1
    BY <2>1 DEF TasksHold, WorkerOK
  <2>3. Part \subseteq 1..Len(disk[f]) /\ IsFiniteSet(Part)
    <3>1. WindowEnd(f, r.first) \in r.first..Len(disk[f]) /\ r.first \in 1..Len(disk[f]) /\ Len(disk[f]) \in Nat
      BY <1>a, <2>1, <2>2, WindowEnds, DiskIs
    <3>2. IsFiniteSet(r.first..(p - 1))
      <4>1. r.first \in Int /\ p - 1 \in Int
        BY <2>1
      <4> QED BY ONLY <4>1, FS_Interval
    <3> QED BY <2>1, <2>2, <3>1, <3>2
  <2>4. Tally(r, f, Part)
    BY <1>c, <2>1
  <2>5. \A v \in Workers : CountWindow(v) => v = w
    <3>1. \A v \in Workers : CountWindow(v) => work'[v].at # work[v].at
      BY DEF CountWindow, ScanTypeOK, Idle, At
    <3>2. \A v \in Workers : v # w => work'[v] = work[v]
      BY <1>5 DEF CountWindow, ScanTypeOK
    <3> QED BY <3>1, <3>2
  <2>6. ~Start
    BY <1>5 DEF Start, CountWindow, StagesHold, Busy, Stages
  <2>7. /\ \A g \in Files : g # f => counts'[g] = counts[g]
        /\ counts'[f].hits = counts[f].hits + r.hits /\ counts'[f].misses = counts[f].misses + r.misses
    BY <1>5, <2>1 DEF CountWindow, ScanTypeOK
  <2>8. ASSUME pc' # "open", NEW g \in Files \ errs', Readable(g) PROVE Tally(counts'[g], g, New(g))
    <3>1. Tally(counts[g], g, Counted(g))
      BY <1>c, <2>1, <2>8
    <3>2. CASE g # f
      <4>1. New(g) = Counted(g)
        BY <2>5, <2>6, <2>8, <3>2, PlacesStep DEF Counted
      <4> HIDE DEF New
      <4> QED BY <2>7, <3>1, <3>2, <4>1
    <3>3. CASE g = f
      <4>1. \A q \in 1..Len(disk[g]) : Uncounted(g, q)' <=> Uncounted(g, q) /\ q \notin Part
        <5> SUFFICES ASSUME NEW q \in 1..Len(disk[g])
                     PROVE  Uncounted(g, q)' <=> Uncounted(g, q) /\ q \notin Part
          OBVIOUS
        <5>1. Uncounted(g, q)' <=> /\ Uncounted(g, q)
                                   /\ \A v \in Workers : ~ /\ CountWindow(v) /\ work[v].file = g
                                                           /\ q \in work[v].first..(work[v].place - 1)
          BY <2>6, <2>8, PlacesStep
        <5> QED BY <1>5, <2>5, <3>3, <5>1
      <4>2. \A q \in Part : Uncounted(f, q)
        <5> SUFFICES ASSUME NEW q \in Part PROVE Owes(w, f, q)
          BY DEF Uncounted
        <5>1. r.at # "verdict" /\ q \in r.first..EndOf(f, r.first)
          <6>1. EndOf(f, r.first) \in Int /\ EndOf(f, r.first) >= p - 1
            <7>1. WindowEnd(f, r.first) \in Int /\ WindowEnd(f, r.first) <= Len(disk[f]) /\ Len(disk[f]) \in Nat
              BY <1>a, <2>1, <2>2, WindowEnds, DiskIs
            <7> QED BY <2>2, <7>1 DEF EndOf
          <6> QED BY <2>1, <6>1
        <5> QED BY <2>1, <5>1 DEF Owes
      <4>3. New(g) = Counted(g) \cup Part /\ Counted(g) \cap Part = {}
        BY <2>3, <3>3, <4>1, <4>2 DEF Counted
      <4>4. IsFiniteSet(Counted(g))
        <5>1. IsFiniteSet(1..Len(disk[f]))
          <6>1. 1 \in Int /\ Len(disk[f]) \in Int
            BY <1>a, <2>1, <2>2, DiskIs
          <6> QED BY ONLY <6>1, FS_Interval
        <5>2. Counted(g) \in SUBSET (1..Len(disk[f]))
          BY <3>3 DEF Counted
        <5> QED BY <5>1, <5>2, FS_Subset
      <4> HIDE DEF New, Part, p, f, r
      <4>5. Tally(counts'[g], g, Counted(g) \cup Part)
        BY <2>3, <2>4, <2>7, <3>1, <3>3, <4>3, <4>4, TallyAdds
      <4> QED BY <4>3, <4>5
    <3> QED BY <3>2, <3>3
  <2>9. \A v \in Busy' : OfWorker(work'[v])
    <3>1. work' = [work EXCEPT ![w] = work'[w]] /\ work'[w].at \notin {"scan", "count"}
      BY <1>5 DEF CountWindow, ScanTypeOK, Idle, At
    <3> QED BY <1>e, <3>1
  <2>10. \A g \in Files : ~Readable(g) => counts'[g] = [hits |-> 0, misses |-> 0]
    BY <1>c, <2>2, <2>7
  <2> HIDE DEF New, OfWorker
  <2> QED BY <1>b, <2>8, <2>9, <2>10
<1> QED BY <1>1, <1>2, <1>3, <1>4, <1>5 DEF Next, Worker

-----------------------------------------------------------------------------
\* What is found of a slice in a file that was searched.
LEMMA SearchedIs ==
  ASSUME FoundHolds, pc # "open", NEW f \in Files, f \notin errs, Readable(f),
         \A q \in 1..Len(disk[f]) : ~Unscanned(f, q), NEW s \in Slices, NEW q
  PROVE  <<f, q>> \in infos[s].locations <=> q \in 1..Len(disk[f]) /\ disk[f][q] = Content[s[1]][s[2]]
<1>1. ASSUME <<f, q>> \in infos[s].locations
      PROVE  q \in 1..Len(disk[f]) /\ disk[f][q] = Content[s[1]][s[2]]
  <2>1. <<f, q>> \in ScannedLocations(s)
    BY <1>1 DEF FoundHolds
  <2>2. <<f, q>> \in Places /\ disk[f][q] = Content[s[1]][s[2]]
    BY <2>1 DEF ScannedLocations
  <2>3. q \in 1..Len(disk[f])
    BY <2>2 DEF Places
  <2> QED BY <2>2, <2>3
<1>2. ASSUME q \in 1..Len(disk[f]), disk[f][q] = Content[s[1]][s[2]]
      PROVE  <<f, q>> \in infos[s].locations
  BY <1>2 DEF FoundHolds
<1> QED BY <1>1, <1>2

\* The flags derived from the search of a file are those a sequential one derives.
LEMMA JudgedRight ==
  ASSUME ScanTypeOK, FoundHolds, pc # "open", NEW f \in Files, f \notin errs, Readable(f),
         \A q \in 1..Len(disk[f]) : ~Unscanned(f, q)
  PROVE  Verdict(f) = ScannedFlags(f)
<1> DEFINE InPlace == \A i \in 1..Len(Content[f]) : i <= Len(disk[f]) /\ disk[f][i] = Content[f][i]
<1>1. /\ Len(disk[f]) \in Nat /\ Len(Content[f]) \in Nat /\ DOMAIN Content[f] = 1..Len(Content[f])
  BY DiskIs, LoadAssumption DEF ScanTypeOK, Files
<1>2. ASSUME NEW i \in 1..Len(Content[f])
      PROVE  <<f, i>> \in Slices /\ (ShardOK(<<f, i>>) <=> i <= Len(disk[f]) /\ disk[f][i] = Content[f][i])
  <2>1. <<f, i>> \in Slices
    BY <1>1 DEF Slices
  <2>2. <<f, i>> \in infos[<<f, i>>].locations <=> i \in 1..Len(disk[f]) /\ disk[f][i] = Content[<<f, i>>[1]][<<f, i>>[2]]
    BY <2>1, SearchedIs
  <2> QED BY <1>1, <2>1, <2>2 DEF ShardOK
<1>3. ASSUME NEW s \in Slices, s[1] = f PROVE \E i \in 1..Len(Content[f]) : s = <<f, i>>
  BY <1>1, <1>3 DEF Slices
<1>4. AllShardsOK(f) <=> InPlace
  <2>1. ASSUME AllShardsOK(f), NEW i \in 1..Len(Content[f]) PROVE i <= Len(disk[f]) /\ disk[f][i] = Content[f][i]
    <3>1. ShardOK(<<f, i>>)
      BY <1>2, <2>1 DEF AllShardsOK
    <3> QED BY <1>2, <3>1
  <2>2. ASSUME InPlace, NEW s \in Slices, s[1] = f PROVE ShardOK(s)
    <3>1. PICK i \in 1..Len(Content[f]) : s = <<f, i>>
      BY <1>3, <2>2
    <3> QED BY <1>2, <2>2, <3>1
  <2> HIDE DEF InPlace
  <2>3. AllShardsOK(f) => InPlace
    BY <2>1 DEF InPlace
  <2> QED BY <2>2, <2>3 DEF AllShardsOK
<1>5. ScannedFlags(f) = [missing |-> FALSE, wrongByteCount |-> WrongSize(f), hashMismatch |-> ~(SixteenK(f) /\ InPlace)]
  BY DEF ScannedFlags
<1> HIDE DEF InPlace
<1>6. Verdict(f) = [missing |-> FALSE, hashMismatch |-> ~(SixteenK(f) /\ InPlace), wrongByteCount |-> WrongSize(f)]
  BY <1>4 DEF Verdict
<1> QED BY <1>5, <1>6

\* The flags follow the files that are done.
LEMMA FlagsStep ==
  ScanTypeOK /\ ScanTypeOK' /\ StagesHold /\ TasksHold /\ TasksApart /\ FoundHolds /\ FlagsHold
    /\ [Next]_vars => FlagsHold'
<1> SUFFICES ASSUME ScanTypeOK, ScanTypeOK', StagesHold, TasksHold, TasksApart, FoundHolds, FlagsHold, [Next]_vars
             PROVE  FlagsHold'
  OBVIOUS
<1> USE DEF env
<1>a. /\ disk' = disk /\ misaligned' = misaligned /\ disk \in Disks /\ misaligned \in BOOLEAN
      /\ \A f : Readable(f)' <=> Readable(f)
      /\ \A f : ScannedFlags(f)' = ScannedFlags(f)
      /\ Todo \subseteq Files \X Nat
  <2>1. \A t \in ToSet(todo) : t \in Files \X Nat
    BY DEF ScanTypeOK, ToSet
  <2> QED BY <2>1, DiskStays DEF ScanTypeOK, Todo
<1> DEFINE Ended(f) == (\A t \in Todo' : t[1] # f) /\ (\A w \in Busy' : work'[w].file # f)
<1>b. (IF misaligned
       THEN pc' # "open" => \A f \in Files \ errs' : Ended(f) => flags'[f] = ScannedFlags(f)
       ELSE /\ pc' \in {"send", "wait"} => \A f \in Files : ~Readable(f) => f \in errs' \/ flags'[f] = Gone
            /\ pc' = "done" => \A f \in Files \ errs' : flags'[f] = ScannedFlags(f)) => FlagsHold'
  <2>1. \A f : DoneWith(f)' <=> Ended(f)
    BY DEF DoneWith
  <2> HIDE DEF Ended
  <2> QED BY <1>a, <2>1 DEF FlagsHold
<1>c. IF misaligned
      THEN pc # "open" => \A f \in Files \ errs : DoneWith(f) => flags[f] = ScannedFlags(f)
      ELSE /\ pc \in {"send", "wait"} => \A f \in Files : ~Readable(f) => f \in errs \/ flags[f] = Gone
           /\ pc = "done" => \A f \in Files \ errs : flags[f] = ScannedFlags(f)
  BY DEF FlagsHold
<1>d. ASSUME NEW f \in Files, ~Readable(f), disk[f] # Locked PROVE disk[f] = Missing /\ ScannedFlags(f) = Gone
  BY <1>d DEF Readable, ScannedFlags
<1>1. CASE UNCHANGED vars \/ Close
  <2>1. /\ flags' = flags /\ errs' = errs /\ Todo' = Todo /\ work' = work /\ Busy' = Busy
        /\ pc' # "open" => pc # "open"
        /\ pc' = pc \/ (pc = "send" /\ pc' = "wait")
    BY <1>1 DEF vars, Close, Todo, Busy
  <2>2. \A f : Ended(f) <=> DoneWith(f)
    BY <2>1 DEF DoneWith
  <2> HIDE DEF Ended
  <2> QED BY <1>b, <1>c, <2>1, <2>2
<1>2. CASE Start
  <2>1. pc' = "send"
    BY <1>2 DEF Start
  <2>2. CASE misaligned
    <3>1. \A f \in Files : <<f, 1>> \in Todo'
      <4>1. todo' = FileTasks
        BY <1>2, <2>2 DEF Start
      <4> QED BY <1>a, <4>1, TasksAre DEF Todo
    <3>2. \A f \in Files : ~Ended(f)
      BY <3>1
    <3> HIDE DEF Ended
    <3> QED BY <1>b, <2>2, <3>2
  <2>3. CASE ~misaligned
    <3>1. errs' = {f \in Files : disk[f] = Locked} /\ flags' = [f \in Files |-> IF disk[f] = Missing THEN Gone ELSE Clean]
      BY <1>2, <2>3 DEF Start
    <3>2. \A f \in Files : ~Readable(f) => f \in errs' \/ flags'[f] = Gone
      BY <1>d, <3>1
    <3> HIDE DEF Ended
    <3> QED BY <1>b, <2>1, <2>3, <3>2
  <2> QED BY <1>a, <2>2, <2>3
<1>3. ASSUME NEW w \in Workers, Send(w) PROVE FlagsHold'
  <2>1. pc = "send" /\ pc' = pc /\ flags' = flags /\ errs' = errs
    BY <1>3 DEF Send
  <2>2. ASSUME NEW f \in Files, Ended(f) PROVE DoneWith(f)
    <3>1. PICK h \in Todo : Todo' = Todo \ {h} /\ w \in Busy' /\ work'[w].file = h[1]
      BY <1>3, SendKeeps
    <3>2. h[1] # f
      BY <2>2, <3>1
    <3>3. \A v \in Busy : v \in Busy' /\ work'[v].file = work[v].file
      <4>1. w \notin Busy
        BY <1>3 DEF Send, Busy, Stages
      <4>2. \A v \in Workers : v # w => work'[v] = work[v]
        BY <1>3 DEF Send, ScanTypeOK
      <4> QED BY <4>1, <4>2 DEF Busy
    <3> QED BY <2>2, <3>1, <3>2, <3>3 DEF DoneWith
  <2> HIDE DEF Ended
  <2> QED BY <1>b, <1>c, <2>1, <2>2
<1>4. ASSUME NEW w \in Workers, Worker(w) PROVE FlagsHold'
  <2>1. todo' = todo /\ Todo' = Todo /\ pc' = pc /\ work' = [work EXCEPT ![w] = work'[w]] /\ errs \subseteq errs'
    BY <1>4 DEF Worker, Exit, OpenFile, ReadWindow, ScanSlice, CountWindow, JudgeFile, ScanTypeOK, Todo
  <2>2. \A v \in Workers : v # w => work'[v] = work[v] /\ (v \in Busy' <=> v \in Busy)
    BY <2>1, OthersStay
  <2> DEFINE g == work[w].file
  <2>3. w \in Busy => /\ work[w] \in Records /\ g \in Files /\ WorkerOK(work[w]) /\ pc # "open" /\ pc # "done"
    <3>1. w \in Busy => work[w].at # "exited" /\ work[w].at \in Stages
      BY DEF Busy, Stages
    <3> QED BY <3>1, WorkersAre DEF TasksHold, StagesHold
  <2>4. ASSUME NEW f \in Files, Ended(f), w \notin Busy \/ g # f \/ (w \in Busy' /\ work'[w].file = f)
        PROVE  DoneWith(f)
    <3>1. \A v \in Busy : v # w => work[v].file # f
      BY <2>2, <2>4 DEF Busy
    <3> QED BY <2>1, <2>4, <3>1 DEF DoneWith
  <2>5. CASE ~misaligned
    <3>1. flags' = flags
      <4>1. ~OpenFile(w) /\ ~JudgeFile(w)
        BY <2>3, <2>5 DEF OpenFile, JudgeFile, WorkerOK, Busy, Stages
      <4> QED BY <1>4, <4>1 DEF Worker, Exit, ReadWindow, ScanSlice, CountWindow
    <3> HIDE DEF Ended
    <3> QED BY <1>b, <1>c, <2>1, <2>5, <3>1
  <2>6. CASE misaligned
    <3> SUFFICES ASSUME pc' # "open", NEW f \in Files, f \notin errs', Ended(f)
                 PROVE  flags'[f] = ScannedFlags(f)
      <4> HIDE DEF Ended
      <4> QED BY <1>b, <2>6
    <3>1. DoneWith(f) => flags[f] = ScannedFlags(f)
      BY <1>c, <2>1, <2>6
    <3>2. CASE Exit(w)
      <4>1. w \notin Busy /\ flags' = flags
        BY <3>2 DEF Exit, Busy, Stages
      <4> HIDE DEF Ended
      <4> QED BY <2>4, <3>1, <4>1
    <3>3. CASE ScanSlice(w) \/ CountWindow(w)
      <4>1. flags' = flags /\ w \in Busy' /\ work'[w].file = g
        <5> DEFINE y == At(IF work[w].place > Len(disk[g]) THEN "verdict" ELSE "read", g, work[w].place)
        <5>0. CountWindow(w) => work'[w] = y
          BY <2>6 DEF CountWindow, ScanTypeOK
        <5>a. y.file = g /\ y.at \in {"verdict", "read"}
          BY DEF At
        <5> HIDE DEF y
        <5>b. ScanSlice(w) => work'[w].file = g /\ work'[w].at \in {"scan", "count"}
          BY DEF ScanSlice, ScanTypeOK
        <5>1. flags' = flags /\ work'[w].file = g
          BY <3>3, <5>0, <5>a, <5>b DEF ScanSlice, CountWindow
        <5>2. work'[w].at \in {"scan", "count", "verdict", "read"}
          BY <3>3, <5>0, <5>a, <5>b
        <5>3. w \in Busy'
          BY <5>2 DEF Busy, Stages
        <5> QED BY <5>1, <5>3
      <4>2. f # g
        BY <4>1
      <4> HIDE DEF Ended
      <4> QED BY <2>4, <3>1, <4>1, <4>2
    <3>4. CASE ReadWindow(w)
      <4>1. w \in Busy /\ flags' = flags
        BY <3>4 DEF ReadWindow, Busy, Stages
      <4>2. CASE f # g
        <5> HIDE DEF Ended
        <5> QED BY <2>4, <3>1, <4>1, <4>2
      <4>3. CASE f = g
        <5>1. work'[w] = [work[w] EXCEPT !.at = "scan"]
          BY <2>6, <3>4, <4>3 DEF ReadWindow, Skipped, ScanTypeOK
        <5>2. work'[w].file = f /\ w \in Busy'
          BY <2>3, <4>1, <4>3, <5>1 DEF Records, Busy, Stages
        <5> QED BY <5>2
      <4> QED BY <4>2, <4>3
    <3>5. CASE OpenFile(w)
      <4>1. w \in Busy
        BY <3>5 DEF OpenFile, Busy, Stages
      <4>2. CASE f # g
        <5>1. flags'[f] = flags[f]
          BY <3>5, <4>2 DEF OpenFile, ScanTypeOK
        <5> HIDE DEF Ended
        <5> QED BY <2>4, <3>1, <4>1, <4>2, <5>1
      <4>3. CASE f = g
        <5>1. ~Readable(f)
          <6> SUFFICES ASSUME Readable(f) PROVE work'[w].file = f /\ w \in Busy'
            BY DEF Ended
          <6> QED BY <2>3, <3>5, <4>1, <4>3 DEF OpenFile, ScanTypeOK, Records, Busy, Stages
        <5>2. disk[f] # Locked
          BY <3>5, <4>3 DEF OpenFile
        <5>3. flags'[f] = Gone
          BY <1>d, <3>5, <4>3, <5>1, <5>2 DEF OpenFile, ScanTypeOK
        <5> QED BY <1>d, <5>1, <5>2, <5>3
      <4> QED BY <4>2, <4>3
    <3>6. CASE JudgeFile(w)
      <4>1. w \in Busy /\ work[w].at = "verdict"
        BY <3>6 DEF JudgeFile, Busy, Stages
      <4>2. CASE f # g
        <5>1. flags'[f] = flags[f]
          BY <3>6, <4>2 DEF JudgeFile, ScanTypeOK
        <5> HIDE DEF Ended
        <5> QED BY <2>4, <3>1, <4>1, <4>2, <5>1
      <4>3. CASE f = g
        <5>1. flags'[f] = Verdict(f) /\ errs' = errs
          BY <2>3, <3>6, <4>1, <4>3 DEF JudgeFile, ScanTypeOK
        <5>2. Readable(f) /\ pc # "open" /\ f \notin errs
          BY <2>1, <2>3, <4>1, <4>3 DEF WorkerOK
        <5>3. ASSUME NEW q \in 1..Len(disk[f]) PROVE ~Unscanned(f, q)
          <6>1. \A t \in Todo : t[1] # f
            BY <2>6, <4>1, <4>3 DEF TasksApart, Separate
          <6>2. \A v \in Busy : v # w => work[v].file # f
            BY <2>6, <4>1, <4>3 DEF TasksApart, Separate
          <6> QED BY <4>1, <6>1, <6>2 DEF Unscanned, Waits, Awaits
        <5>4. Verdict(f) = ScannedFlags(f)
          BY <5>2, <5>3, JudgedRight
        <5> QED BY <5>1, <5>4
      <4> QED BY <4>2, <4>3
    <3> QED BY <1>4, <3>2, <3>3, <3>4, <3>5, <3>6 DEF Worker
  <2> QED BY <1>a, <2>5, <2>6
<1>5. CASE Finish
  <2>1. /\ pc = "wait" /\ pc' = "done" /\ errs' = errs /\ Todo = {} /\ Todo' = Todo /\ Busy = {} /\ Busy' = {}
        /\ work' = work /\ flags' = [f \in Files |-> IF f \in Judged THEN Verdict(f) ELSE flags[f]]
    <3>1. todo = <<>> /\ ToSet(<<>>) = {}
      BY <1>5 DEF Finish, StagesHold, ToSet
    <3> QED BY <1>5, <3>1 DEF Finish, Todo, Busy, Stages
  <2>2. CASE misaligned
    <3>1. \A f \in Files : flags'[f] = flags[f] /\ DoneWith(f)
      BY <2>1, <2>2 DEF Judged, DoneWith
    <3> HIDE DEF Ended
    <3> QED BY <1>b, <1>c, <2>1, <2>2, <3>1
  <2>3. CASE ~misaligned
    <3>1. ASSUME NEW f \in Files \ errs' PROVE flags'[f] = ScannedFlags(f)
      <4>1. CASE Readable(f)
        <5>1. flags'[f] = Verdict(f)
          BY <2>1, <2>3, <3>1, <4>1 DEF Judged
        <5>2. \A q : ~Unscanned(f, q)
          BY <2>1 DEF Unscanned, Awaits
        <5> QED BY <2>1, <3>1, <4>1, <5>1, <5>2, JudgedRight
      <4>2. CASE ~Readable(f)
        <5>1. flags'[f] = flags[f]
          BY <2>1, <4>2 DEF Judged
        <5>2. flags[f] = Gone
          BY <1>c, <2>1, <2>3, <3>1, <4>2
        <5>3. ScannedFlags(f) = Gone
          BY <4>2 DEF ScannedFlags
        <5> QED BY <5>1, <5>2, <5>3
      <4> QED BY <4>1, <4>2
    <3> HIDE DEF Ended
    <3> QED BY <1>b, <2>1, <2>3, <3>1
  <2> QED BY <1>a, <2>2, <2>3
<1> QED BY <1>1, <1>2, <1>3, <1>4, <1>5 DEF Next

-----------------------------------------------------------------------------
\* A window that cannot be read is still to be read, or its file has failed already.
LEMMA ErrorsStep ==
  ScanTypeOK /\ ScanTypeOK' /\ StagesHold /\ TasksHold /\ ErrorsHold /\ [Next]_vars => ErrorsHold'
<1> SUFFICES ASSUME ScanTypeOK, ScanTypeOK', StagesHold, TasksHold, ErrorsHold, [Next]_vars
             PROVE  ErrorsHold'
  OBVIOUS
<1> USE DEF env
<1>a. /\ disk' = disk /\ misaligned' = misaligned /\ bad' = bad /\ disk \in Disks /\ misaligned \in BOOLEAN
      /\ \A f : Readable(f)' <=> Readable(f)
      /\ \A f : Windows(f)' = Windows(f)
      /\ \A f : Fails(f)' <=> Fails(f)
      /\ \A t, f, q : Waits(t, f, q)' <=> Waits(t, f, q)
  BY DiskStays DEF ScanTypeOK
<1>b. bad \subseteq Files \X Nat /\ \A b \in bad : Readable(b[1]) /\ b[2] \in Windows(b[1])
  BY DEF ErrorsHold
<1>c. \A b \in bad : /\ b[1] \in Files /\ b[2] \in 1..Len(disk[b[1]]) /\ Fails(b[1])
                     /\ b = <<b[1], b[2]>>
  BY <1>b DEF Windows, Fails
<1> DEFINE Opens(w, f) == w \in Busy /\ work[w].file = f /\ work[w].at = "open"
           Reads(w, f, q) == Awaits(w, f, q) /\ (work[w].at \in {"scan", "count"} => q # work[w].first)
           ToOpen(f) == misaligned /\ ((\E t \in Todo : t[1] = f) \/ (\E w \in Busy : Opens(w, f)))
           ToRead(b) == (\E t \in Todo : Waits(t, b[1], b[2])) \/ (\E w \in Workers : Reads(w, b[1], b[2]))
<1>d. /\ \A f \in errs : Fails(f)
      /\ pc # "open" => /\ \A f \in Files : disk[f] = Locked => f \in errs \/ ToOpen(f)
                        /\ \A b \in bad : b[1] \in errs \/ ToRead(b)
  BY DEF ErrorsHold
<1>e. (/\ \A f \in errs' : Fails(f)
       /\ pc' # "open" => /\ \A f \in Files : disk[f] = Locked => f \in errs' \/ ToOpen(f)'
                          /\ \A b \in bad : b[1] \in errs' \/ ToRead(b)') => ErrorsHold'
  BY <1>a, <1>b DEF ErrorsHold
<1>f. ASSUME errs' = errs, Todo' = Todo, work' = work, pc' # "open" => pc # "open" PROVE ErrorsHold'
  <2>1. /\ Busy' = Busy
        /\ \A w \in Workers : \A f, q : Awaits(w, f, q)' <=> Awaits(w, f, q)
    BY <1>a, <1>f DEF Busy, Awaits, EndOf, WindowEnd
  <2>2. \A f : ToOpen(f) => ToOpen(f)'
    BY <1>a, <1>f, <2>1
  <2>3. \A b : ToRead(b) => ToRead(b)'
    BY <1>a, <1>f, <2>1
  <2> HIDE DEF ToOpen, ToRead
  <2> QED BY <1>d, <1>e, <1>f, <2>2, <2>3
<1>1. CASE UNCHANGED vars
  <2>1. errs' = errs /\ Todo' = Todo /\ work' = work /\ pc' = pc
    BY <1>1 DEF vars, Todo
  <2> QED BY <1>f, <2>1
<1>2. CASE Close \/ Finish
  <2>1. errs' = errs /\ Todo' = Todo /\ work' = work /\ pc # "open"
    BY <1>2 DEF Close, Finish, Todo
  <2>2. pc' # "open"
    BY <1>2 DEF Close, Finish
  <2> QED BY <1>f, <2>1, <2>2
<1>3. CASE Start
  <2>1. ASSUME NEW b \in bad PROVE ToRead(b)'
    <3>1. PICK t \in Todo' : Waits(t, b[1], b[2])
      BY <1>3, <1>b, <1>c, StartCovers
    <3> QED BY <1>a, <3>1
  <2>2. CASE misaligned
    <3>1. errs' = {}
      BY <1>3, <2>2 DEF Start, StagesHold
    <3>2. ASSUME NEW f \in Files PROVE ToOpen(f)'
      <4>1. todo' = FileTasks
        BY <1>3, <2>2 DEF Start
      <4>2. <<f, 1>> \in Todo'
        BY <1>a, <4>1, TasksAre DEF Todo
      <4>3. <<f, 1>>[1] = f
        OBVIOUS
      <4> QED BY <1>a, <2>2, <4>2, <4>3
    <3> HIDE DEF ToOpen, ToRead
    <3> QED BY <1>e, <2>1, <3>1, <3>2
  <2>3. CASE ~misaligned
    <3>1. errs' = {f \in Files : disk[f] = Locked}
      BY <1>3, <2>3 DEF Start
    <3> HIDE DEF ToOpen, ToRead
    <3> QED BY <1>e, <2>1, <3>1 DEF Fails
  <2> QED BY <1>a, <2>2, <2>3
<1>4. ASSUME NEW w \in Workers, Send(w) PROVE ErrorsHold'
  <2>1. pc # "open" /\ errs' = errs /\ w \notin Busy /\ \A v \in Workers : v # w => work'[v] = work[v]
    BY <1>4 DEF Send, Busy, Stages, ScanTypeOK
  <2>2. \A v \in Workers : v # w => /\ v \in Busy' <=> v \in Busy
                                    /\ \A f, q : Awaits(v, f, q)' <=> Awaits(v, f, q)
    <3>1. work' = [work EXCEPT ![w] = work'[w]]
      BY <1>4 DEF Send, ScanTypeOK
    <3> QED BY <3>1, OthersStay
  <2>3. ASSUME NEW f \in Files, ToOpen(f) PROVE ToOpen(f)'
    <3>1. PICK g \in Todo : /\ Todo' = Todo \ {g}
                             /\ w \in Busy' /\ work'[w].file = g[1]
                             /\ (misaligned => work'[w].at = "open")
      BY <1>4, SendKeeps
    <3>2. CASE \E t \in Todo : t[1] = f
      <4>1. PICK t \in Todo : t[1] = f
        BY <3>2
      <4>2. CASE t = g
        <5>1. Opens(w, f)'
          BY <2>3, <3>1, <4>1, <4>2
        <5> QED BY <1>a, <2>3, <3>1, <5>1
      <4>3. CASE t # g
        BY <1>a, <2>3, <3>1, <4>1, <4>3
      <4> QED BY <4>2, <4>3
    <3>3. CASE \E v \in Busy : Opens(v, f)
      <4>1. PICK v \in Busy : Opens(v, f)
        BY <3>3
      <4>2. v # w /\ v \in Workers
        BY <2>1, <4>1 DEF Busy
      <4>3. v \in Busy' /\ Opens(v, f)'
        BY <2>1, <2>2, <4>1, <4>2
      <4> QED BY <1>a, <2>3, <4>3
    <3> QED BY <2>3, <3>2, <3>3
  <2>4. ASSUME NEW b \in bad, ToRead(b) PROVE ToRead(b)'
    <3>1. PICK g \in Todo : /\ Todo' = Todo \ {g}
                            /\ (Waits(g, b[1], b[2]) <=> Awaits(w, b[1], b[2])')
                            /\ work'[w].at \in {"open", "read"}
      BY <1>4, <1>c, SendKeeps
    <3>2. CASE \E t \in Todo : Waits(t, b[1], b[2])
      <4>1. PICK t \in Todo : Waits(t, b[1], b[2])
        BY <3>2
      <4>2. CASE t = g
        <5>1. Reads(w, b[1], b[2])'
          BY <3>1, <4>1, <4>2
        <5> QED BY <5>1
      <4>3. CASE t # g
        <5>1. t \in Todo' /\ Waits(t, b[1], b[2])'
          BY <1>a, <3>1, <4>1, <4>3
        <5> QED BY <5>1
      <4> QED BY <4>2, <4>3
    <3>3. ASSUME NEW v \in Workers, Reads(v, b[1], b[2]) PROVE ToRead(b)'
      <4>1. v # w
        BY <2>1, <3>3 DEF Awaits
      <4>2. Reads(v, b[1], b[2])'
        BY <2>1, <2>2, <3>3, <4>1
      <4> QED BY <4>2
    <3> QED BY <2>4, <3>2, <3>3
  <2> HIDE DEF ToOpen, ToRead
  <2> QED BY <1>d, <1>e, <2>1, <2>3, <2>4
<1>5. ASSUME NEW w \in Workers, Worker(w) PROVE ErrorsHold'
  <2> DEFINE g == work[w].file
  <2>1. todo' = todo /\ Todo' = Todo /\ pc' = pc /\ work' = [work EXCEPT ![w] = work'[w]] /\ errs \subseteq errs'
    BY <1>5 DEF Worker, Exit, OpenFile, ReadWindow, ScanSlice, CountWindow, JudgeFile, ScanTypeOK, Todo
  <2>2. \A v \in Workers : v # w => /\ work'[v] = work[v] /\ (v \in Busy' <=> v \in Busy)
                                    /\ \A f, q : Awaits(v, f, q)' <=> Awaits(v, f, q)
    BY <2>1, OthersStay
  <2>3. w \in Busy => work[w] \in Records /\ g \in Files /\ work[w].place \in Nat /\ work[w].first \in Nat
                      /\ WorkerOK(work[w])
    BY WorkersAre DEF TasksHold
  <2>4. \A f \in errs' : Fails(f)
    <3>1. CASE OpenFile(w)
      BY <1>d, <3>1 DEF OpenFile, Fails
    <3>2. CASE ReadWindow(w)
      <4>1. <<g, work[w].place>> \in bad => Fails(g)
        BY <1>c
      <4> HIDE DEF g
      <4> QED BY <1>d, <3>2, <4>1 DEF ReadWindow, g
    <3>3. CASE ~OpenFile(w) /\ ~ReadWindow(w)
      <4>1. errs' = errs
        BY <1>5, <3>3 DEF Worker, ScanSlice, CountWindow, JudgeFile, Exit
      <4> QED BY <1>d, <4>1
    <3> QED BY <3>1, <3>2, <3>3
  <2>5. ASSUME NEW f \in Files, disk[f] = Locked, f \notin errs', ToOpen(f) PROVE ToOpen(f)'
    <3>1. CASE \E t \in Todo : t[1] = f
      BY <1>a, <2>1, <2>5, <3>1
    <3>2. ASSUME NEW v \in Busy, Opens(v, f) PROVE ToOpen(f)'
      <4>1. v # w
        <5> SUFFICES ASSUME v = w PROVE f \in errs'
          BY <2>5
        <5>1. OpenFile(w)
          BY <1>5, <3>2 DEF Worker, ReadWindow, ScanSlice, CountWindow, JudgeFile, Exit
        <5> QED BY <2>5, <3>2, <5>1 DEF OpenFile
      <4>2. v \in Busy' /\ Opens(v, f)'
        BY <2>2, <3>2, <4>1 DEF Busy
      <4> QED BY <1>a, <2>5, <4>2
    <3> QED BY <2>5, <3>1, <3>2
  <2>6. ASSUME NEW b \in bad, b[1] \notin errs', ToRead(b) PROVE ToRead(b)'
    <3> DEFINE f == b[1]
               q == b[2]
    <3>1. CASE \E t \in Todo : Waits(t, f, q)
      BY <1>a, <2>1, <3>1
    <3>2. ASSUME NEW v \in Workers, Reads(v, f, q) PROVE ToRead(b)'
      <4>1. CASE v # w
        <5>1. Reads(v, f, q)'
          BY <2>2, <3>2, <4>1
        <5> QED BY <5>1
      <4>2. CASE v = w
        <5>1. w \in Busy /\ g = f /\ q \in work[w].place..EndOf(f, work[w].first) /\ work[w].at # "verdict"
          BY <3>2, <4>2 DEF Awaits
        <5>2. Awaits(w, f, q)' \/ (ScanSlice(w) /\ work[w].file = f /\ work[w].place = q)
          <6>1. f \in Files /\ Readable(f) /\ f \notin errs' /\ q \in 1..Len(disk[f])
            BY <1>b, <1>c, <2>6
          <6>2. Awaits(w, f, q)
            BY <3>2, <4>2
          <6> HIDE DEF f, q
          <6> QED BY <1>5, <6>1, <6>2, AwaitsStep
        <5>3. ~(ScanSlice(w) /\ work[w].place = q)
          <6> SUFFICES ASSUME ScanSlice(w), work[w].place = q PROVE FALSE
            OBVIOUS
          <6>1. work[w].at = "scan" /\ q # work[w].first
            BY <3>2, <4>2 DEF ScanSlice
          <6>2. /\ work[w].first \in Windows(f) /\ q \in work[w].first..WindowEnd(f, work[w].first) /\ q \in Windows(f)
                /\ Readable(f) /\ f \in Files
            BY <1>b, <1>c, <2>3, <5>1, <6>1 DEF WorkerOK
          <6>3. /\ WindowEnd(f, work[w].first) < work[w].first + WindowSlices
                /\ work[w].first \in Int /\ WindowEnd(f, work[w].first) \in Int /\ WindowSlices \in Int
            <7> DEFINE p == work[w].first
                       e == WindowEnd(f, p)
            <7>1. /\ p \in 1..Len(disk[f]) /\ WindowSlices \in Nat \ {0} /\ e \in p..Len(disk[f])
                  /\ e = IF Len(disk[f]) <= p + WindowSlices - 1 THEN Len(disk[f]) ELSE p + WindowSlices - 1
              BY <1>a, <6>2, WindowEnds
            <7>2. Len(disk[f]) \in Nat
              BY <1>a, <6>2, DiskIs
            <7> HIDE DEF p, e
            <7>3. e < p + WindowSlices /\ p \in Int /\ e \in Int /\ WindowSlices \in Int
              BY ONLY <7>1, <7>2
            <7> QED BY <7>3 DEF p, e
          <6>4. work[w].first + WindowSlices <= q
            <7>1. work[w].first < q
              BY <6>1, <6>2, <6>3
            <7> QED BY <1>a, <6>2, <7>1, WindowsApart
          <6> QED BY <6>2, <6>3, <6>4
        <5>4. work'[w].at \in {"scan", "count"} => q # work'[w].first
          <6>1. CASE OpenFile(w) \/ JudgeFile(w) \/ Exit(w) \/ CountWindow(w)
            <7>1. work[w].at = "open" => work[w] \in Records
              BY <2>3 DEF Busy, Stages
            <7>2. work'[w].at \notin {"scan", "count"}
              BY <6>1, <7>1 DEF OpenFile, JudgeFile, Exit, CountWindow, ScanTypeOK, Idle, Exited, Records, At
            <7> QED BY <7>2
          <6>2. CASE ReadWindow(w)
            <7>1. work[w].at = "read" /\ work[w].place = work[w].first
              BY <2>3, <5>1, <6>2 DEF ReadWindow, WorkerOK
            <7>2. f \notin errs /\ f \notin errs'
              BY <2>1, <2>6
            <7>3. <<f, work[w].place>> \notin bad
              BY <5>1, <6>2, <7>2 DEF ReadWindow, Skipped
            <7>4. q # work[w].first
              BY <1>c, <7>1, <7>3
            <7>5. work'[w] = Idle \/ work'[w] = [work[w] EXCEPT !.at = "scan"]
              BY <6>2 DEF ReadWindow, ScanTypeOK, AfterError
            <7>6. Idle.at = "idle" /\ [work[w] EXCEPT !.at = "scan"].first = work[w].first
              BY <2>3, <5>1 DEF Idle, Records
            <7> QED BY <7>4, <7>5, <7>6
          <6>3. CASE ScanSlice(w)
            <7>1. work[w].at = "scan" /\ q # work[w].first
              BY <3>2, <4>2, <6>3 DEF ScanSlice
            <7>2. work'[w].first = work[w].first
              BY <6>3 DEF ScanSlice, ScanTypeOK
            <7> QED BY <7>1, <7>2
          <6> QED BY <1>5, <6>1, <6>2, <6>3 DEF Worker
        <5>5. Reads(w, b[1], b[2])'
          BY <5>1, <5>2, <5>3, <5>4
        <5> QED BY <5>5
      <4> QED BY <4>1, <4>2
    <3> QED BY <2>6, <3>1, <3>2
  <2> HIDE DEF ToOpen, ToRead
  <2> QED BY <1>d, <1>e, <2>1, <2>4, <2>5, <2>6
<1> QED BY <1>1, <1>2, <1>3, <1>4, <1>5 DEF Next

-----------------------------------------------------------------------------
\* Before the scan there is nothing to account for.
LEMMA ScanInit == Init => ScanInv
<1> SUFFICES ASSUME Init PROVE ScanInv
  OBVIOUS
<1>1. ScanTypeOK
  BY ScanTypeInit
<1>2. /\ pc = "open" /\ todo = <<>> /\ Busy = {} /\ errs = {} /\ ~loaded
      /\ \A s \in Slices : infos[s].locations = {} /\ infos[s].foundAt = Nowhere
      /\ \A f \in Files : counts[f] = [hits |-> 0, misses |-> 0]
  BY DEF Init, Busy, Idle, Stages
<1>3. Todo = {}
  BY <1>2 DEF Todo, ToSet
<1>4. StagesHold
  BY <1>2 DEF StagesHold
<1>5. TasksHold /\ TasksApart
  BY <1>2, <1>3 DEF TasksHold, TasksApart
<1>6. FoundHolds /\ CountsHold /\ FlagsHold
  BY <1>2 DEF FoundHolds, CountsHold, FlagsHold
<1>7. ErrorsHold
  <2>1. bad \subseteq UNION {{f} \X Windows(f) : f \in {g \in Files : Readable(g)}}
    BY DEF Init
  <2>2. ASSUME NEW b \in bad PROVE b \in Files \X Nat /\ Readable(b[1]) /\ b[2] \in Windows(b[1])
    <3>1. PICK f \in Files : Readable(f) /\ b \in {f} \X Windows(f)
      BY <2>1
    <3>2. Len(disk[f]) \in Nat
      BY <1>1, <3>1, DiskIs DEF ScanTypeOK
    <3> QED BY <3>1, <3>2 DEF Windows
  <2> QED BY <1>2, <2>2 DEF ErrorsHold
<1> QED BY <1>1, <1>4, <1>5, <1>6, <1>7 DEF ScanInv

\* Every step of the scan keeps its accounts.
LEMMA ScanStep == ScanInv /\ [Next]_vars => ScanInv'
<1> SUFFICES ASSUME ScanInv, [Next]_vars PROVE ScanInv'
  OBVIOUS
<1>1. /\ ScanTypeOK /\ StagesHold /\ TasksHold /\ TasksApart
      /\ FoundHolds /\ CountsHold /\ FlagsHold /\ ErrorsHold
  BY DEF ScanInv
<1>2. ScanTypeOK'
  BY <1>1, ScanTypeStep
<1>3. StagesHold' /\ TasksHold' /\ TasksApart'
  BY <1>1, <1>2, StagesStep, TasksStep, ApartStep
<1>4. FoundHolds' /\ CountsHold' /\ FlagsHold' /\ ErrorsHold'
  BY <1>1, <1>2, FoundStep, CountsStep, FlagsStep, ErrorsStep
<1> QED BY <1>2, <1>3, <1>4 DEF ScanInv

\* A scan that is done has scanned everything, but for the files with an error.
LEMMA AllScanned ==
  ASSUME ScanInv, pc = "done"
  PROVE  /\ \A f \in Files \ errs : /\ \A q : ~Unscanned(f, q) /\ ~Uncounted(f, q)
                                    /\ flags[f] = ScannedFlags(f)
         /\ errs = {f \in Files : Fails(f)}
<1>1. Todo = {} /\ Busy = {}
  <2>1. todo = <<>>
    BY DEF ScanInv, StagesHold
  <2>2. Busy = {}
    BY DEF ScanInv, StagesHold, Busy, Stages
  <2> QED BY <2>1, <2>2 DEF Todo, ToSet
<1>2. \A f, q : ~Unscanned(f, q) /\ ~Uncounted(f, q)
  BY <1>1 DEF Unscanned, Uncounted, Awaits, Owes
<1>3. \A f \in Files \ errs : flags[f] = ScannedFlags(f)
  BY <1>1 DEF ScanInv, FlagsHold, DoneWith
<1>4. errs = {f \in Files : Fails(f)}
  <2>1. \A f \in errs : f \in Files /\ Fails(f)
    BY DEF ScanInv, ErrorsHold, ScanTypeOK
  <2>2. ASSUME NEW f \in Files, Fails(f) PROVE f \in errs
    <3>1. CASE disk[f] = Locked
      BY <1>1, <3>1 DEF ScanInv, ErrorsHold
    <3>2. ASSUME NEW b \in bad, b[1] = f PROVE f \in errs
      BY <1>1, <3>2 DEF ScanInv, ErrorsHold, Awaits
    <3> QED BY <2>2, <3>1, <3>2 DEF Fails
  <2> QED BY <2>1, <2>2
<1> QED BY <1>2, <1>3, <1>4

\* The accounts of a scan that is loaded are those of a sequential one.
LEMMA AccountsAreSequential == ScanInv => FoundAll
<1> SUFFICES ASSUME ScanInv, loaded PROVE FoundAll
  BY DEF FoundAll
<1>1. pc = "done" /\ errs = {} /\ disk \in Disks /\ FoundHolds /\ CountsHold
  BY DEF ScanInv, StagesHold, ScanTypeOK
<1>2. \A f \in Files : (\A q : ~Unscanned(f, q) /\ ~Uncounted(f, q)) /\ flags[f] = ScannedFlags(f)
  BY <1>1, AllScanned
<1>3. ASSUME NEW s \in Slices
      PROVE  /\ infos[s].locations = ScannedLocations(s)
             /\ infos[s].foundAt \in IF ScannedLocations(s) = {} THEN {Nowhere} ELSE ScannedLocations(s)
  <2>1. ASSUME NEW l \in ScannedLocations(s) PROVE l \in infos[s].locations
    <3>1. l \in Places /\ disk[l[1]][l[2]] = Content[s[1]][s[2]]
      BY DEF ScannedLocations
    <3>2. PICK f \in Files : Readable(f) /\ l \in {f} \X (1..Len(disk[f]))
      BY <3>1 DEF Places
    <3>3. l = <<f, l[2]>> /\ l[2] \in 1..Len(disk[f]) /\ l[1] = f
      BY <3>2
    <3>4. <<f, l[2]>> \in infos[s].locations
      BY <1>1, <1>2, <3>1, <3>2, <3>3, SearchedIs
    <3> QED BY <3>3, <3>4
  <2>2. infos[s].locations = ScannedLocations(s)
    BY <1>1, <2>1 DEF FoundHolds
  <2> QED BY <1>1, <2>2 DEF FoundHolds
<1>4. ASSUME NEW f \in Files
      PROVE  /\ counts[f].hits = ScannedHits(f)
             /\ Readable(f) => counts[f].hits + counts[f].misses = Len(disk[f])
  <2>1. CASE Readable(f)
    <3>1. Counted(f) = 1..Len(disk[f]) /\ Len(disk[f]) \in Nat
      BY <1>1, <1>2, <2>1, DiskIs DEF Counted
    <3>2. Tally(counts[f], f, 1..Len(disk[f]))
      BY <1>1, <2>1, <3>1 DEF CountsHold
    <3>3. ScannedHits(f) = Cardinality({q \in 1..Len(disk[f]) : Located(disk[f][q]) # {}})
      BY <2>1 DEF ScannedHits
    <3> QED BY <3>1, <3>2, <3>3, TallyIsAll
  <2>2. CASE ~Readable(f)
    BY <1>1, <2>2 DEF CountsHold, ScannedHits
  <2> QED BY <2>1, <2>2
<1> QED BY <1>2, <1>3, <1>4 DEF FoundAll

\* The error of a scan that is done is the first one.
LEMMA ErrorIsFirst == ScanInv => FirstErrorWins
<1> SUFFICES ASSUME ScanInv, pc = "done" PROVE FirstErrorWins
  BY DEF FirstErrorWins
<1>1. errs = {f \in Files : disk[f] = Locked \/ \E b \in bad : b[1] = f}
  BY AllScanned DEF Fails
<1>2. failedAt = FirstError
  BY DEF ScanInv, StagesHold
<1> QED BY <1>1, <1>2 DEF FirstErrorWins, FirstError

\* The accounts hold in every state of every scan.
THEOREM ScanInvariant == Spec => []ScanInv
<1>1. Init => ScanInv
  BY ScanInit
<1>2. ScanInv /\ [Next]_vars => ScanInv'
  BY ScanStep
<1> QED BY <1>1, <1>2, PTL DEF Spec

\* For every set of files, state of the disk, size of a window and number of
\* workers, a scan that succeeds comes to what a sequential one comes to, and one that
\* fails returns the error of the first file that has one (decoder.go:674-850).
THEOREM ScanIsSequential == Spec => []SameAsSequential
<1>1. ScanInv => SameAsSequential
  BY AccountsAreSequential, ErrorIsFirst DEF SameAsSequential
<1> QED BY <1>1, ScanInvariant, PTL

-----------------------------------------------------------------------------
(* The load of the recovery volumes. *)

BatchTasks == [vol : Nat, pkt : Nat, end : Nat]
Loading == [at : {"read", "handle"}, vol : Nat, pkt : Nat, end : Nat]
Loaders == {w \in Workers : loadWork[w].at \in {"read", "handle"}}
Queue == ToSet(loadTodo)
Heard == ToSet(events)

LoadTypeOK ==
  /\ retain \in BOOLEAN /\ volumes \in Sets
  /\ lost \subseteq {<<t.vol, t.pkt>> : t \in ToSet(Load!AllBatches(volumes))}
  /\ ~retain => lost = {}
  /\ loadPc \in {"index", "send", "wait", "done"}
  /\ loadTodo \in Seq(BatchTasks) /\ IsInjective(loadTodo)
  /\ loadWork \in [Workers -> {Load!Idle, Load!Exited} \cup Loading]
  /\ failed \subseteq Load!Vols
  /\ events \in Seq(Load!Packets) /\ IsInjective(events)
  /\ mains \in [Load!Vols -> {Nowhere} \cup Nat]

\* The batches are there while they are sent, and the workers are gone when the load is over.
LoadStagesHold ==
  /\ loadPc # "send" => loadTodo = <<>>
  /\ loadPc = "index" => Loaders = {} /\ events = <<>> /\ failed = {}
  /\ loadPc = "done" => /\ \A w \in Workers : loadWork[w].at = "exited"
                        /\ heard = Load!Replay
  /\ outcome = IF loadPc # "done" THEN "loading" ELSE IF Load!Refused = {} THEN "loaded" ELSE "refused"

BatchOK(t) == /\ t.vol \in Load!Indexed(volumes) /\ t.end \in DOMAIN volumes[t.vol]
              /\ t.pkt \in 1..t.end
BatchesHold == (\A t \in Queue : BatchOK(t)) /\ (\A w \in Loaders : BatchOK(loadWork[w]))

Disjoint(t, u) == t.vol = u.vol => t.end < u.pkt \/ u.end < t.pkt

\* No packet is in two batches.
BatchesApart ==
  /\ \A t, u \in Queue : t # u => Disjoint(t, u)
  /\ \A t \in Queue : \A w \in Loaders : Disjoint(t, loadWork[w])
  /\ \A w, x \in Loaders : w # x => Disjoint(loadWork[w], loadWork[x])

Within(t, v, i) == t.vol = v /\ i \in t.pkt..t.end
Pending(v, i) == \/ \E t \in Queue : Within(t, v, i)
                 \/ \E w \in Loaders : Within(loadWork[w], v, i)

Fact(v, i) == volumes[v][i]
OwnMain(q) == Fact(q[1], q[2]).own /\ Fact(q[1], q[2]).kind = "main"

\* A packet that was handled was not broken, and is remembered, once.
HeardHolds ==
  /\ \A q \in Heard : ~Pending(q[1], q[2]) /\ ~Load!Broken(Fact(q[1], q[2]))
  /\ loadPc # "index" => \A q \in Load!Packets : q[1] \in failed \/ Pending(q[1], q[2]) \/ q \in Heard

\* What is recorded of the packets that were handled.
RecordsHold ==
  /\ present = {Fact(q[1], q[2]).exp : q \in {r \in Heard : Load!Counts(Fact(r[1], r[2]))}}
  /\ DOMAIN locations = IF retain THEN present ELSE {}
  /\ \A e \in DOMAIN locations :
       /\ <<locations[e].vol, locations[e].pkt>> \in Heard \cap Load!Blocks(e)
       /\ \A q \in Heard \cap Load!Blocks(e) : locations[e].vol <= q[1]
  /\ \A v \in Load!Vols : IF mains[v] = Nowhere THEN \A q \in Heard : q[1] = v => ~OwnMain(q)
                          ELSE <<v, mains[v]>> \in Heard /\ OwnMain(<<v, mains[v]>>)

Unloaded(v) == \/ volumes[v] = Unindexed \/ \E b \in lost : b[1] = v
               \/ \E q \in Load!Packets : q[1] = v /\ Load!Broken(Fact(v, q[2]))

\* An error is that of its volume, and one that was not met is still to come.
LossesHold ==
  /\ \A v \in failed : Unloaded(v)
  /\ loadPc # "index" =>
       /\ \A v \in Load!Vols : volumes[v] = Unindexed => v \in failed
       /\ \A b \in lost : \/ b[1] \in failed
                          \/ \E t \in Queue : t.vol = b[1] /\ t.pkt = b[2]
                          \/ \E w \in Loaders : loadWork[w].at = "read" /\ loadWork[w].vol = b[1] /\ loadWork[w].pkt = b[2]

LoadInv == /\ LoadTypeOK /\ LoadStagesHold /\ BatchesHold /\ BatchesApart
           /\ HeardHolds /\ RecordsHold /\ LossesHold

-----------------------------------------------------------------------------
\* The volumes and their packets.
LEMMA VolumesAre ==
  ASSUME volumes \in Sets
  PROVE  /\ Load!Vols = 1..Len(volumes) /\ Len(volumes) \in Nat /\ Load!Vols \subseteq Nat
         /\ Load!Indexed(volumes) = {v \in Load!Vols : volumes[v] # Unindexed}
         /\ \A v \in Load!Indexed(volumes) : volumes[v] \in Seq(Load!Packet)
         /\ \A q : q \in Load!Packets <=> \E v \in Load!Indexed(volumes) : \E i \in DOMAIN volumes[v] : q = <<v, i>>
         /\ \A q \in Load!Packets : /\ q = <<q[1], q[2]>> /\ q[1] \in Load!Vols /\ q[1] \in Load!Indexed(volumes)
                                    /\ q[2] \in DOMAIN volumes[q[1]] /\ q[1] \in Nat /\ q[2] \in Nat
                                    /\ Fact(q[1], q[2]) \in Load!Packet
<1>1. volumes \in Seq({Unindexed} \cup Seq(Load!Packet))
  BY ParityAssumption DEF Load!ParityAssumption
<1>2. Load!Vols = 1..Len(volumes) /\ Len(volumes) \in Nat /\ Load!Vols \subseteq Nat
  BY <1>1 DEF Load!Vols
<1>3. Load!Indexed(volumes) = {v \in Load!Vols : volumes[v] # Unindexed}
  BY DEF Load!Vols, Load!Indexed
<1>4. \A v \in Load!Indexed(volumes) : volumes[v] \in Seq(Load!Packet)
  BY <1>1, <1>2, <1>3
<1>5. \A q : q \in Load!Packets <=> \E v \in Load!Indexed(volumes) : \E i \in DOMAIN volumes[v] : q = <<v, i>>
  BY DEF Load!Packets
<1>6. ASSUME NEW q \in Load!Packets
      PROVE  /\ q = <<q[1], q[2]>> /\ q[1] \in Load!Vols /\ q[1] \in Load!Indexed(volumes)
             /\ q[2] \in DOMAIN volumes[q[1]] /\ q[1] \in Nat /\ q[2] \in Nat
             /\ Fact(q[1], q[2]) \in Load!Packet
  <2>0. PICK v \in Load!Indexed(volumes) : \E i \in DOMAIN volumes[v] : q = <<v, i>>
    BY <1>5
  <2>1. PICK i \in DOMAIN volumes[v] : q = <<v, i>>
    BY <2>0
  <2>2. volumes[v] \in Seq(Load!Packet)
    BY <1>4
  <2>3. volumes[v][i] \in Load!Packet /\ i \in Nat
    BY <2>2
  <2> QED BY <1>2, <1>3, <2>1, <2>3 DEF Fact
<1> QED BY <1>2, <1>3, <1>4, <1>5, <1>6

\* The batches of one volume.
LEMMA BatchesOfOne ==
  ASSUME volumes \in Sets, NEW v \in Load!Indexed(volumes)
  PROVE  LET bs == Load!Batches(v, volumes[v]) IN
         /\ bs \in Seq(BatchTasks) /\ IsInjective(bs)
         /\ \A t \in ToSet(bs) : t.vol = v /\ BatchOK(t)
         /\ \A t, u \in ToSet(bs) : t # u => Disjoint(t, u)
         /\ \A i \in DOMAIN volumes[v] : \E t \in ToSet(bs) : Within(t, v, i)
<1> DEFINE L == Len(volumes[v])
           n == BatchPackets
           N == (L + n - 1) \div n
           bs == Load!Batches(v, volumes[v])
           end(k) == Load!BatchEnd(volumes[v], k)
<1>1. L \in Nat /\ n \in Nat \ {0} /\ v \in Nat /\ DOMAIN volumes[v] = 1..L
  BY VolumesAre, ParityAssumption DEF Load!ParityAssumption
<1>2. /\ N \in Nat
      /\ \A k \in 1..N : (k - 1) * n + 1 \in 1..L
      /\ \A k, m \in 1..N : k < m => (k - 1) * n + n <= (m - 1) * n
      /\ \A q \in 1..L : \E k \in 1..N : (k - 1) * n + 1 <= q /\ q <= k * n
  BY <1>1, Pieces
<1>3. /\ DOMAIN bs = 1..N
      /\ \A k \in 1..N : bs[k] = [vol |-> v, pkt |-> (k - 1) * n + 1, end |-> end(k)]
      /\ bs = [k \in 1..N |-> bs[k]]
  BY DEF Load!Batches
<1> HIDE DEF N, bs
<1>4. ASSUME NEW k \in 1..N
      PROVE  /\ (k - 1) * n \in Int /\ k * n = (k - 1) * n + n /\ k * n \in Nat
             /\ (k - 1) * n + 1 \in 1..L
             /\ end(k) = IF L <= k * n THEN L ELSE k * n
             /\ end(k) \in 1..L /\ (k - 1) * n + 1 <= end(k)
  <2>1. (k - 1) * n \in Int /\ k * n = (k - 1) * n + n /\ k \in Nat
    BY <1>1
  <2>2. (k - 1) * n + 1 \in 1..L
    BY <1>2
  <2>3. k * n \in Nat /\ k * n >= (k - 1) * n + 1
    BY ONLY <1>1, <2>1, <2>2
  <2>4. end(k) = IF L <= k * n THEN L ELSE k * n
    <3>1. end(k) = Load!Min({L, k * n})
      BY DEF Load!BatchEnd
    <3>2. Load!Min({L, k * n}) = Min({L, k * n})
      BY DEF Load!Min, Min
    <3> QED BY <1>1, <2>3, <3>1, <3>2, Lesser
  <2> HIDE DEF end
  <2> QED BY ONLY <1>1, <2>1, <2>2, <2>3, <2>4
<1> HIDE DEF end
<1>5. ASSUME NEW k \in 1..N
      PROVE  /\ bs[k].vol = v /\ bs[k].pkt = (k - 1) * n + 1 /\ bs[k].end = end(k)
             /\ bs[k] \in BatchTasks /\ BatchOK(bs[k])
  <2>1. bs[k].vol = v /\ bs[k].pkt = (k - 1) * n + 1 /\ bs[k].end = end(k)
    BY <1>3
  <2>2. (k - 1) * n + 1 \in Nat /\ end(k) \in Nat
    BY ONLY <1>1, <1>4
  <2>3. (k - 1) * n + 1 \in 1..end(k) /\ end(k) \in DOMAIN volumes[v]
    BY ONLY <1>1, <1>4
  <2> QED BY <1>1, <1>3, <2>1, <2>2, <2>3 DEF BatchTasks, BatchOK
<1>6. bs \in Seq(BatchTasks)
  <2>1. bs \in [1..N -> BatchTasks]
    BY <1>3, <1>5
  <2> QED BY <1>2, <2>1
<1>7. ToSet(bs) = {bs[k] : k \in 1..N}
  BY <1>3 DEF ToSet
<1>8. ASSUME NEW k \in 1..N, NEW m \in 1..N, k < m
      PROVE  Disjoint(bs[k], bs[m]) /\ Disjoint(bs[m], bs[k]) /\ bs[k].pkt # bs[m].pkt
  <2>1. (k - 1) * n + n <= (m - 1) * n
    BY <1>2, <1>8
  <2>2. end(k) < (m - 1) * n + 1 /\ (k - 1) * n + 1 <= end(k)
    <3>1. /\ end(k) = IF L <= k * n THEN L ELSE k * n
          /\ k * n = (k - 1) * n + n /\ (k - 1) * n + 1 <= end(k) /\ k * n \in Int
          /\ (k - 1) * n \in Int /\ (m - 1) * n \in Int
      BY <1>4
    <3> QED BY ONLY <1>1, <2>1, <3>1
  <2>3. bs[k].end < bs[m].pkt /\ bs[k].pkt # bs[m].pkt
    <3>1. end(k) \in Int /\ (k - 1) * n \in Int /\ (m - 1) * n \in Int
      BY <1>1, <1>4
    <3>2. (k - 1) * n + 1 # (m - 1) * n + 1
      BY ONLY <2>2, <3>1
    <3> QED BY <1>5, <2>2, <3>2
  <2> QED BY <2>3 DEF Disjoint
<1>9. \A k, m \in 1..N : k # m => k < m \/ m < k
  BY <1>2
<1>10. IsInjective(bs)
  <2>1. \A k, m \in 1..N : k # m => bs[k] # bs[m]
    BY <1>8, <1>9
  <2> QED BY <1>3, <2>1 DEF IsInjective
<1>11. \A t, u \in ToSet(bs) : t # u => Disjoint(t, u)
  BY <1>7, <1>8, <1>9
<1>12. ASSUME NEW i \in DOMAIN volumes[v] PROVE \E t \in ToSet(bs) : Within(t, v, i)
  <2>1. PICK k \in 1..N : (k - 1) * n + 1 <= i /\ i <= k * n
    BY <1>1, <1>2
  <2>2. i \in ((k - 1) * n + 1)..end(k)
    <3>1. end(k) = (IF L <= k * n THEN L ELSE k * n) /\ (k - 1) * n \in Int /\ k * n \in Int
      BY <1>4
    <3>2. i \in 1..L
      BY <1>1
    <3> QED BY ONLY <1>1, <2>1, <3>1, <3>2
  <2>3. Within(bs[k], v, i)
    BY <1>5, <2>2 DEF Within
  <2> QED BY <1>7, <2>3
<1>13. \A t \in ToSet(bs) : t.vol = v /\ BatchOK(t)
  BY <1>5, <1>7
<1>14. /\ bs \in Seq(BatchTasks) /\ IsInjective(bs)
       /\ \A t \in ToSet(bs) : t.vol = v /\ BatchOK(t)
       /\ \A t, u \in ToSet(bs) : t # u => Disjoint(t, u)
       /\ \A i \in DOMAIN volumes[v] : \E t \in ToSet(bs) : Within(t, v, i)
  BY <1>6, <1>10, <1>11, <1>12, <1>13
<1> QED BY ONLY <1>14 DEF bs

\* The batches of all volumes.
LEMMA BatchesAre ==
  ASSUME volumes \in Sets
  PROVE  LET all == Load!AllBatches(volumes) IN
         /\ all \in Seq(BatchTasks) /\ IsInjective(all)
         /\ \A t \in ToSet(all) : BatchOK(t)
         /\ \A t, u \in ToSet(all) : t # u => Disjoint(t, u)
         /\ \A q \in Load!Packets : \E t \in ToSet(all) : Within(t, q[1], q[2])
<1> DEFINE ss == [v \in DOMAIN volumes |-> IF volumes[v] = Unindexed THEN <<>> ELSE Load!Batches(v, volumes[v])]
           all == Load!AllBatches(volumes)
<1>1. all = FlattenSeq(ss)
  BY DEF Load!AllBatches, Load!FlattenSeq, FlattenSeq
<1>2. DOMAIN volumes = Load!Vols
  BY DEF Load!Vols
<1>3. \A v \in Load!Vols : ss[v] = IF v \in Load!Indexed(volumes) THEN Load!Batches(v, volumes[v]) ELSE <<>>
  BY <1>2, VolumesAre
<1>4. IsInjective(<<>>) /\ ToSet(<<>>) = {}
  BY DEF IsInjective, ToSet
<1>5. \A v \in Load!Vols : /\ ss[v] \in Seq(BatchTasks) /\ IsInjective(ss[v])
                           /\ \A t \in ToSet(ss[v]) : t.vol = v /\ BatchOK(t) /\ v \in Load!Indexed(volumes)
                           /\ \A t, u \in ToSet(ss[v]) : t # u => Disjoint(t, u)
  <2> SUFFICES ASSUME NEW v \in Load!Vols
               PROVE  /\ ss[v] \in Seq(BatchTasks) /\ IsInjective(ss[v])
                      /\ \A t \in ToSet(ss[v]) : t.vol = v /\ BatchOK(t) /\ v \in Load!Indexed(volumes)
                      /\ \A t, u \in ToSet(ss[v]) : t # u => Disjoint(t, u)
    OBVIOUS
  <2>1. CASE v \in Load!Indexed(volumes)
    <3>1. ss[v] = Load!Batches(v, volumes[v])
      BY <1>3, <2>1
    <3> HIDE DEF ss
    <3> QED BY <2>1, <3>1, BatchesOfOne
  <2>2. CASE v \notin Load!Indexed(volumes)
    <3>1. ss[v] = <<>> /\ <<>> \in Seq(BatchTasks)
      BY <1>3, <2>2
    <3> HIDE DEF ss
    <3> QED BY <1>4, <3>1
  <2> QED BY <2>1, <2>2
<1>6. ss \in Seq(Seq(BatchTasks)) /\ DOMAIN ss = Load!Vols
  <2>1. ss \in [1..Len(volumes) -> Seq(BatchTasks)] /\ Len(volumes) \in Nat
    BY <1>2, <1>5, VolumesAre
  <2> HIDE DEF ss
  <2> QED BY <2>1, VolumesAre
<1> HIDE DEF ss, all
<1>7. \A v, w \in Load!Vols : v # w => ToSet(ss[v]) \cap ToSet(ss[w]) = {}
  BY <1>5
<1>8. all \in Seq(BatchTasks) /\ IsInjective(all) /\ ToSet(all) = UNION {ToSet(ss[v]) : v \in Load!Vols}
  BY <1>1, <1>5, <1>6, <1>7, Flattened
<1>9. \A t \in ToSet(all) : \E v \in Load!Vols : t \in ToSet(ss[v])
  BY <1>8
<1>10. \A t \in ToSet(all) : BatchOK(t)
  BY <1>5, <1>9
<1>11. ASSUME NEW t \in ToSet(all), NEW u \in ToSet(all), t # u PROVE Disjoint(t, u)
  <2>1. PICK v \in Load!Vols : t \in ToSet(ss[v])
    BY <1>9
  <2>2. PICK w \in Load!Vols : u \in ToSet(ss[w])
    BY <1>9
  <2>3. CASE v = w
    BY <1>5, <1>11, <2>1, <2>2, <2>3
  <2>4. CASE v # w
    BY <1>5, <2>1, <2>2, <2>4 DEF Disjoint
  <2> QED BY <2>3, <2>4
<1>12. ASSUME NEW q \in Load!Packets PROVE \E t \in ToSet(all) : Within(t, q[1], q[2])
  <2>1. q[1] \in Load!Indexed(volumes) /\ q[1] \in Load!Vols /\ q[2] \in DOMAIN volumes[q[1]]
    BY VolumesAre
  <2>2. PICK t \in ToSet(ss[q[1]]) : Within(t, q[1], q[2])
    BY <1>3, <2>1, BatchesOfOne
  <2> QED BY <1>8, <2>1, <2>2
<1>13. /\ all \in Seq(BatchTasks) /\ IsInjective(all)
       /\ \A t \in ToSet(all) : BatchOK(t)
       /\ \A t, u \in ToSet(all) : t # u => Disjoint(t, u)
       /\ \A q \in Load!Packets : \E t \in ToSet(all) : Within(t, q[1], q[2])
  BY <1>8, <1>10, <1>11, <1>12
<1> QED BY ONLY <1>13 DEF all

-----------------------------------------------------------------------------
\* What a worker of the load is doing.
LEMMA LoadersAre ==
  ASSUME LoadTypeOK, NEW w \in Workers
  PROVE  /\ w \in Loaders <=> loadWork[w] \in Loading
         /\ w \in Loaders => /\ loadWork[w].at \in {"read", "handle"} /\ loadWork[w].vol \in Nat
                             /\ loadWork[w].pkt \in Nat /\ loadWork[w].end \in Nat
         /\ w \notin Loaders => loadWork[w].at \in {"idle", "exited"}
<1>1. loadWork[w] \in {Load!Idle, Load!Exited} \cup Loading
  BY DEF LoadTypeOK
<1>2. loadWork[w] \in Loading => /\ loadWork[w].at \in {"read", "handle"} /\ loadWork[w].vol \in Nat
                                 /\ loadWork[w].pkt \in Nat /\ loadWork[w].end \in Nat
  BY DEF Loading
<1>3. Load!Idle.at = "idle" /\ Load!Exited.at = "exited"
  BY DEF Load!Idle, Load!Exited
<1> QED BY <1>1, <1>2, <1>3 DEF Loaders

\* The volumes do not change while they are read.
LEMMA VolumesStay ==
  ASSUME [Load!Next]_(Load!vars)
  PROVE  /\ volumes' = volumes /\ retain' = retain /\ lost' = lost
         /\ Load!Packets' = Load!Packets /\ Load!Vols' = Load!Vols
         /\ \A t : BatchOK(t)' <=> BatchOK(t)
         /\ \A e : Load!Blocks(e)' = Load!Blocks(e)
         /\ \A v, i : Fact(v, i)' = Fact(v, i)
         /\ \A p : Load!Broken(p)' <=> Load!Broken(p)
         /\ \A q : OwnMain(q)' <=> OwnMain(q)
         /\ \A v : Unloaded(v)' <=> Unloaded(v)
<1>1. volumes' = volumes /\ retain' = retain /\ lost' = lost
  BY DEF Load!Next, Load!Worker, Load!vars, Load!env, Load!Index, Load!Send, Load!Close, Load!Exit, Load!ReadBatch,
         Load!HandlePacket, Load!Finish
<1>2. Load!Packets' = Load!Packets /\ Load!Vols' = Load!Vols
  BY <1>1 DEF Load!Packets, Load!Vols, Load!Indexed
<1>3. \A t : BatchOK(t)' <=> BatchOK(t)
  BY <1>1 DEF BatchOK, Load!Indexed
<1>4. \A v, i : Fact(v, i)' = Fact(v, i)
  BY <1>1 DEF Fact
<1>5. \A e : Load!Blocks(e)' = Load!Blocks(e)
  BY <1>1, <1>2 DEF Load!Blocks
<1>6. \A p : Load!Broken(p)' <=> Load!Broken(p)
  BY <1>1 DEF Load!Broken
<1>7. \A q : OwnMain(q)' <=> OwnMain(q)
  BY <1>4 DEF OwnMain
<1>8. \A v : Unloaded(v)' <=> Unloaded(v)
  BY <1>1, <1>2, <1>4, <1>6 DEF Unloaded
<1> QED BY <1>1, <1>2, <1>3, <1>4, <1>5, <1>6, <1>7, <1>8

\* A step of one worker leaves the others where they are.
LEMMA OtherLoadersStay ==
  ASSUME LoadTypeOK, NEW w \in Workers, NEW x, loadWork' = [loadWork EXCEPT ![w] = x]
  PROVE  /\ loadWork'[w] = x
         /\ \A u \in Workers : u # w => loadWork'[u] = loadWork[u]
         /\ \A u \in Workers : u # w => (u \in Loaders' <=> u \in Loaders)
         /\ \A u \in Loaders' : u = w \/ (u \in Loaders /\ u # w)
<1>1. loadWork'[w] = x /\ \A u \in Workers : u # w => loadWork'[u] = loadWork[u]
  BY DEF LoadTypeOK
<1>2. \A u \in Workers : u # w => (u \in Loaders' <=> u \in Loaders)
  BY <1>1 DEF Loaders
<1> QED BY <1>1, <1>2 DEF Loaders

\* The worker that is sent a batch.
LEMMA SendGives ==
  ASSUME LoadTypeOK, NEW w \in Workers, Load!Send(w)
  PROVE  \E h \in Queue :
           /\ Queue' = Queue \ {h} /\ h \in BatchTasks
           /\ loadTodo' \in Seq(BatchTasks) /\ IsInjective(loadTodo') /\ loadTodo' # loadTodo
           /\ loadWork' = [loadWork EXCEPT ![w] = loadWork'[w]] /\ loadWork'[w] \in Loading
           /\ loadWork'[w].at = (IF retain THEN "read" ELSE "handle")
           /\ loadWork'[w].vol = h.vol /\ loadWork'[w].pkt = h.pkt /\ loadWork'[w].end = h.end
           /\ w \in Loaders' /\ w \notin Loaders
<1> DEFINE h == Head(loadTodo)
           x == [at |-> IF retain THEN "read" ELSE "handle", vol |-> h.vol, pkt |-> h.pkt, end |-> h.end]
<1>1. loadTodo \in Seq(BatchTasks) /\ loadTodo # <<>> /\ IsInjective(loadTodo) /\ loadTodo' = Tail(loadTodo)
  BY DEF Load!Send, LoadTypeOK
<1>2. /\ h \in Queue /\ Queue' = Queue \ {h} /\ h \in BatchTasks
      /\ loadTodo' \in Seq(BatchTasks) /\ IsInjective(loadTodo')
  BY <1>1, Rest DEF Queue
<1>3. loadTodo' # loadTodo
  BY <1>2 DEF Queue
<1>4. loadWork' = [loadWork EXCEPT ![w] = x] /\ loadWork[w].at = "idle"
  BY DEF Load!Send
<1>5. loadWork'[w] = x
  BY <1>4 DEF LoadTypeOK
<1>6. x \in Loading
  BY <1>2 DEF BatchTasks, Loading
<1>7. /\ x.at = (IF retain THEN "read" ELSE "handle")
      /\ x.vol = h.vol /\ x.pkt = h.pkt /\ x.end = h.end
  OBVIOUS
<1>8. w \in Loaders' /\ w \notin Loaders
  BY <1>4, <1>5, <1>6, <1>7 DEF Loaders
<1> HIDE DEF h, x
<1> QED BY <1>2, <1>3, <1>4, <1>5, <1>6, <1>7, <1>8

\* The worker that handles a packet.
LEMMA HandleDoes ==
  ASSUME LoadTypeOK, BatchesHold, NEW w \in Workers, Load!HandlePacket(w)
  PROVE  /\ w \in Loaders /\ loadWork[w].at = "handle" /\ loadWork[w] \in Loading
         /\ BatchOK(loadWork[w])
         /\ <<loadWork[w].vol, loadWork[w].pkt>> \in Load!Packets
         /\ Fact(loadWork[w].vol, loadWork[w].pkt) \in Load!Packet
         /\ loadWork[w].vol \in Load!Vols /\ loadWork[w].vol \in Nat /\ loadWork[w].pkt \in Nat
         /\ loadWork' = [loadWork EXCEPT ![w] = loadWork'[w]]
         /\ IF loadWork[w].pkt = loadWork[w].end THEN loadWork'[w] = Load!Idle
            ELSE /\ loadWork'[w] = [loadWork[w] EXCEPT !.pkt = loadWork[w].pkt + 1]
                 /\ loadWork'[w] \in Loading /\ loadWork'[w].vol = loadWork[w].vol
                 /\ loadWork'[w].end = loadWork[w].end /\ loadWork'[w].at = "handle"
                 /\ loadWork'[w].pkt = loadWork[w].pkt + 1 /\ BatchOK(loadWork'[w])
<1> DEFINE r == loadWork[w]
<1>1. w \in Loaders /\ r.at = "handle" /\ r \in Loading /\ BatchOK(r)
  BY LoadersAre DEF Load!HandlePacket, BatchesHold, Loaders
<1>2. r.vol \in Nat /\ r.pkt \in Nat /\ r.end \in Nat
  BY <1>1 DEF Loading
<1>3. r.vol \in Load!Indexed(volumes) /\ r.end \in DOMAIN volumes[r.vol] /\ r.pkt \in 1..r.end
  BY <1>1 DEF BatchOK
<1>4. volumes[r.vol] \in Seq(Load!Packet)
  BY <1>3, VolumesAre DEF LoadTypeOK
<1>5. r.pkt \in DOMAIN volumes[r.vol]
  BY <1>2, <1>3, <1>4
<1>6. <<r.vol, r.pkt>> \in Load!Packets /\ r.vol \in Load!Vols
  BY <1>3, <1>5, VolumesAre DEF LoadTypeOK
<1>7. Fact(r.vol, r.pkt) \in Load!Packet
  BY <1>4, <1>5 DEF Fact
<1>8. /\ loadWork' = [loadWork EXCEPT ![w] = loadWork'[w]]
      /\ loadWork'[w] = IF r.pkt = r.end THEN Load!Idle ELSE [r EXCEPT !.pkt = r.pkt + 1]
  BY DEF Load!HandlePacket, LoadTypeOK
<1>9. ASSUME r.pkt # r.end
      PROVE  LET x == [r EXCEPT !.pkt = r.pkt + 1] IN
             x \in Loading /\ x.vol = r.vol /\ x.end = r.end /\ x.at = "handle" /\ x.pkt = r.pkt + 1 /\ BatchOK(x)
  <2> DEFINE x == [r EXCEPT !.pkt = r.pkt + 1]
  <2>1. x \in Loading /\ x.vol = r.vol /\ x.end = r.end /\ x.at = "handle" /\ x.pkt = r.pkt + 1
    BY <1>1, <1>2 DEF Loading
  <2> HIDE DEF x
  <2>2. r.pkt + 1 \in 1..r.end
    BY <1>2, <1>3, <1>9
  <2>3. BatchOK(x)
    BY <1>3, <2>1, <2>2 DEF BatchOK
  <2>4. x \in Loading /\ x.vol = r.vol /\ x.end = r.end /\ x.at = "handle" /\ x.pkt = r.pkt + 1 /\ BatchOK(x)
    BY <2>1, <2>3
  <2> QED BY ONLY <2>4 DEF x
<1> QED BY <1>1, <1>2, <1>6, <1>7, <1>8, <1>9

\* The worker that reads a batch.
LEMMA ReadDoes ==
  ASSUME LoadTypeOK, BatchesHold, NEW w \in Workers, Load!ReadBatch(w)
  PROVE  /\ w \in Loaders /\ loadWork[w].at = "read" /\ loadWork[w] \in Loading /\ BatchOK(loadWork[w])
         /\ loadWork[w].vol \in Load!Vols
         /\ loadWork' = [loadWork EXCEPT ![w] = loadWork'[w]]
         /\ IF <<loadWork[w].vol, loadWork[w].pkt>> \in lost
            THEN loadWork'[w] = Load!Idle /\ failed' = failed \cup {loadWork[w].vol}
            ELSE /\ loadWork'[w] \in Loading /\ loadWork'[w].vol = loadWork[w].vol
                 /\ loadWork'[w].end = loadWork[w].end /\ loadWork'[w].at = "handle"
                 /\ loadWork'[w].pkt = loadWork[w].pkt /\ BatchOK(loadWork'[w]) /\ failed' = failed
<1>1. w \in Loaders /\ loadWork[w].at = "read" /\ loadWork[w] \in Loading /\ BatchOK(loadWork[w])
  BY LoadersAre DEF Load!ReadBatch, BatchesHold, Loaders
<1>2. loadWork[w].vol \in Load!Vols
  BY <1>1, VolumesAre DEF BatchOK, LoadTypeOK
<1>3. /\ loadWork' = [loadWork EXCEPT ![w] = loadWork'[w]]
      /\ IF <<loadWork[w].vol, loadWork[w].pkt>> \in lost
         THEN loadWork'[w] = Load!Idle /\ failed' = failed \cup {loadWork[w].vol}
         ELSE loadWork'[w] = [loadWork[w] EXCEPT !.at = "handle"] /\ failed' = failed
  BY DEF Load!ReadBatch, LoadTypeOK
<1> DEFINE x == [loadWork[w] EXCEPT !.at = "handle"]
<1>4. /\ x \in Loading /\ x.vol = loadWork[w].vol
      /\ x.end = loadWork[w].end /\ x.at = "handle" /\ x.pkt = loadWork[w].pkt
  BY <1>1 DEF Loading
<1> HIDE DEF x
<1>5. BatchOK(x)
  BY <1>1, <1>4 DEF BatchOK
<1> QED BY <1>1, <1>2, <1>3, <1>4, <1>5 DEF x

-----------------------------------------------------------------------------
\* A batch that cannot be read is one of the batches.
LEMMA LostAre ==
  ASSUME LoadTypeOK, NEW b \in lost
  PROVE  /\ b[1] \in Load!Vols /\ b[1] \in Load!Indexed(volumes)
         /\ \E t \in ToSet(Load!AllBatches(volumes)) : b = <<t.vol, t.pkt>> /\ t.vol = b[1] /\ t.pkt = b[2]
<1>1. PICK t \in ToSet(Load!AllBatches(volumes)) : b = <<t.vol, t.pkt>>
  BY DEF LoadTypeOK
<1>2. BatchOK(t)
  BY BatchesAre DEF LoadTypeOK
<1>3. t.vol \in Load!Indexed(volumes) /\ t.vol \in Load!Vols
  BY <1>2, VolumesAre DEF BatchOK, LoadTypeOK
<1> QED BY <1>1, <1>3

\* The load begins with nothing read.
LEMMA LoadTypeInit == Load!Init => LoadTypeOK
<1> SUFFICES ASSUME Load!Init PROVE LoadTypeOK
  OBVIOUS
<1> DEFINE all == Load!AllBatches(volumes)
           B == {<<t.vol, t.pkt>> : t \in ToSet(all)}
<1>1. volumes \in Sets /\ retain \in BOOLEAN
  BY DEF Load!Init
<1>2. \A s : Load!ToSet(s) = ToSet(s)
  BY DEF Load!ToSet, ToSet
<1>3. lost \in SUBSET B /\ Cardinality(lost) <= (IF retain THEN MaxBad ELSE 0)
  <2> DEFINE L == {<<t.vol, t.pkt>> : t \in Load!ToSet(all)}
             m == IF retain THEN MaxBad ELSE 0
  <2>1. lost \in {b \in SUBSET L : Load!Cardinality(b) <= m}
    BY DEF Load!Init
  <2>2. L = B
    BY <1>2
  <2>3. Load!Cardinality(lost) = Cardinality(lost)
    BY DEF Load!Cardinality, Cardinality
  <2> HIDE DEF L, B, m
  <2>4. lost \in SUBSET L /\ Load!Cardinality(lost) <= m
    BY <2>1
  <2>5. lost \in SUBSET B /\ Cardinality(lost) <= m
    BY <2>2, <2>3, <2>4
  <2> QED BY <2>5 DEF m
<1>4. IsFiniteSet(B)
  <2>1. all \in Seq(BatchTasks)
    BY <1>1, BatchesAre
  <2> HIDE DEF all
  <2>2. DOMAIN all = 1..Len(all) /\ Len(all) \in Nat
    BY <2>1
  <2> DEFINE f == [i \in 1..Len(all) |-> <<all[i].vol, all[i].pkt>>]
  <2>3. f \in Surjection(1..Len(all), B)
    <3>1. \A i \in 1..Len(all) : f[i] \in B
      BY <2>2 DEF ToSet
    <3>2. \A b \in B : \E i \in 1..Len(all) : f[i] = b
      BY <2>2 DEF ToSet
    <3> HIDE DEF B
    <3> QED BY <3>1, <3>2 DEF Surjection
  <2>4. IsFiniteSet(1..Len(all))
    BY <2>2, FS_Interval
  <2> HIDE DEF f, B
  <2> QED BY <2>3, <2>4, FS_Surjection
<1> HIDE DEF B
<1>5. ~retain => lost = {}
  <2>1. IsFiniteSet(lost)
    BY <1>3, <1>4, FS_Subset
  <2>2. Cardinality(lost) \in Nat
    BY <2>1, FS_CardinalityType
  <2>3. ~retain => Cardinality(lost) = 0
    BY <1>3, <2>2
  <2> QED BY <2>1, <2>3, FS_EmptySet
<1>6. loadTodo \in Seq(BatchTasks) /\ IsInjective(loadTodo) /\ events \in Seq(Load!Packets) /\ IsInjective(events)
  BY DEF Load!Init, IsInjective
<1>7. /\ loadPc = "index" /\ loadWork \in [Workers -> {Load!Idle, Load!Exited} \cup Loading]
      /\ failed = {} /\ mains \in [Load!Vols -> {Nowhere} \cup Nat]
  BY DEF Load!Init
<1> QED BY <1>1, <1>3, <1>5, <1>6, <1>7 DEF LoadTypeOK, B

\* The events get one packet more.
LEMMA OneMoreEvent ==
  ASSUME LoadTypeOK, NEW q \in Load!Packets, q \notin Heard
  PROVE  /\ Append(events, q) \in Seq(Load!Packets) /\ IsInjective(Append(events, q))
         /\ ToSet(Append(events, q)) = Heard \cup {q}
<1>1. events \in Seq(Load!Packets) /\ IsInjective(events)
  BY DEF LoadTypeOK
<1> DEFINE n == Len(events)
           s == Append(events, q)
<1>2. /\ n \in Nat /\ DOMAIN events = 1..n /\ s \in Seq(Load!Packets)
      /\ DOMAIN s = 1..(n + 1) /\ s[n + 1] = q
      /\ \A i \in 1..n : s[i] = events[i]
  BY <1>1
<1> HIDE DEF s, n
<1>3. \A i \in 1..n : events[i] \in Heard
  BY <1>2 DEF Heard, ToSet
<1>4. IsInjective(s)
  <2> SUFFICES ASSUME NEW i \in 1..(n + 1), NEW j \in 1..(n + 1), s[i] = s[j] PROVE i = j
    BY <1>2 DEF IsInjective
  <2>1. CASE i \in 1..n /\ j \in 1..n
    BY <1>1, <1>2, <2>1 DEF IsInjective
  <2>2. CASE i = n + 1 \/ j = n + 1
    <3>1. i \in 1..n => s[i] # q
      BY <1>2, <1>3
    <3>2. j \in 1..n => s[j] # q
      BY <1>2, <1>3
    <3> QED BY <1>2, <2>2, <3>1, <3>2
  <2> QED BY <1>2, <2>1, <2>2
<1>5. ToSet(s) = Heard \cup {q}
  <2>1. ToSet(s) \subseteq Heard \cup {q}
    <3> SUFFICES ASSUME NEW i \in 1..(n + 1) PROVE s[i] \in Heard \cup {q}
      BY <1>2 DEF ToSet
    <3>1. i \in 1..n \/ i = n + 1
      BY <1>2
    <3> QED BY <1>2, <1>3, <3>1
  <2>2. Heard \cup {q} \subseteq ToSet(s)
    <3>1. ASSUME NEW x \in Heard PROVE x \in ToSet(s)
      <4>1. PICK i \in 1..n : x = events[i]
        BY <1>2 DEF Heard, ToSet
      <4>2. i \in 1..(n + 1) /\ s[i] = x
        BY <1>2, <4>1
      <4> QED BY <1>2, <4>2 DEF ToSet
    <3>2. n + 1 \in 1..(n + 1)
      BY <1>2
    <3> QED BY <1>2, <3>1, <3>2 DEF ToSet
  <2> QED BY <2>1, <2>2
<1> QED BY <1>2, <1>4, <1>5 DEF s

\* The types are kept by every step.
LEMMA LoadTypeStep ==
  LoadTypeOK /\ LoadStagesHold /\ BatchesHold /\ HeardHolds /\ [Load!Next]_(Load!vars) => LoadTypeOK'
<1> SUFFICES ASSUME LoadTypeOK, LoadStagesHold, BatchesHold, HeardHolds, [Load!Next]_(Load!vars) PROVE LoadTypeOK'
  OBVIOUS
<1> USE DEF Load!env, Load!found
<1>a. /\ volumes' = volumes /\ retain' = retain /\ lost' = lost
      /\ Load!Packets' = Load!Packets /\ Load!Vols' = Load!Vols
      /\ Load!AllBatches(volumes)' = Load!AllBatches(volumes)
  BY VolumesStay DEF Load!AllBatches, Load!Batches, Load!BatchEnd
<1>b. /\ loadPc \in {"index", "send", "wait", "done"}
      /\ loadTodo \in Seq(BatchTasks) /\ IsInjective(loadTodo)
      /\ loadWork \in [Workers -> {Load!Idle, Load!Exited} \cup Loading]
      /\ failed \subseteq Load!Vols
      /\ events \in Seq(Load!Packets) /\ IsInjective(events)
      /\ mains \in [Load!Vols -> {Nowhere} \cup Nat]
  BY DEF LoadTypeOK
<1>c. (/\ loadPc' \in {"index", "send", "wait", "done"}
       /\ loadTodo' \in Seq(BatchTasks) /\ IsInjective(loadTodo')
       /\ loadWork' \in [Workers -> {Load!Idle, Load!Exited} \cup Loading]
       /\ failed' \subseteq Load!Vols
       /\ events' \in Seq(Load!Packets) /\ IsInjective(events')
       /\ mains' \in [Load!Vols -> {Nowhere} \cup Nat]) => LoadTypeOK'
  BY <1>a DEF LoadTypeOK, BatchTasks, Loading, Load!Idle, Load!Exited
<1>d. ASSUME NEW w \in Workers, loadWork' = [loadWork EXCEPT ![w] = loadWork'[w]],
             loadWork'[w] \in {Load!Idle, Load!Exited} \cup Loading
      PROVE  loadWork' \in [Workers -> {Load!Idle, Load!Exited} \cup Loading]
  BY <1>b, <1>d
<1>1. CASE UNCHANGED Load!vars
  BY <1>b, <1>c, <1>1 DEF Load!vars
<1>2. CASE Load!Index
  <2>1. loadTodo' \in Seq(BatchTasks) /\ IsInjective(loadTodo')
    BY <1>2, BatchesAre DEF Load!Index, LoadTypeOK
  <2> QED BY <1>b, <1>c, <1>2, <2>1 DEF Load!Index
<1>3. ASSUME NEW w \in Workers, Load!Send(w) PROVE LoadTypeOK'
  <2>1. /\ loadTodo' \in Seq(BatchTasks) /\ IsInjective(loadTodo')
        /\ loadWork' = [loadWork EXCEPT ![w] = loadWork'[w]] /\ loadWork'[w] \in Loading
    BY <1>3, SendGives
  <2>2. loadPc' = loadPc /\ failed' = failed /\ events' = events /\ mains' = mains
    BY <1>3 DEF Load!Send
  <2> QED BY <1>b, <1>c, <1>d, <2>1, <2>2
<1>4. CASE Load!Close \/ Load!Finish
  BY <1>b, <1>c, <1>4 DEF Load!Close, Load!Finish
<1>5. ASSUME NEW w \in Workers, Load!Exit(w) PROVE LoadTypeOK'
  <2>1. loadWork' = [loadWork EXCEPT ![w] = loadWork'[w]] /\ loadWork'[w] = Load!Exited
    BY <1>5, <1>b DEF Load!Exit
  <2> QED BY <1>b, <1>c, <1>d, <1>5, <2>1 DEF Load!Exit
<1>6. ASSUME NEW w \in Workers, Load!ReadBatch(w) PROVE LoadTypeOK'
  <2>1. /\ loadWork' = [loadWork EXCEPT ![w] = loadWork'[w]] /\ loadWork'[w] \in {Load!Idle} \cup Loading
        /\ failed' \subseteq Load!Vols
    BY <1>6, <1>b, ReadDoes
  <2> QED BY <1>b, <1>c, <1>d, <1>6, <2>1 DEF Load!ReadBatch
<1>7. ASSUME NEW w \in Workers, Load!HandlePacket(w) PROVE LoadTypeOK'
  <2> DEFINE v == loadWork[w].vol
             i == loadWork[w].pkt
  <2>1. /\ loadWork' = [loadWork EXCEPT ![w] = loadWork'[w]] /\ loadWork'[w] \in {Load!Idle} \cup Loading
        /\ v \in Load!Vols /\ <<v, i>> \in Load!Packets /\ i \in Nat /\ w \in Loaders /\ BatchOK(loadWork[w])
    BY <1>7, HandleDoes
  <2>2. failed' \subseteq Load!Vols
    BY <1>b, <1>7, <2>1 DEF Load!HandlePacket
  <2>3. <<v, i>> \notin Heard
    <3>1. Pending(v, i)
      <4>1. Within(loadWork[w], v, i)
        BY <2>1 DEF Within, BatchOK
      <4> QED BY <2>1, <4>1 DEF Pending
    <3> QED BY <3>1 DEF HeardHolds
  <2>4. events' = events \/ events' = Append(events, <<v, i>>)
    BY <1>7 DEF Load!HandlePacket, Load!Handle
  <2>5. events' \in Seq(Load!Packets) /\ IsInjective(events')
    BY <1>b, <2>1, <2>3, <2>4, OneMoreEvent
  <2>6. mains' \in [Load!Vols -> {Nowhere} \cup Nat]
    <3>1. mains' = mains \/ mains' = [mains EXCEPT ![v] = i]
      BY <1>7 DEF Load!HandlePacket, Load!Handle
    <3> QED BY <1>b, <2>1, <3>1
  <2>7. loadPc' = loadPc /\ loadTodo' = loadTodo
    BY <1>7 DEF Load!HandlePacket
  <2> QED BY <1>b, <1>c, <1>d, <2>1, <2>2, <2>5, <2>6, <2>7
<1> QED BY <1>1, <1>2, <1>3, <1>4, <1>5, <1>6, <1>7 DEF Load!Next, Load!Worker

\* What is replayed depends on the events alone, and what is refused on the errors and the main packets.
LEMMA AnswersStay ==
  ASSUME [Load!Next]_(Load!vars)
  PROVE  /\ events' = events => Load!Replay' = Load!Replay
         /\ failed' = failed /\ mains' = mains => Load!Refused' = Load!Refused
<1>1. volumes' = volumes /\ Load!Vols' = Load!Vols
  BY VolumesStay
<1>2. ASSUME events' = events PROVE Load!Replay' = Load!Replay
  BY <1>2 DEF Load!Replay, Load!Sorted, Load!Rank, Load!Before
<1>3. ASSUME failed' = failed, mains' = mains PROVE Load!Refused' = Load!Refused
  BY <1>1, <1>3 DEF Load!Refused, Load!Mismatched
<1> QED BY <1>2, <1>3

\* The load ends when its workers have.
LEMMA LoadStagesStep ==
  LoadTypeOK /\ LoadStagesHold /\ BatchesHold /\ [Load!Next]_(Load!vars) => LoadStagesHold'
<1> SUFFICES ASSUME LoadTypeOK, LoadStagesHold, BatchesHold, [Load!Next]_(Load!vars) PROVE LoadStagesHold'
  OBVIOUS
<1>a. /\ loadPc # "send" => loadTodo = <<>>
      /\ loadPc = "index" => Loaders = {} /\ events = <<>> /\ failed = {}
      /\ loadPc = "done" => (\A w \in Workers : loadWork[w].at = "exited") /\ heard = Load!Replay
      /\ outcome = IF loadPc # "done" THEN "loading" ELSE IF Load!Refused = {} THEN "loaded" ELSE "refused"
  BY DEF LoadStagesHold
<1>b. /\ events' = events => Load!Replay' = Load!Replay
      /\ failed' = failed /\ mains' = mains => Load!Refused' = Load!Refused
  BY AnswersStay
<1>c. ASSUME NEW w \in Workers, loadWork[w].at # "exited", loadPc' = loadPc, loadPc # "index",
             loadPc = "send" \/ loadTodo' = loadTodo, outcome' = outcome
      PROVE  LoadStagesHold'
  <2>1. loadPc # "done"
    BY <1>a, <1>c
  <2> QED BY <1>a, <1>c, <2>1 DEF LoadStagesHold
<1>1. CASE UNCHANGED Load!vars
  <2>1. /\ loadPc' = loadPc /\ loadTodo' = loadTodo /\ loadWork' = loadWork /\ events' = events
        /\ failed' = failed /\ mains' = mains /\ heard' = heard /\ outcome' = outcome
    BY <1>1 DEF Load!vars
  <2>2. Loaders' = Loaders
    BY <2>1 DEF Loaders
  <2>3. Load!Replay' = Load!Replay /\ Load!Refused' = Load!Refused
    BY <1>b, <2>1
  <2> QED BY <1>a, <2>1, <2>2, <2>3 DEF LoadStagesHold
<1>2. CASE Load!Index
  <2>1. loadPc' = "send" /\ outcome' = outcome /\ loadPc = "index"
    BY <1>2 DEF Load!Index
  <2> QED BY <1>a, <2>1 DEF LoadStagesHold
<1>3. ASSUME NEW w \in Workers, Load!Send(w) PROVE LoadStagesHold'
  BY <1>c, <1>3 DEF Load!Send
<1>4. CASE Load!Close
  <2>1. loadPc' = "wait" /\ loadTodo' = <<>> /\ outcome' = outcome /\ loadPc = "send"
    BY <1>4 DEF Load!Close
  <2> QED BY <1>a, <2>1 DEF LoadStagesHold
<1>5. CASE Load!Finish
  <2>1. /\ loadPc = "wait" /\ loadPc' = "done" /\ loadTodo' = loadTodo /\ loadWork' = loadWork
        /\ \A w \in Workers : loadWork[w].at = "exited"
        /\ events' = events /\ failed' = failed /\ mains' = mains
        /\ heard' = Load!Replay /\ outcome' = IF Load!Refused = {} THEN "loaded" ELSE "refused"
    BY <1>5 DEF Load!Finish, Load!found
  <2>2. Load!Replay' = Load!Replay /\ Load!Refused' = Load!Refused
    BY <1>b, <2>1
  <2> QED BY <1>a, <2>1, <2>2 DEF LoadStagesHold
<1>6. ASSUME NEW w \in Workers, Load!Exit(w) PROVE LoadStagesHold'
  BY <1>c, <1>6 DEF Load!Exit
<1>7. ASSUME NEW w \in Workers, Load!ReadBatch(w) PROVE LoadStagesHold'
  <2>1. w \in Loaders /\ loadWork[w].at = "read"
    BY <1>7, ReadDoes
  <2> QED BY <1>a, <1>c, <1>7, <2>1 DEF Load!ReadBatch
<1>8. ASSUME NEW w \in Workers, Load!HandlePacket(w) PROVE LoadStagesHold'
  <2>1. w \in Loaders /\ loadWork[w].at = "handle"
    BY <1>8, HandleDoes
  <2> QED BY <1>a, <1>c, <1>8, <2>1 DEF Load!HandlePacket
<1> QED BY <1>1, <1>2, <1>3, <1>4, <1>5, <1>6, <1>7, <1>8 DEF Load!Next, Load!Worker

\* The steps that touch no batch and record nothing.
Quiet == /\ Queue' = Queue /\ Loaders' = Loaders /\ (\A u \in Loaders : loadWork'[u] = loadWork[u])
         /\ failed' = failed /\ present' = present /\ locations' = locations
         /\ mains' = mains /\ events' = events /\ (loadPc' = "index" <=> loadPc = "index")

\* A step is quiet, cuts the volumes, hands a batch to a worker, or gets a worker further.
LEMMA LoadSteps ==
  ASSUME LoadTypeOK, LoadStagesHold, [Load!Next]_(Load!vars)
  PROVE  \/ Quiet \/ Load!Index
         \/ \E w \in Workers : Load!Send(w) \/ Load!ReadBatch(w) \/ Load!HandlePacket(w)
<1> USE DEF Load!found
<1>1. CASE UNCHANGED Load!vars
  BY <1>1 DEF Load!vars, Quiet, Queue, Loaders
<1>2. CASE Load!Close
  BY <1>2 DEF Load!Close, Quiet, Queue, Loaders
<1>3. CASE Load!Finish
  BY <1>3 DEF Load!Finish, Quiet, Queue, Loaders
<1>4. ASSUME NEW w \in Workers, Load!Exit(w) PROVE Quiet
  <2>1. /\ loadWork' = [loadWork EXCEPT ![w] = Load!Exited] /\ loadTodo' = loadTodo /\ loadWork[w].at = "idle"
        /\ loadPc' = loadPc /\ failed' = failed /\ present' = present /\ locations' = locations
        /\ mains' = mains /\ events' = events
    BY <1>4 DEF Load!Exit
  <2>2. loadWork'[w] = Load!Exited /\ \A u \in Workers : u # w => loadWork'[u] = loadWork[u]
    BY <2>1 DEF LoadTypeOK
  <2>3. loadWork'[w].at = "exited"
    BY <2>2 DEF Load!Exited
  <2>4. Loaders' = Loaders /\ \A u \in Loaders : loadWork'[u] = loadWork[u]
    BY <2>1, <2>2, <2>3 DEF Loaders
  <2> QED BY <2>1, <2>4 DEF Quiet, Queue
<1> QED BY <1>1, <1>2, <1>3, <1>4 DEF Load!Next, Load!Worker

\* The volumes are cut when they are indexed.
LEMMA IndexCuts ==
  ASSUME LoadTypeOK, LoadStagesHold, Load!Index
  PROVE  /\ Queue' = ToSet(Load!AllBatches(volumes)) /\ Loaders' = {}
         /\ loadPc = "index" /\ loadPc' = "send" /\ events' = events /\ Heard = {} /\ Heard' = {}
         /\ failed' = {v \in Load!Vols : volumes[v] = Unindexed}
         /\ present' = present /\ locations' = locations /\ mains' = mains
<1>1. /\ loadTodo' = Load!AllBatches(volumes) /\ loadWork' = loadWork /\ Loaders = {} /\ events = <<>>
      /\ loadPc = "index" /\ loadPc' = "send" /\ events' = events
      /\ failed' = {v \in Load!Vols : volumes[v] = Unindexed}
      /\ present' = present /\ locations' = locations /\ mains' = mains
  BY DEF Load!Index, Load!found, LoadStagesHold
<1>2. Loaders' = {}
  BY <1>1 DEF Loaders
<1>3. ToSet(<<>>) = {}
  BY DEF ToSet
<1> QED BY <1>1, <1>2, <1>3 DEF Queue, Heard

-----------------------------------------------------------------------------
\* Batches stay within their volumes.
LEMMA BatchesStep ==
  LoadTypeOK /\ LoadStagesHold /\ BatchesHold /\ [Load!Next]_(Load!vars) => BatchesHold'
<1> SUFFICES ASSUME LoadTypeOK, LoadStagesHold, BatchesHold, [Load!Next]_(Load!vars) PROVE BatchesHold'
  OBVIOUS
<1>a. \A t : BatchOK(t)' <=> BatchOK(t)
  BY VolumesStay
<1>b. (\A t \in Queue : BatchOK(t)) /\ (\A w \in Loaders : BatchOK(loadWork[w])) /\ volumes' = volumes
  BY VolumesStay DEF BatchesHold
<1>c. (\A t \in Queue' : BatchOK(t)) /\ (\A u \in Loaders' : BatchOK(loadWork'[u])) => BatchesHold'
  BY <1>b DEF BatchesHold, BatchOK, Load!Indexed
<1>d. ASSUME NEW w \in Workers, loadWork' = [loadWork EXCEPT ![w] = loadWork'[w]],
             w \in Loaders' => BatchOK(loadWork'[w]), Queue' \subseteq Queue
      PROVE  BatchesHold'
  <2>0. /\ \A u \in Workers : u # w => loadWork'[u] = loadWork[u]
        /\ \A u \in Loaders' : u = w \/ (u \in Loaders /\ u # w)
    BY <1>d, OtherLoadersStay
  <2>1. \A u \in Loaders' : BatchOK(loadWork'[u])
    BY <1>b, <1>d, <2>0 DEF Loaders
  <2> QED BY <1>b, <1>c, <1>d, <2>1
<1>1. CASE Quiet
  BY <1>b, <1>c, <1>1 DEF Quiet
<1>2. CASE Load!Index
  <2>1. \A t \in ToSet(Load!AllBatches(volumes)) : BatchOK(t)
    BY BatchesAre DEF LoadTypeOK
  <2> QED BY <1>c, <1>2, <2>1, IndexCuts
<1>3. ASSUME NEW w \in Workers, Load!Send(w) PROVE BatchesHold'
  <2>1. PICK h \in Queue :
          /\ Queue' = Queue \ {h} /\ loadWork' = [loadWork EXCEPT ![w] = loadWork'[w]]
          /\ loadWork'[w].vol = h.vol /\ loadWork'[w].pkt = h.pkt /\ loadWork'[w].end = h.end
    BY <1>3, SendGives
  <2>2. BatchOK(h)
    BY <1>b
  <2>3. BatchOK(loadWork'[w])
    BY <2>1, <2>2 DEF BatchOK
  <2> QED BY <1>d, <2>1, <2>3
<1>4. ASSUME NEW w \in Workers, Load!ReadBatch(w) PROVE BatchesHold'
  <2>1. /\ loadWork' = [loadWork EXCEPT ![w] = loadWork'[w]]
        /\ loadWork'[w] = Load!Idle \/ BatchOK(loadWork'[w])
    BY <1>4, ReadDoes
  <2>2. Queue' = Queue
    BY <1>4 DEF Load!ReadBatch, Queue
  <2>3. w \in Loaders' => BatchOK(loadWork'[w])
    BY <2>1 DEF Loaders, Load!Idle
  <2> QED BY <1>d, <2>1, <2>2, <2>3
<1>5. ASSUME NEW w \in Workers, Load!HandlePacket(w) PROVE BatchesHold'
  <2>1. /\ loadWork' = [loadWork EXCEPT ![w] = loadWork'[w]]
        /\ loadWork'[w] = Load!Idle \/ BatchOK(loadWork'[w])
    BY <1>5, HandleDoes
  <2>2. Queue' = Queue
    BY <1>5 DEF Load!HandlePacket, Queue
  <2>3. w \in Loaders' => BatchOK(loadWork'[w])
    BY <2>1 DEF Loaders, Load!Idle
  <2> QED BY <1>d, <2>1, <2>2, <2>3
<1> QED BY <1>1, <1>2, <1>3, <1>4, <1>5, LoadSteps

\* Batches stay apart.
LEMMA BatchesApartStep ==
  LoadTypeOK /\ LoadStagesHold /\ BatchesHold /\ BatchesApart /\ [Load!Next]_(Load!vars) => BatchesApart'
<1> SUFFICES ASSUME LoadTypeOK, LoadStagesHold, BatchesHold, BatchesApart, [Load!Next]_(Load!vars)
             PROVE  BatchesApart'
  OBVIOUS
<1>b. /\ \A t, u \in Queue : t # u => Disjoint(t, u)
      /\ \A t \in Queue : \A w \in Loaders : Disjoint(t, loadWork[w])
      /\ \A w, x \in Loaders : w # x => Disjoint(loadWork[w], loadWork[x])
  BY DEF BatchesApart
<1>c. (/\ \A t, u \in Queue' : t # u => Disjoint(t, u)
       /\ \A t \in Queue' : \A w \in Loaders' : Disjoint(t, loadWork'[w])
       /\ \A w, x \in Loaders' : w # x => Disjoint(loadWork'[w], loadWork'[x])) => BatchesApart'
  BY DEF BatchesApart, Disjoint
\* A worker that gets further in its batch, or is done with it.
<1>d. ASSUME NEW w \in Loaders, loadWork' = [loadWork EXCEPT ![w] = loadWork'[w]], Queue' = Queue,
             w \in Loaders' => /\ loadWork'[w].vol = loadWork[w].vol /\ loadWork'[w].end = loadWork[w].end
                               /\ loadWork'[w].pkt \in Nat /\ loadWork[w].pkt <= loadWork'[w].pkt
      PROVE  BatchesApart'
  <2>0. w \in Workers /\ loadWork[w].pkt \in Nat /\ loadWork[w].vol \in Nat /\ loadWork[w].end \in Nat
    BY LoadersAre DEF Loaders
  <2>1. /\ \A u \in Workers : u # w => loadWork'[u] = loadWork[u]
        /\ \A u \in Loaders' : u = w \/ (u \in Loaders /\ u # w)
    BY <1>d, <2>0, OtherLoadersStay
  <2>2. ASSUME NEW t, t.end \in Nat, w \in Loaders', Disjoint(t, loadWork[w])
        PROVE  Disjoint(t, loadWork'[w]) /\ Disjoint(loadWork'[w], t)
    BY <1>d, <2>0, <2>2 DEF Disjoint
  <2>3. \A t \in Queue : t.end \in Nat
    <3>1. \A t \in Queue : t \in BatchTasks
      BY DEF Queue, LoadTypeOK, ToSet
    <3> QED BY <3>1 DEF BatchTasks
  <2>4. \A x \in Loaders : loadWork[x].end \in Nat /\ x \in Workers
    BY LoadersAre DEF Loaders
  <2>5. \A t \in Queue' : \A x \in Loaders' : Disjoint(t, loadWork'[x])
    BY <1>b, <1>d, <2>1, <2>2, <2>3, <2>4
  <2>6. \A x, y \in Loaders' : x # y => Disjoint(loadWork'[x], loadWork'[y])
    BY <1>b, <1>d, <2>1, <2>2, <2>4
  <2> QED BY <1>b, <1>c, <1>d, <2>5, <2>6
<1>1. CASE Quiet
  BY <1>b, <1>c, <1>1 DEF Quiet
<1>2. CASE Load!Index
  <2>1. \A t, u \in ToSet(Load!AllBatches(volumes)) : t # u => Disjoint(t, u)
    BY BatchesAre DEF LoadTypeOK
  <2> QED BY <1>c, <1>2, <2>1, IndexCuts
<1>3. ASSUME NEW w \in Workers, Load!Send(w) PROVE BatchesApart'
  <2>1. PICK h \in Queue :
          /\ Queue' = Queue \ {h} /\ loadWork' = [loadWork EXCEPT ![w] = loadWork'[w]]
          /\ loadWork'[w].vol = h.vol /\ loadWork'[w].pkt = h.pkt /\ loadWork'[w].end = h.end
          /\ w \notin Loaders
    BY <1>3, SendGives
  <2>2. /\ \A u \in Workers : u # w => loadWork'[u] = loadWork[u]
        /\ \A u \in Loaders' : u = w \/ (u \in Loaders /\ u # w)
    BY <2>1, OtherLoadersStay
  <2>3. \A t : (Disjoint(t, h) <=> Disjoint(t, loadWork'[w])) /\ (Disjoint(h, t) <=> Disjoint(loadWork'[w], t))
    BY <2>1 DEF Disjoint
  <2>4. \A x \in Loaders : x \in Workers /\ Disjoint(h, loadWork[x]) /\ Disjoint(loadWork[x], h)
    BY <1>b DEF Disjoint, Loaders
  <2>5. \A t \in Queue' : \A x \in Loaders' : Disjoint(t, loadWork'[x])
    BY <1>b, <2>1, <2>2, <2>3, <2>4
  <2>6. \A x, y \in Loaders' : x # y => Disjoint(loadWork'[x], loadWork'[y])
    BY <1>b, <2>1, <2>2, <2>3, <2>4
  <2> QED BY <1>b, <1>c, <2>1, <2>5, <2>6
<1>4. ASSUME NEW w \in Workers, Load!ReadBatch(w) PROVE BatchesApart'
  <2>1. /\ w \in Loaders /\ loadWork' = [loadWork EXCEPT ![w] = loadWork'[w]] /\ loadWork[w] \in Loading
        /\ loadWork'[w] = Load!Idle \/ (/\ loadWork'[w].vol = loadWork[w].vol /\ loadWork'[w].end = loadWork[w].end
                                        /\ loadWork'[w].pkt = loadWork[w].pkt)
    BY <1>4, ReadDoes
  <2>2. Queue' = Queue
    BY <1>4 DEF Load!ReadBatch, Queue
  <2>3. w \in Loaders' => loadWork'[w] # Load!Idle
    BY DEF Loaders, Load!Idle
  <2>4. loadWork[w].pkt \in Nat
    BY <2>1 DEF Loading
  <2> QED BY <1>d, <2>1, <2>2, <2>3, <2>4
<1>5. ASSUME NEW w \in Workers, Load!HandlePacket(w) PROVE BatchesApart'
  <2>1. /\ w \in Loaders /\ loadWork' = [loadWork EXCEPT ![w] = loadWork'[w]] /\ loadWork[w].pkt \in Nat
        /\ loadWork'[w] = Load!Idle \/ (/\ loadWork'[w].vol = loadWork[w].vol /\ loadWork'[w].end = loadWork[w].end
                                        /\ loadWork'[w].pkt = loadWork[w].pkt + 1)
    BY <1>5, HandleDoes
  <2>2. Queue' = Queue
    BY <1>5 DEF Load!HandlePacket, Queue
  <2>3. w \in Loaders' => loadWork'[w] # Load!Idle
    BY DEF Loaders, Load!Idle
  <2> QED BY <1>d, <2>1, <2>2, <2>3
<1> QED BY <1>1, <1>2, <1>3, <1>4, <1>5, LoadSteps

-----------------------------------------------------------------------------
\* A packet stays to be handled until its worker handles it, or fails to read its batch.
LEMMA PendingMoves ==
  ASSUME LoadTypeOK, LoadStagesHold, BatchesHold, BatchesApart, [Load!Next]_(Load!vars)
  PROVE  /\ Quiet => \A v, i : Pending(v, i)' <=> Pending(v, i)
         /\ Load!Index => \A q \in Load!Packets : Pending(q[1], q[2])'
         /\ \A w \in Workers : Load!Send(w) => \A v, i : Pending(v, i)' <=> Pending(v, i)
         /\ \A w \in Workers : Load!ReadBatch(w) =>
              \A v, i : /\ Pending(v, i)' => Pending(v, i)
                        /\ Pending(v, i) => Pending(v, i)' \/ v \in failed'
         /\ \A w \in Workers : Load!HandlePacket(w) =>
              \A v, i : Pending(v, i)' <=> Pending(v, i) /\ <<v, i>> # <<loadWork[w].vol, loadWork[w].pkt>>
<1>a. \A v, i : Pending(v, i)' <=> \/ \E t \in Queue' : Within(t, v, i)
                                   \/ \E w \in Loaders' : Within(loadWork'[w], v, i)
  BY DEF Pending, Within
<1>b. \A t \in Queue : t.pkt \in Nat /\ t.end \in Nat /\ t.vol \in Nat
  <2>1. \A t \in Queue : t \in BatchTasks
    BY DEF Queue, LoadTypeOK, ToSet
  <2> QED BY <2>1 DEF BatchTasks
<1>c. \A w \in Loaders : w \in Workers /\ loadWork[w].pkt \in Nat /\ loadWork[w].end \in Nat /\ loadWork[w].vol \in Nat
  BY LoadersAre DEF Loaders
<1>1. ASSUME Quiet, NEW v, NEW i PROVE Pending(v, i)' <=> Pending(v, i)
  <2>1. Queue' = Queue /\ Loaders' = Loaders /\ \A u \in Loaders : loadWork'[u] = loadWork[u]
    BY <1>1 DEF Quiet
  <2> QED BY <1>a, <2>1 DEF Pending
<1>2. ASSUME Load!Index, NEW q \in Load!Packets PROVE Pending(q[1], q[2])'
  <2>1. Queue' = ToSet(Load!AllBatches(volumes))
    BY <1>2, IndexCuts
  <2>2. \E t \in Queue' : Within(t, q[1], q[2])
    BY <2>1, BatchesAre DEF LoadTypeOK
  <2> QED BY <1>a, <2>2
<1>3. ASSUME NEW w \in Workers, Load!Send(w), NEW v, NEW i PROVE Pending(v, i)' <=> Pending(v, i)
  <2>1. PICK h \in Queue :
          /\ Queue' = Queue \ {h} /\ loadWork' = [loadWork EXCEPT ![w] = loadWork'[w]]
          /\ loadWork'[w].vol = h.vol /\ loadWork'[w].pkt = h.pkt /\ loadWork'[w].end = h.end
          /\ w \in Loaders' /\ w \notin Loaders
    BY <1>3, SendGives
  <2>2. /\ \A u \in Workers : u # w => loadWork'[u] = loadWork[u]
        /\ \A u \in Workers : u # w => (u \in Loaders' <=> u \in Loaders)
        /\ \A u \in Loaders' : u = w \/ (u \in Loaders /\ u # w)
    BY <2>1, OtherLoadersStay
  <2>3. Within(loadWork'[w], v, i) <=> Within(h, v, i)
    BY <2>1 DEF Within
  <2>4. Pending(v, i) <=> \/ Within(h, v, i) \/ \E t \in Queue \ {h} : Within(t, v, i)
                          \/ \E u \in Loaders : Within(loadWork[u], v, i)
    BY DEF Pending
  <2>5. (\E u \in Loaders' : Within(loadWork'[u], v, i)) <=>
          Within(loadWork'[w], v, i) \/ \E u \in Loaders : Within(loadWork[u], v, i)
    BY <1>c, <2>1, <2>2
  <2> QED BY <1>a, <2>1, <2>3, <2>4, <2>5
\* A worker that gets further in its batch, or is done with it.
<1>d. ASSUME NEW w \in Loaders, loadWork' = [loadWork EXCEPT ![w] = loadWork'[w]], Queue' = Queue, NEW v, NEW i
      PROVE  LET others == \/ \E t \in Queue : Within(t, v, i)
                           \/ \E u \in Loaders : u # w /\ Within(loadWork[u], v, i)
             IN  /\ Pending(v, i) <=> others \/ Within(loadWork[w], v, i)
                 /\ Pending(v, i)' <=> others \/ (w \in Loaders' /\ Within(loadWork'[w], v, i))
  <2>1. /\ \A u \in Workers : u # w => loadWork'[u] = loadWork[u]
        /\ \A u \in Workers : u # w => (u \in Loaders' <=> u \in Loaders)
        /\ \A u \in Loaders' : u = w \/ (u \in Loaders /\ u # w)
    BY <1>c, <1>d, OtherLoadersStay
  <2>2. (\E u \in Loaders' : Within(loadWork'[u], v, i)) <=>
          \/ w \in Loaders' /\ Within(loadWork'[w], v, i)
          \/ \E u \in Loaders : u # w /\ Within(loadWork[u], v, i)
    BY <1>c, <2>1
  <2>3. (\E u \in Loaders : Within(loadWork[u], v, i)) <=>
          \/ Within(loadWork[w], v, i)
          \/ \E u \in Loaders : u # w /\ Within(loadWork[u], v, i)
    OBVIOUS
  <2> QED BY <1>a, <1>d, <2>2, <2>3 DEF Pending
<1>4. ASSUME NEW w \in Workers, Load!ReadBatch(w), NEW v, NEW i
      PROVE  /\ Pending(v, i)' => Pending(v, i)
             /\ Pending(v, i) => Pending(v, i)' \/ v \in failed'
  <2>1. /\ w \in Loaders /\ loadWork' = [loadWork EXCEPT ![w] = loadWork'[w]]
        /\ IF <<loadWork[w].vol, loadWork[w].pkt>> \in lost
           THEN loadWork'[w] = Load!Idle /\ failed' = failed \cup {loadWork[w].vol}
           ELSE /\ loadWork'[w] \in Loading /\ loadWork'[w].vol = loadWork[w].vol
                /\ loadWork'[w].end = loadWork[w].end /\ loadWork'[w].pkt = loadWork[w].pkt
    BY <1>4, ReadDoes
  <2>2. Queue' = Queue
    BY <1>4 DEF Load!ReadBatch, Queue
  <2>3. (w \in Loaders' => loadWork'[w] # Load!Idle) /\ (loadWork'[w] \in Loading => w \in Loaders')
    BY DEF Loaders, Load!Idle, Loading
  <2>4. Within(loadWork[w], v, i) => v = loadWork[w].vol
    BY DEF Within
  <2>5. loadWork'[w] \in Loading => (Within(loadWork'[w], v, i) <=> Within(loadWork[w], v, i)) \/ loadWork'[w] = Load!Idle
    BY <2>1 DEF Within
  <2>6. loadWork'[w] = Load!Idle /\ v = loadWork[w].vol => v \in failed' \/ loadWork'[w] \in Loading
    BY <2>1
  <2>7. Load!Idle \notin Loading
    BY DEF Loading, Load!Idle
  <2> QED BY <1>d, <2>1, <2>2, <2>3, <2>4, <2>5, <2>6, <2>7
<1>5. ASSUME NEW w \in Workers, Load!HandlePacket(w), NEW v, NEW i
      PROVE  Pending(v, i)' <=> Pending(v, i) /\ <<v, i>> # <<loadWork[w].vol, loadWork[w].pkt>>
  <2> DEFINE r == loadWork[w]
             others == \/ \E t \in Queue : Within(t, v, i)
                       \/ \E u \in Loaders : u # w /\ Within(loadWork[u], v, i)
  <2>1. /\ w \in Loaders /\ loadWork' = [loadWork EXCEPT ![w] = loadWork'[w]] /\ BatchOK(r)
        /\ IF r.pkt = r.end THEN loadWork'[w] = Load!Idle
           ELSE /\ loadWork'[w] \in Loading /\ loadWork'[w].vol = r.vol
                /\ loadWork'[w].end = r.end /\ loadWork'[w].pkt = r.pkt + 1
    BY <1>5, HandleDoes
  <2>2. Queue' = Queue
    BY <1>5 DEF Load!HandlePacket, Queue
  <2>3. (w \in Loaders' => loadWork'[w] # Load!Idle) /\ (loadWork'[w] \in Loading => w \in Loaders')
    BY DEF Loaders, Load!Idle, Loading
  <2>4. /\ Pending(v, i) <=> others \/ Within(r, v, i)
        /\ Pending(v, i)' <=> others \/ (w \in Loaders' /\ Within(loadWork'[w], v, i))
    BY <1>d, <2>1, <2>2
  <2>5. r.pkt \in Nat /\ r.end \in Nat /\ r.vol \in Nat /\ r.pkt <= r.end
    BY <1>c, <2>1 DEF BatchOK
  <2>6. (w \in Loaders' /\ Within(loadWork'[w], v, i)) <=> Within(r, v, i) /\ ~(v = r.vol /\ i = r.pkt)
    <3>1. CASE r.pkt = r.end
      <4>1. w \notin Loaders'
        BY <2>1, <2>3, <3>1
      <4>2. Within(r, v, i) => v = r.vol /\ i = r.pkt
        BY <2>5, <3>1 DEF Within
      <4> QED BY <4>1, <4>2
    <3>2. CASE r.pkt # r.end
      <4>1. w \in Loaders' /\ loadWork'[w].vol = r.vol /\ loadWork'[w].end = r.end /\ loadWork'[w].pkt = r.pkt + 1
        BY <2>1, <2>3, <3>2
      <4>2. i \in (r.pkt + 1)..r.end <=> i \in r.pkt..r.end /\ i # r.pkt
        BY <2>5
      <4> QED BY <4>1, <4>2 DEF Within
    <3> QED BY <3>1, <3>2
  <2>7. others => ~(v = r.vol /\ i = r.pkt)
    <3>1. ASSUME NEW t, t.pkt \in Nat, t.end \in Nat, Disjoint(t, r) \/ Disjoint(r, t), Within(t, v, i), v = r.vol, i = r.pkt
          PROVE  FALSE
      <4>1. t.vol = r.vol /\ t.pkt <= r.pkt /\ r.pkt <= t.end
        BY <2>5, <3>1 DEF Within
      <4> QED BY <2>5, <3>1, <4>1 DEF Disjoint
    <3>2. /\ \A t \in Queue : Disjoint(t, r)
          /\ \A x \in Loaders : w # x => Disjoint(loadWork[x], r)
      BY <2>1 DEF BatchesApart
    <3> HIDE DEF r
    <3> QED BY <1>b, <1>c, <3>1, <3>2
  <2> HIDE DEF r, others
  <2>8. <<v, i>> = <<r.vol, r.pkt>> <=> v = r.vol /\ i = r.pkt
    OBVIOUS
  <2>9. Pending(v, i)' <=> Pending(v, i) /\ <<v, i>> # <<r.vol, r.pkt>>
    BY <2>4, <2>6, <2>7, <2>8
  <2> QED BY <2>9 DEF r
<1> QED BY <1>1, <1>2, <1>3, <1>4, <1>5

\* What a worker records of a packet.
LEMMA HandleRecords ==
  ASSUME LoadTypeOK, BatchesHold, BatchesApart, HeardHolds, NEW w \in Workers, Load!HandlePacket(w)
  PROVE  LET v == loadWork[w].vol  i == loadWork[w].pkt  p == Fact(v, i) IN
         /\ <<v, i>> \in Load!Packets /\ <<v, i>> \notin Heard
         /\ \/ /\ v \in failed /\ failed' = failed /\ events' = events
               /\ present' = present /\ locations' = locations /\ mains' = mains
            \/ /\ Load!Broken(p) /\ failed' = failed \cup {v} /\ events' = events
               /\ present' = present /\ locations' = locations /\ mains' = mains
            \/ ~Load!Broken(p) /\ failed' = failed /\ Heard' = Heard \cup {<<v, i>>} /\ Load!Handle(v, i, p)
<1> DEFINE v == loadWork[w].vol
           i == loadWork[w].pkt
           p == Fact(v, i)
<1>1. w \in Loaders /\ BatchOK(loadWork[w]) /\ <<v, i>> \in Load!Packets
  BY HandleDoes
<1>2. Pending(v, i)
  <2>1. Within(loadWork[w], v, i)
    BY <1>1, HandleDoes DEF Within, BatchOK
  <2> QED BY <1>1, <2>1 DEF Pending
<1>3. <<v, i>> \notin Heard
  BY <1>2 DEF HeardHolds
<1>4. \/ /\ v \in failed /\ failed' = failed /\ events' = events
         /\ present' = present /\ locations' = locations /\ mains' = mains
      \/ /\ Load!Broken(p) /\ failed' = failed \cup {v} /\ events' = events
         /\ present' = present /\ locations' = locations /\ mains' = mains
      \/ ~Load!Broken(p) /\ failed' = failed /\ Load!Handle(v, i, p)
  BY DEF Load!HandlePacket, Load!found, Load!Dropped, Fact
<1>5. Load!Handle(v, i, p) => events' = Append(events, <<v, i>>)
  BY DEF Load!Handle
<1>6. events' = Append(events, <<v, i>>) => Heard' = Heard \cup {<<v, i>>}
  <2>1. ToSet(Append(events, <<v, i>>)) = Heard \cup {<<v, i>>}
    BY <1>1, <1>3, OneMoreEvent
  <2> QED BY <2>1 DEF Heard
<1> QED BY <1>1, <1>3, <1>4, <1>5, <1>6

-----------------------------------------------------------------------------
\* What was handled stays so, and what was not is still to come or was passed over.
LEMMA HeardStep ==
  ASSUME LoadTypeOK, LoadStagesHold, BatchesHold, BatchesApart, HeardHolds, [Load!Next]_(Load!vars)
  PROVE  HeardHolds'
<1>a. /\ \A p : Load!Broken(p)' <=> Load!Broken(p)
      /\ \A v, i : Fact(v, i)' = Fact(v, i)
      /\ Load!Packets' = Load!Packets
  BY VolumesStay
<1>b. /\ \A q \in Heard : ~Pending(q[1], q[2]) /\ ~Load!Broken(Fact(q[1], q[2]))
      /\ loadPc # "index" => \A q \in Load!Packets : q[1] \in failed \/ Pending(q[1], q[2]) \/ q \in Heard
  BY DEF HeardHolds
<1>c. \A q \in Heard : q \in Load!Packets /\ q = <<q[1], q[2]>>
  <2>1. Heard \subseteq Load!Packets
    BY DEF Heard, LoadTypeOK, ToSet
  <2> QED BY <2>1, VolumesAre DEF LoadTypeOK
<1>d. \A q \in Load!Packets : q = <<q[1], q[2]>>
  BY VolumesAre DEF LoadTypeOK
<1>e. ASSUME \A v, i : /\ Pending(v, i)' => Pending(v, i)
                       /\ Pending(v, i) => Pending(v, i)' \/ v \in failed',
             Heard' = Heard, failed \subseteq failed', loadPc' # "index" => loadPc # "index"
      PROVE  HeardHolds'
  <2>1. \A q \in Heard' : ~Pending(q[1], q[2])' /\ ~Load!Broken(Fact(q[1], q[2]))
    BY <1>b, <1>e
  <2>2. loadPc' # "index" => \A q \in Load!Packets : q[1] \in failed' \/ Pending(q[1], q[2])' \/ q \in Heard'
    BY <1>b, <1>e
  <2>3. \A q : Load!Broken(Fact(q[1], q[2]))' <=> Load!Broken(Fact(q[1], q[2]))
    BY <1>a DEF Load!Broken, Fact
  <2> QED BY <1>a, <2>1, <2>2, <2>3 DEF HeardHolds
<1>f. \A q : Load!Broken(Fact(q[1], q[2]))' <=> Load!Broken(Fact(q[1], q[2]))
  BY <1>a DEF Load!Broken, Fact
<1>1. CASE Quiet
  <2>1. Heard' = Heard /\ failed' = failed /\ (loadPc' = "index" <=> loadPc = "index")
    BY <1>1 DEF Quiet, Heard
  <2> QED BY <1>1, <1>e, <2>1, PendingMoves
<1>2. CASE Load!Index
  <2>1. Heard' = {}
    BY <1>2, IndexCuts
  <2>2. \A q \in Load!Packets : Pending(q[1], q[2])'
    BY <1>2, PendingMoves
  <2> QED BY <1>a, <2>1, <2>2 DEF HeardHolds
<1>3. ASSUME NEW w \in Workers, Load!Send(w) PROVE HeardHolds'
  <2>1. events' = events /\ failed' = failed /\ loadPc' = loadPc
    BY <1>3 DEF Load!Send, Load!found
  <2>2. Heard' = Heard
    BY <2>1 DEF Heard
  <2> QED BY <1>3, <1>e, <2>1, <2>2, PendingMoves
<1>4. ASSUME NEW w \in Workers, Load!ReadBatch(w) PROVE HeardHolds'
  <2>1. events' = events /\ failed \subseteq failed' /\ loadPc' = loadPc
    BY <1>4 DEF Load!ReadBatch, Load!found
  <2>2. Heard' = Heard
    BY <2>1 DEF Heard
  <2> QED BY <1>4, <1>e, <2>1, <2>2, PendingMoves
<1>5. ASSUME NEW w \in Workers, Load!HandlePacket(w) PROVE HeardHolds'
  <2> DEFINE v == loadWork[w].vol
             i == loadWork[w].pkt
             p == Fact(v, i)
  <2>1. /\ <<v, i>> \in Load!Packets /\ <<v, i>> \notin Heard
        /\ \/ v \in failed /\ failed' = failed /\ events' = events
           \/ Load!Broken(p) /\ failed' = failed \cup {v} /\ events' = events
           \/ ~Load!Broken(p) /\ failed' = failed /\ Heard' = Heard \cup {<<v, i>>}
    BY <1>5, HandleRecords
  <2>2. \A x, j : Pending(x, j)' <=> Pending(x, j) /\ <<x, j>> # <<v, i>>
    BY <1>5, PendingMoves
  <2>3. loadPc' = loadPc
    BY <1>5 DEF Load!HandlePacket
  <2>4. events' = events => Heard' = Heard
    BY DEF Heard
  <2> HIDE DEF v, i
  <2>5. <<v, i>>[1] = v /\ <<v, i>>[2] = i
    OBVIOUS
  <2>6. \A q \in Heard' : ~Pending(q[1], q[2])' /\ ~Load!Broken(Fact(q[1], q[2]))
    BY <1>b, <2>1, <2>2, <2>4, <2>5
  <2>7. ASSUME loadPc' # "index", NEW q \in Load!Packets
        PROVE  q[1] \in failed' \/ Pending(q[1], q[2])' \/ q \in Heard'
    <3>1. q[1] \in failed \/ Pending(q[1], q[2]) \/ q \in Heard
      BY <1>b, <2>3, <2>7
    <3>2. failed \subseteq failed' /\ Heard \subseteq Heard'
      BY <2>1, <2>4
    <3>3. CASE q # <<v, i>>
      <4>1. Pending(q[1], q[2])' <=> Pending(q[1], q[2])
        BY <1>d, <2>2, <3>3
      <4> QED BY <3>1, <3>2, <4>1
    <3>4. CASE q = <<v, i>>
      BY <2>1, <2>5, <3>4
    <3> QED BY <3>3, <3>4
  <2> QED BY <1>a, <1>f, <2>6, <2>7 DEF HeardHolds
<1> QED BY <1>1, <1>2, <1>3, <1>4, <1>5, LoadSteps

\* What is recorded is what was handled.
LEMMA RecordsStep ==
  ASSUME LoadTypeOK, LoadStagesHold, BatchesHold, BatchesApart, HeardHolds, RecordsHold, [Load!Next]_(Load!vars)
  PROVE  RecordsHold'
<1>a. /\ \A v, i : Fact(v, i)' = Fact(v, i)
      /\ \A e : Load!Blocks(e)' = Load!Blocks(e)
      /\ \A q : OwnMain(q)' <=> OwnMain(q)
      /\ retain' = retain /\ Load!Vols' = Load!Vols
  BY VolumesStay
<1> DEFINE Taken(h) == {Fact(q[1], q[2]).exp : q \in {r \in h : Load!Counts(Fact(r[1], r[2]))}}
           Placed(l, h) == \A e \in DOMAIN l : /\ <<l[e].vol, l[e].pkt>> \in h \cap Load!Blocks(e)
                                                /\ \A q \in h \cap Load!Blocks(e) : l[e].vol <= q[1]
           Mains(m, h) == \A v \in Load!Vols : IF m[v] = Nowhere THEN \A q \in h : q[1] = v => ~OwnMain(q)
                                               ELSE <<v, m[v]>> \in h /\ OwnMain(<<v, m[v]>>)
<1>b. /\ present = Taken(Heard) /\ DOMAIN locations = IF retain THEN present ELSE {}
      /\ Placed(locations, Heard) /\ Mains(mains, Heard)
  BY DEF RecordsHold
<1>c. (/\ present' = Taken(Heard') /\ DOMAIN locations' = IF retain THEN present' ELSE {}
       /\ Placed(locations', Heard') /\ Mains(mains', Heard')) => RecordsHold'
  BY <1>a DEF RecordsHold, Load!Counts
<1> HIDE DEF Taken, Placed, Mains
<1>d. ASSUME Heard' = Heard, present' = present, locations' = locations, mains' = mains PROVE RecordsHold'
  BY <1>b, <1>c, <1>d
<1>1. CASE Quiet
  BY <1>1, <1>d DEF Quiet, Heard
<1>2. CASE Load!Index
  BY <1>2, <1>d, IndexCuts
<1>3. ASSUME NEW w \in Workers, Load!Send(w) PROVE RecordsHold'
  BY <1>3, <1>d DEF Load!Send, Load!found, Heard
<1>4. ASSUME NEW w \in Workers, Load!ReadBatch(w) PROVE RecordsHold'
  BY <1>4, <1>d DEF Load!ReadBatch, Load!found, Heard
<1>5. ASSUME NEW w \in Workers, Load!HandlePacket(w) PROVE RecordsHold'
  <2> DEFINE v == loadWork[w].vol
             i == loadWork[w].pkt
             p == Fact(v, i)
             r == <<v, i>>
  <2>1. /\ r \in Load!Packets /\ r \notin Heard
        /\ \/ events' = events /\ present' = present /\ locations' = locations /\ mains' = mains
           \/ Heard' = Heard \cup {r} /\ Load!Handle(v, i, p)
    BY <1>5, HandleRecords
  <2>2. v \in Load!Vols /\ v \in Nat /\ i \in Nat
    BY <1>5, HandleDoes
  <2>3. p = Fact(r[1], r[2]) /\ r = <<v, i>> /\ p = volumes[v][i]
    BY DEF Fact
  <2> HIDE DEF v, i, p, r
  <2>4. CASE events' = events /\ present' = present /\ locations' = locations /\ mains' = mains
    BY <1>d, <2>4 DEF Heard
  <2>5. CASE Heard' = Heard \cup {r} /\ Load!Handle(v, i, p)
    <3>1. /\ present' = IF Load!Counts(p) THEN present \cup {p.exp} ELSE present
          /\ locations' = IF Load!Counts(p) /\ retain /\ Load!Wins(p.exp, v)
                          THEN [e \in DOMAIN locations \cup {p.exp} |->
                                  IF e = p.exp THEN [vol |-> v, pkt |-> i] ELSE locations[e]]
                          ELSE locations
          /\ mains' = IF p.own /\ p.kind = "main" THEN [mains EXCEPT ![v] = i] ELSE mains
      BY <2>5 DEF Load!Handle
    <3>2. present' = Taken(Heard')
      BY <1>b, <2>3, <2>5, <3>1 DEF Taken
    <3>3. \A e : r \in Load!Blocks(e) <=> Load!Counts(p) /\ e = p.exp
      BY <2>1, <2>3 DEF Load!Blocks, Load!Counts, Fact
    <3>4. \A q \in Heard : q \in Load!Packets /\ q[1] \in Nat
      <4>1. Heard \subseteq Load!Packets
        BY DEF Heard, LoadTypeOK, ToSet
      <4> QED BY <4>1, VolumesAre DEF LoadTypeOK
    <3>5. \A e \in DOMAIN locations : locations[e].vol \in Nat
      <4>1. \A e \in DOMAIN locations : <<locations[e].vol, locations[e].pkt>> \in Heard
        BY <1>b DEF Placed
      <4> QED BY <3>4, <4>1
    <3>6. DOMAIN locations' = IF retain THEN present' ELSE {}
      BY <1>b, <3>1 DEF Load!Wins
    <3>7. Placed(locations', Heard')
      <4> SUFFICES ASSUME NEW e \in DOMAIN locations'
                   PROVE  /\ <<locations'[e].vol, locations'[e].pkt>> \in Heard' \cap Load!Blocks(e)
                          /\ \A q \in Heard' \cap Load!Blocks(e) : locations'[e].vol <= q[1]
        BY DEF Placed
      <4>1. r[1] = v
        BY <2>3
      <4>2. CASE e # p.exp \/ ~Load!Counts(p)
        <5>1. e \in DOMAIN locations /\ locations'[e] = locations[e]
          BY <3>1, <4>2
        <5>2. r \notin Load!Blocks(e)
          BY <3>3, <4>2
        <5> QED BY <1>b, <2>5, <5>1, <5>2 DEF Placed
      <4>3. CASE e = p.exp /\ Load!Counts(p) /\ Load!Wins(e, v)
        <5>1. retain
          BY <3>6
        <5>2. locations'[e].vol = v /\ locations'[e].pkt = i
          BY <3>1, <4>3, <5>1
        <5>3. ASSUME NEW q \in Heard \cap Load!Blocks(e) PROVE v <= q[1]
          <6>1. e \in DOMAIN locations
            <7>1. e \in present
              <8>1. Load!Counts(Fact(q[1], q[2])) /\ Fact(q[1], q[2]).exp = e
                BY DEF Load!Blocks, Load!Counts, Fact
              <8> QED BY <1>b, <8>1 DEF Taken
            <7> QED BY <1>b, <5>1, <7>1
          <6>2. locations[e].vol <= q[1] /\ v < locations[e].vol
            BY <1>b, <2>2, <3>5, <4>3, <6>1 DEF Placed, Load!Wins
          <6> QED BY <2>2, <3>4, <3>5, <6>1, <6>2
        <5>4. r \in Load!Blocks(e)
          BY <3>3, <4>3
        <5> QED BY <2>2, <2>3, <2>5, <4>1, <5>2, <5>3, <5>4
      <4>4. CASE e = p.exp /\ Load!Counts(p) /\ ~Load!Wins(e, v)
        <5>1. locations' = locations /\ e \in DOMAIN locations
          BY <3>1, <4>4 DEF Load!Wins
        <5>2. locations[e].vol <= v
          BY <2>2, <3>5, <4>4, <5>1 DEF Load!Wins
        <5> QED BY <1>b, <2>5, <4>1, <5>1, <5>2 DEF Placed
      <4> QED BY <4>2, <4>3, <4>4
    <3>8. Mains(mains', Heard')
      <4> SUFFICES ASSUME NEW x \in Load!Vols
                   PROVE  IF mains'[x] = Nowhere THEN \A q \in Heard' : q[1] = x => ~OwnMain(q)
                          ELSE <<x, mains'[x]>> \in Heard' /\ OwnMain(<<x, mains'[x]>>)
        BY DEF Mains
      <4>1. OwnMain(r) <=> p.own /\ p.kind = "main"
        BY <2>3 DEF OwnMain
      <4>2. mains \in [Load!Vols -> {Nowhere} \cup Nat] /\ i # Nowhere /\ r[1] = v
        BY <2>2, <2>3, ParityAssumption DEF LoadTypeOK, Load!ParityAssumption
      <4>3. CASE x = v /\ OwnMain(r)
        <5>1. mains'[x] = i
          BY <3>1, <4>1, <4>2, <4>3
        <5> QED BY <2>3, <2>5, <4>2, <4>3, <5>1
      <4>4. CASE x # v \/ ~OwnMain(r)
        <5>1. mains'[x] = mains[x]
          BY <3>1, <4>1, <4>2, <4>4
        <5> QED BY <1>b, <2>5, <4>2, <4>4, <5>1 DEF Mains
      <4> QED BY <4>3, <4>4
    <3> QED BY <1>c, <3>2, <3>6, <3>7, <3>8
  <2> QED BY <2>1, <2>4, <2>5
<1> QED BY <1>1, <1>2, <1>3, <1>4, <1>5, LoadSteps

\* An error is that of its volume, and none is passed over.
LEMMA LossesStep ==
  ASSUME LoadTypeOK, LoadStagesHold, BatchesHold, LossesHold, [Load!Next]_(Load!vars)
  PROVE  LossesHold'
<1>a. /\ volumes' = volumes /\ lost' = lost /\ retain' = retain /\ Load!Vols' = Load!Vols
      /\ \A v : Unloaded(v)' <=> Unloaded(v)
  BY VolumesStay
<1> DEFINE Ahead(b, queue, loaders, at) ==
             \/ \E t \in queue : t.vol = b[1] /\ t.pkt = b[2]
             \/ \E w \in loaders : at[w].at = "read" /\ at[w].vol = b[1] /\ at[w].pkt = b[2]
<1>b. /\ \A v \in failed : Unloaded(v)
      /\ loadPc # "index" => /\ \A v \in Load!Vols : volumes[v] = Unindexed => v \in failed
                             /\ \A b \in lost : b[1] \in failed \/ Ahead(b, Queue, Loaders, loadWork)
  BY DEF LossesHold
<1>c. (/\ \A v \in failed' : Unloaded(v)
       /\ loadPc' # "index" => /\ \A v \in Load!Vols : volumes[v] = Unindexed => v \in failed'
                               /\ \A b \in lost : b[1] \in failed' \/ Ahead(b, Queue', Loaders', loadWork'))
      => LossesHold'
  BY <1>a DEF LossesHold
<1> HIDE DEF Ahead
<1>d. ASSUME failed \subseteq failed', \A v \in failed' : v \in failed \/ Unloaded(v),
             loadPc' # "index" => loadPc # "index",
             \A b \in lost : Ahead(b, Queue, Loaders, loadWork) =>
                               b[1] \in failed' \/ Ahead(b, Queue', Loaders', loadWork')
      PROVE  LossesHold'
  BY <1>b, <1>c, <1>d
<1>e. \A b \in lost : b = <<b[1], b[2]>>
  BY LostAre
<1>1. CASE Quiet
  <2>1. /\ Queue' = Queue /\ Loaders' = Loaders /\ (\A u \in Loaders : loadWork'[u] = loadWork[u])
        /\ failed' = failed /\ (loadPc' = "index" <=> loadPc = "index")
    BY <1>1 DEF Quiet
  <2> QED BY <1>d, <2>1 DEF Ahead
<1>2. CASE Load!Index
  <2>1. /\ Queue' = ToSet(Load!AllBatches(volumes))
        /\ failed' = {v \in Load!Vols : volumes[v] = Unindexed}
    BY <1>2, IndexCuts
  <2>2. \A v \in failed' : Unloaded(v)
    BY <2>1 DEF Unloaded
  <2>3. \A b \in lost : Ahead(b, Queue', Loaders', loadWork')
    BY <2>1, LostAre DEF Ahead
  <2> QED BY <1>c, <2>1, <2>2, <2>3
<1>3. ASSUME NEW w \in Workers, Load!Send(w) PROVE LossesHold'
  <2>1. PICK h \in Queue :
          /\ Queue' = Queue \ {h} /\ loadWork' = [loadWork EXCEPT ![w] = loadWork'[w]]
          /\ loadWork'[w].at = IF retain THEN "read" ELSE "handle"
          /\ loadWork'[w].vol = h.vol /\ loadWork'[w].pkt = h.pkt /\ loadWork'[w].end = h.end
          /\ w \in Loaders' /\ w \notin Loaders
    BY <1>3, SendGives
  <2>2. /\ \A u \in Workers : u # w => loadWork'[u] = loadWork[u]
        /\ \A u \in Workers : u # w => (u \in Loaders' <=> u \in Loaders)
    BY <2>1, OtherLoadersStay
  <2>3. \A u \in Loaders : u \in Workers
    BY DEF Loaders
  <2>4. lost # {} => retain
    BY DEF LoadTypeOK
  <2>5. \A b \in lost : Ahead(b, Queue, Loaders, loadWork) => Ahead(b, Queue', Loaders', loadWork')
    BY <2>1, <2>2, <2>3, <2>4 DEF Ahead
  <2>6. failed' = failed /\ loadPc' = loadPc
    BY <1>3 DEF Load!Send
  <2> QED BY <1>d, <2>5, <2>6
<1>4. ASSUME NEW w \in Workers, Load!ReadBatch(w) PROVE LossesHold'
  <2> DEFINE c == <<loadWork[w].vol, loadWork[w].pkt>>
  <2>1. /\ w \in Loaders /\ loadWork' = [loadWork EXCEPT ![w] = loadWork'[w]]
        /\ IF c \in lost THEN failed' = failed \cup {loadWork[w].vol} ELSE failed' = failed
    BY <1>4, ReadDoes
  <2>2. Queue' = Queue /\ loadPc' = loadPc
    BY <1>4 DEF Load!ReadBatch, Queue
  <2>3. /\ \A u \in Workers : u # w => loadWork'[u] = loadWork[u]
        /\ \A u \in Workers : u # w => (u \in Loaders' <=> u \in Loaders)
    BY <2>1, OtherLoadersStay
  <2>4. \A u \in Loaders : u \in Workers
    BY DEF Loaders
  <2>5. c \in lost => Unloaded(loadWork[w].vol)
    BY DEF Unloaded
  <2>6. ASSUME NEW b \in lost, Ahead(b, Queue, Loaders, loadWork)
        PROVE  b[1] \in failed' \/ Ahead(b, Queue', Loaders', loadWork')
    <3>1. CASE \E t \in Queue : t.vol = b[1] /\ t.pkt = b[2]
      BY <2>2, <3>1 DEF Ahead
    <3>2. CASE \E u \in Loaders : u # w /\ loadWork[u].at = "read" /\ loadWork[u].vol = b[1] /\ loadWork[u].pkt = b[2]
      BY <2>3, <2>4, <3>2 DEF Ahead
    <3>3. CASE loadWork[w].vol = b[1] /\ loadWork[w].pkt = b[2]
      BY <1>e, <2>1, <3>3
    <3> QED BY <2>6, <3>1, <3>2, <3>3 DEF Ahead
  <2> QED BY <1>d, <2>1, <2>2, <2>5, <2>6
<1>5. ASSUME NEW w \in Workers, Load!HandlePacket(w) PROVE LossesHold'
  <2> DEFINE v == loadWork[w].vol
             i == loadWork[w].pkt
  <2>1. /\ w \in Loaders /\ loadWork[w].at = "handle" /\ loadWork' = [loadWork EXCEPT ![w] = loadWork'[w]]
        /\ <<v, i>> \in Load!Packets
    BY <1>5, HandleDoes
  <2>2. failed' = failed \/ (failed' = failed \cup {v} /\ Load!Broken(Fact(v, i)))
    BY <1>5 DEF Load!HandlePacket, Load!found, Load!Handle, Fact
  <2>3. Queue' = Queue /\ loadPc' = loadPc
    BY <1>5 DEF Load!HandlePacket, Queue
  <2>4. /\ \A u \in Workers : u # w => loadWork'[u] = loadWork[u]
        /\ \A u \in Workers : u # w => (u \in Loaders' <=> u \in Loaders)
    BY <2>1, OtherLoadersStay
  <2>5. \A u \in Loaders : u \in Workers
    BY DEF Loaders
  <2>6. \A b : Ahead(b, Queue, Loaders, loadWork) => Ahead(b, Queue', Loaders', loadWork')
    BY <2>1, <2>3, <2>4, <2>5 DEF Ahead
  <2>7. Load!Broken(Fact(v, i)) => Unloaded(v)
    <3>1. <<v, i>>[1] = v /\ <<v, i>>[2] = i
      OBVIOUS
    <3> HIDE DEF v, i
    <3> QED BY <2>1, <3>1 DEF Unloaded
  <2> QED BY <1>d, <2>2, <2>3, <2>6, <2>7
<1> QED BY <1>1, <1>2, <1>3, <1>4, <1>5, LoadSteps

-----------------------------------------------------------------------------
\* The load begins with its invariant.
LEMMA LoadInit == Load!Init => LoadInv
<1> SUFFICES ASSUME Load!Init PROVE LoadInv
  OBVIOUS
<1>1. LoadTypeOK
  BY LoadTypeInit
<1>2. /\ loadPc = "index" /\ loadTodo = <<>> /\ loadWork = [w \in Workers |-> Load!Idle]
      /\ failed = {} /\ present = {} /\ locations = [v \in {} |-> Nowhere]
      /\ mains = [v \in Load!Vols |-> Nowhere] /\ events = <<>> /\ outcome = "loading"
  BY DEF Load!Init
<1>3. Loaders = {}
  BY <1>2 DEF Loaders, Load!Idle
<1>4. Queue = {} /\ Heard = {}
  BY <1>2 DEF Queue, Heard, ToSet
<1>5. LoadStagesHold
  BY <1>2, <1>3 DEF LoadStagesHold
<1>6. BatchesHold /\ BatchesApart /\ HeardHolds
  BY <1>2, <1>3, <1>4 DEF BatchesHold, BatchesApart, HeardHolds
<1>7. RecordsHold
  BY <1>2, <1>4 DEF RecordsHold
<1>8. LossesHold
  BY <1>2 DEF LossesHold
<1> QED BY <1>1, <1>5, <1>6, <1>7, <1>8 DEF LoadInv

\* Every step of the load keeps the invariant.
LEMMA LoadStep == LoadInv /\ [Load!Next]_(Load!vars) => LoadInv'
  BY LoadTypeStep, LoadStagesStep, BatchesStep, BatchesApartStep, HeardStep, RecordsStep, LossesStep DEF LoadInv

-----------------------------------------------------------------------------
\* When the load is over, nothing is left to be handled.
LEMMA LoadEnds ==
  ASSUME LoadInv, loadPc = "done"
  PROVE  /\ outcome = IF Load!Refused = {} THEN "loaded" ELSE "refused"
         /\ heard = Load!Replay
         /\ \A v \in Load!Vols : volumes[v] = Unindexed => v \in failed
         /\ \A b \in lost : b[1] \in failed
         /\ \A q \in Load!Packets : q[1] \in failed \/ q \in Heard
<1>1. \A w \in Workers : loadWork[w].at = "exited"
  BY DEF LoadInv, LoadStagesHold
<1>2. Loaders = {}
  BY <1>1 DEF Loaders
<1>3. loadTodo = <<>>
  BY DEF LoadInv, LoadStagesHold
<1>4. Queue = {}
  BY <1>3 DEF Queue, ToSet
<1>5. \A v, i : ~Pending(v, i)
  BY <1>2, <1>4 DEF Pending
<1>6. \A b \in lost : b[1] \in failed
  BY <1>2, <1>4 DEF LoadInv, LossesHold
<1> QED BY <1>5, <1>6 DEF LoadInv, LoadStagesHold, LossesHold, HeardHolds

\* A load that succeeds has handled every packet.
LEMMA LoadedAll ==
  ASSUME LoadInv, outcome = "loaded"
  PROVE  loadPc = "done" /\ failed = {} /\ Heard = Load!Packets /\ Load!Refused = {}
<1>1. loadPc = "done" /\ Load!Refused = {}
  BY DEF LoadInv, LoadStagesHold
<1>2. failed = {}
  BY <1>1 DEF Load!Refused, LoadInv, LoadTypeOK
<1>3. Heard \subseteq Load!Packets
  BY DEF LoadInv, LoadTypeOK, Heard, ToSet
<1> QED BY <1>1, <1>2, <1>3, LoadEnds

\* The replay hears every event, in (volume, packet) order.
LEMMA ReplayIsOrdered ==
  ASSUME LoadTypeOK
  PROVE  /\ Load!Replay \in Seq(Load!Packets) /\ ToSet(Load!Replay) = Heard
         /\ \A n, k \in DOMAIN Load!Replay : n < k => Load!Before(Load!Replay[n], Load!Replay[k])
<1> DEFINE E == Load!Packets
           s == events
           t == Load!Replay
           R == {x \in E \X E : Load!Before(x[1], x[2])}
           rank(k) == Load!Cardinality({j \in DOMAIN s : Load!Before(s[j], s[k]) \/ (j < k /\ ~Load!Before(s[k], s[j]))})
<1>1. s \in Seq(E) /\ IsInjective(s)
  BY DEF LoadTypeOK
<1>2. \A a, b \in E : <<a, b>> \in R <=> Load!Before(a, b)
  OBVIOUS
<1>3. \A a \in E : a = <<a[1], a[2]>> /\ a[1] \in Nat /\ a[2] \in Nat
  BY VolumesAre DEF LoadTypeOK
<1>4. \A a, b \in E : Load!Before(a, b) <=> a[1] < b[1] \/ (a[1] = b[1] /\ a[2] < b[2])
  BY DEF Load!Before
<1>5. t = [n \in DOMAIN s |-> s[CHOOSE i \in DOMAIN s : rank(i) = n - 1]]
  BY DEF Load!Replay, Load!Sorted, Load!Rank
<1> HIDE DEF R, t, E, s
<1>6. \A a, b, c \in E : /\ <<a, a>> \notin R
                         /\ a # b => <<a, b>> \in R \/ <<b, a>> \in R
                         /\ <<a, b>> \in R /\ <<b, c>> \in R => <<a, c>> \in R
                         /\ ~(<<a, b>> \in R /\ <<b, a>> \in R)
  <2>1. ASSUME NEW a \in E, NEW b \in E
        PROVE  ~Load!Before(a, a) /\ ~(Load!Before(a, b) /\ Load!Before(b, a))
    BY <1>3, <1>4
  <2>2. ASSUME NEW a \in E, NEW b \in E, a # b PROVE Load!Before(a, b) \/ Load!Before(b, a)
    <3>1. a[1] # b[1] \/ a[2] # b[2]
      BY <1>3, <2>2
    <3> QED BY <1>3, <1>4, <3>1
  <2>3. ASSUME NEW a \in E, NEW b \in E, NEW c \in E, Load!Before(a, b), Load!Before(b, c)
        PROVE  Load!Before(a, c)
    BY <1>3, <1>4, <2>3
  <2> QED BY <1>2, <2>1, <2>2, <2>3
<1>7. ToSet(s) \subseteq E /\ \A k \in DOMAIN s : s[k] \in E
  BY <1>1 DEF ToSet
<1>8. StrictOrder(R, ToSet(s))
  BY <1>6, <1>7 DEF StrictOrder
<1>9. ASSUME NEW k \in DOMAIN s PROVE rank(k) = Cardinality(Under(s, R, k))
  <2>1. ASSUME NEW j \in DOMAIN s
        PROVE  (Load!Before(s[j], s[k]) \/ (j < k /\ ~Load!Before(s[k], s[j]))) <=> <<s[j], s[k]>> \in R
    <3>1. s[j] \in E /\ s[k] \in E
      BY <1>7
    <3>2. j < k => s[j] # s[k]
      BY <1>1 DEF IsInjective
    <3> QED BY <1>2, <1>6, <3>1, <3>2
  <2>2. {j \in DOMAIN s : Load!Before(s[j], s[k]) \/ (j < k /\ ~Load!Before(s[k], s[j]))} = Under(s, R, k)
    BY <2>1 DEF Under
  <2>3. Load!Cardinality(Under(s, R, k)) = Cardinality(Under(s, R, k))
    BY DEF Load!Cardinality, Cardinality
  <2> QED BY <2>2, <2>3
<1> HIDE DEF rank
<1>10. \A n \in DOMAIN s : \E k \in DOMAIN s : Cardinality(Under(s, R, k)) = n - 1
  BY <1>1, <1>8, Ranks
<1>11. ASSUME NEW n \in DOMAIN s
       PROVE  t[n] \in E /\ \E k \in DOMAIN s : Cardinality(Under(s, R, k)) = n - 1 /\ t[n] = s[k]
  <2> DEFINE k == CHOOSE j \in DOMAIN s : rank(j) = n - 1
  <2>1. t[n] = s[k]
    BY <1>5
  <2>2. \E j \in DOMAIN s : rank(j) = n - 1
    BY <1>9, <1>10
  <2>3. k \in DOMAIN s /\ rank(k) = n - 1
    BY <2>2
  <2> QED BY <1>7, <1>9, <2>1, <2>3
<1>12. t \in [DOMAIN s -> E]
  BY <1>5, <1>11
<1>13. \A n \in DOMAIN s : \E k \in DOMAIN s : Cardinality(Under(s, R, k)) = n - 1 /\ t[n] = s[k]
  BY <1>11
<1>14. /\ t \in Seq(E) /\ ToSet(t) = ToSet(s)
       /\ \A n, m \in DOMAIN t : n < m => <<t[n], t[m]>> \in R
  BY <1>1, <1>8, <1>12, <1>13, RankedAreSorted
<1>15. \A n \in DOMAIN t : t[n] \in E
  BY <1>14
<1>16. \A n, m \in DOMAIN t : n < m => Load!Before(t[n], t[m])
  BY <1>2, <1>14, <1>15
<1> QED BY <1>14, <1>16 DEF Heard, E, s, t

\* A load that succeeds lets the delegate hear every packet, in order.
LEMMA LoadHears == LoadInv => Load!HeardInOrder
<1> SUFFICES ASSUME LoadInv, outcome = "loaded"
             PROVE  /\ Load!ToSet(heard) = Load!Packets
                    /\ \A n, k \in DOMAIN heard : n < k => Load!Before(heard[n], heard[k])
  BY DEF Load!HeardInOrder
<1>1. heard = Load!Replay /\ Heard = Load!Packets
  BY LoadEnds, LoadedAll
<1>2. Load!ToSet(heard) = ToSet(heard)
  BY DEF Load!ToSet, ToSet
<1>3. LoadTypeOK
  BY DEF LoadInv
<1> QED BY <1>1, <1>2, <1>3, ReplayIsOrdered

\* A load that succeeds has found what a sequential one finds.
LEMMA LoadFinds == LoadInv => Load!FirstBlocks
<1> SUFFICES ASSUME LoadInv, outcome = "loaded"
             PROVE  /\ present = {e \in Load!Exponents : Load!Blocks(e) # {}}
                    /\ DOMAIN locations = IF retain THEN present ELSE {}
                    /\ \A e \in DOMAIN locations :
                         /\ <<locations[e].vol, locations[e].pkt>> \in Load!Blocks(e)
                         /\ locations[e].vol = Load!Min({q[1] : q \in Load!Blocks(e)})
  BY DEF Load!FirstBlocks
<1>1. Heard = Load!Packets
  BY LoadedAll
<1>2. /\ present = {Fact(q[1], q[2]).exp : q \in {r \in Heard : Load!Counts(Fact(r[1], r[2]))}}
      /\ DOMAIN locations = IF retain THEN present ELSE {}
      /\ \A e \in DOMAIN locations :
           /\ <<locations[e].vol, locations[e].pkt>> \in Heard \cap Load!Blocks(e)
           /\ \A q \in Heard \cap Load!Blocks(e) : locations[e].vol <= q[1]
  BY DEF LoadInv, RecordsHold
<1>3. \A q \in Load!Packets : /\ q[1] \in Load!Indexed(volumes) /\ q[2] \in DOMAIN volumes[q[1]]
                              /\ q[1] \in Nat
  BY VolumesAre DEF LoadInv, LoadTypeOK
<1>4. \A e : Load!Blocks(e) = {q \in Load!Packets : Load!Counts(Fact(q[1], q[2])) /\ Fact(q[1], q[2]).exp = e}
  BY DEF Load!Blocks, Load!Counts, Fact
<1>5. \A q \in Load!Packets : Fact(q[1], q[2]).exp \in Load!Exponents
  BY <1>3 DEF Load!Exponents, Fact
<1>6. present = {e \in Load!Exponents : Load!Blocks(e) # {}}
  <2>1. \A e \in present : e \in Load!Exponents /\ Load!Blocks(e) # {}
    BY <1>1, <1>2, <1>4, <1>5
  <2>2. \A e : Load!Blocks(e) # {} => e \in present
    BY <1>1, <1>2, <1>4
  <2> QED BY <2>1, <2>2
<1>7. ASSUME NEW e \in DOMAIN locations
      PROVE  /\ <<locations[e].vol, locations[e].pkt>> \in Load!Blocks(e)
             /\ locations[e].vol = Load!Min({q[1] : q \in Load!Blocks(e)})
  <2> DEFINE m == locations[e].vol
             S == {q[1] : q \in Load!Blocks(e)}
  <2>1. <<m, locations[e].pkt>> \in Load!Blocks(e) /\ \A q \in Load!Blocks(e) : m <= q[1]
    BY <1>1, <1>2, <1>4
  <2>2. S \subseteq Nat
    BY <1>3, <1>4
  <2>3. m \in S /\ \A y \in S : m <= y
    BY <2>1
  <2> HIDE DEF m, S
  <2>4. \A x \in S : (\A y \in S : x <= y) => x = m
    BY <2>2, <2>3
  <2>5. m = Load!Min(S)
    BY <2>3, <2>4 DEF Load!Min
  <2> QED BY <2>1, <2>5 DEF m, S
<1> QED BY <1>2, <1>6, <1>7

\* What is wrong with the volumes, in the words of the code and of the property.
LEMMA FaultyAre ==
  ASSUME NEW p
  PROVE  Load!Faulty(p) <=> Load!Broken(p) \/ (p.own /\ p.kind = "main" /\ ~p.agrees)
  BY DEF Load!Faulty, Load!Broken

\* The load is refused for the volumes that deserve it.
LEMMA LoadRefuses == LoadInv => Load!FaultsAreRefused
<1> DEFINE Deserves(v) == \/ volumes[v] = Unindexed \/ \E b \in lost : b[1] = v
                          \/ \E q \in Load!Packets : q[1] = v /\ Load!Faulty(volumes[v][q[2]])
<1> SUFFICES ASSUME LoadInv, outcome \in {"loaded", "refused"}, Load!Coherent
             PROVE  outcome = "refused" <=> \E v \in Load!Vols : Deserves(v)
  BY DEF Load!FaultsAreRefused
<1>1. loadPc = "done"
  BY DEF LoadInv, LoadStagesHold
<1>2. outcome = "refused" <=> \E v \in Load!Vols : v \in failed \/ Load!Mismatched(v)
  BY <1>1, LoadEnds DEF Load!Refused
<1>3. \A q \in Load!Packets : q = <<q[1], q[2]>> /\ q[1] \in Load!Vols /\ Fact(q[1], q[2]) = volumes[q[1]][q[2]]
  BY VolumesAre DEF LoadInv, LoadTypeOK, Fact
<1>4. \A v \in Load!Vols : IF mains[v] = Nowhere THEN \A q \in Heard : q[1] = v => ~OwnMain(q)
                           ELSE <<v, mains[v]>> \in Heard /\ OwnMain(<<v, mains[v]>>)
  BY DEF LoadInv, RecordsHold
<1>5. Heard \subseteq Load!Packets
  BY DEF LoadInv, LoadTypeOK, Heard, ToSet
<1>6. ASSUME NEW v \in Load!Vols, v \in failed PROVE Deserves(v)
  <2>1. Unloaded(v)
    BY <1>6 DEF LoadInv, LossesHold
  <2>2. \A q \in Load!Packets : Load!Broken(Fact(v, q[2])) => Load!Faulty(volumes[v][q[2]])
    BY FaultyAre DEF Fact
  <2> QED BY <2>1, <2>2 DEF Unloaded
<1>7. ASSUME NEW v \in Load!Vols, Load!Mismatched(v) PROVE Deserves(v)
  <2>1. mains[v] # Nowhere /\ ~volumes[v][mains[v]].agrees
    BY <1>7 DEF Load!Mismatched
  <2> DEFINE q == <<v, mains[v]>>
  <2>2. q \in Load!Packets /\ q[1] = v /\ q[2] = mains[v] /\ OwnMain(q)
    BY <1>4, <1>5, <2>1
  <2>3. volumes[v][q[2]].own /\ volumes[v][q[2]].kind = "main" /\ ~volumes[v][q[2]].agrees
    BY <2>1, <2>2 DEF OwnMain, Fact
  <2>4. Load!Faulty(volumes[v][q[2]])
    BY <2>3, FaultyAre
  <2> QED BY <2>2, <2>4
<1>8. ASSUME NEW v \in Load!Vols, Deserves(v) PROVE v \in failed \/ Load!Mismatched(v)
  <2>1. CASE volumes[v] = Unindexed \/ \E b \in lost : b[1] = v
    BY <1>1, <2>1, LoadEnds
  <2>2. CASE \E q \in Load!Packets : q[1] = v /\ Load!Faulty(volumes[v][q[2]])
    <3>1. PICK q \in Load!Packets : q[1] = v /\ Load!Faulty(volumes[v][q[2]])
      BY <2>2
    <3>2. v \in failed \/ q \in Heard
      BY <1>1, <3>1, LoadEnds
    <3>3. ASSUME q \in Heard PROVE Load!Mismatched(v)
      <4>1. ~Load!Broken(Fact(v, q[2]))
        BY <3>1, <3>3 DEF LoadInv, HeardHolds
      <4>2. OwnMain(q) /\ ~volumes[v][q[2]].agrees
        BY <3>1, <4>1, FaultyAre DEF OwnMain, Fact
      <4>3. mains[v] # Nowhere
        BY <1>4, <3>1, <3>3, <4>2
      <4> DEFINE r == <<v, mains[v]>>
      <4>4. r \in Load!Packets /\ OwnMain(r) /\ r[1] = v /\ r[2] = mains[v]
        BY <1>4, <1>5, <4>3
      <4> HIDE DEF r
      <4>5. q \in Load!OwnMains(v) /\ r \in Load!OwnMains(v)
        BY <3>1, <4>2, <4>4 DEF Load!OwnMains, OwnMain, Fact
      <4>6. Load!Agrees(q) = Load!Agrees(r)
        BY <4>5 DEF Load!Coherent
      <4>7. ~volumes[v][mains[v]].agrees
        BY <3>1, <4>2, <4>4, <4>6 DEF Load!Agrees
      <4> QED BY <4>3, <4>7 DEF Load!Mismatched
    <3> QED BY <3>2, <3>3
  <2> QED BY <1>8, <2>1, <2>2
<1> HIDE DEF Deserves
<1> QED BY <1>2, <1>6, <1>7, <1>8

-----------------------------------------------------------------------------
\* The invariant holds throughout a load (decoder.go:908-1152).
THEOREM LoadInvariant == Load!Spec => []LoadInv
<1>1. Load!Init => LoadInv
  BY LoadInit
<1>2. LoadInv /\ [Load!Next]_(Load!vars) => LoadInv'
  BY LoadStep
<1> QED BY <1>1, <1>2, PTL DEF Load!Spec

\* Whatever the schedule of the workers, a load that succeeds has found every block of
\* the decoder's set, once, in the first volume that holds it (decoder.go:998-1000), and
\* lets the delegate hear every packet in (volume, packet) order (920-922).
THEOREM LoadIsSequential == Load!Spec => []LoadedIsSequential
<1>1. LoadInv => LoadedIsSequential
  BY LoadFinds, LoadHears DEF LoadedIsSequential, Load!LoadedIsSequential
<1> QED BY <1>1, LoadInvariant, PTL

\* It fails exactly when a volume cannot be read, holds what must not be taken or is of
\* another version of the set (decoder.go:1129-1147).
THEOREM LoadRefusesFaults == Load!Spec => []FaultsAreRefused
<1>1. LoadInv => FaultsAreRefused
  BY LoadRefuses DEF FaultsAreRefused
<1> QED BY <1>1, LoadInvariant, PTL

-----------------------------------------------------------------------------
(* The session that runs both. *)

\* Slices of the same content are found together.
TwinsAgree == \A s, t \in Slices : Content[s[1]][s[2]] = Content[t[1]][t[2]] => infos[s] = infos[t]

\* The result of a session that has both outcomes.
Verdicts == IF failedAt # Nowhere THEN [is |-> "scan error", file |-> failedAt]
            ELSE IF outcome = "refused" THEN [is |-> "volume error"]
            ELSE [is |-> "counts", counts |-> ShardCounts]

\* The scan's goroutine is there from when the session loads to when it is joined, and
\* the session goes on only when both the scan and the load are done.
Joined == /\ session \in {"new", "loading", "repairing", "returned"}
          /\ scanner \in {"none", "scanning", "exited"}
          /\ session = "new" => scanner = "none" /\ scanErr = <<>> /\ result = [is |-> "none"]
          /\ session = "loading" => scanner # "none" /\ result = [is |-> "none"]
          /\ scanner = "scanning" => session = "loading" /\ scanErr = <<>>
          /\ scanner = "exited" => pc = "done" /\ (session = "loading" => scanErr = <<failedAt>>)
          /\ session \in {"repairing", "returned"} =>
               \/ session = "returned" /\ result = [is |-> "no index"] /\ scanner = "none"
               \/ /\ scanner = "exited" /\ loadPc = "done" /\ result = Verdicts
                  /\ session = IF result.is = "counts" /\ retain THEN "repairing" ELSE "returned"

SessionInv == ScanInv /\ LoadInv /\ TwinsAgree /\ Joined

\* A match is recorded for every slice of its content.
LEMMA TwinsStep == ScanTypeOK /\ TwinsAgree /\ [Next]_vars => TwinsAgree'
<1> SUFFICES ASSUME ScanTypeOK, TwinsAgree, [Next]_vars PROVE TwinsAgree'
  OBVIOUS
<1>1. CASE infos' = infos
  BY <1>1 DEF TwinsAgree
<1>2. ASSUME NEW w \in Workers, ScanSlice(w) PROVE TwinsAgree'
  <2> DEFINE c == disk[work[w].file][work[w].place]
             l == <<work[w].file, work[w].place>>
  <2>1. infos' = [s \in Slices |-> IF s \in Located(c) THEN Recorded(infos[s], l) ELSE infos[s]]
    BY <1>2 DEF ScanSlice
  <2> HIDE DEF c, l
  <2>2. ASSUME NEW s \in Slices, NEW t \in Slices, Content[s[1]][s[2]] = Content[t[1]][t[2]]
        PROVE  infos'[s] = infos'[t]
    <3>1. s \in Located(c) <=> t \in Located(c)
      BY <2>2 DEF Located
    <3>2. infos[s] = infos[t]
      BY <2>2 DEF TwinsAgree
    <3> QED BY <2>1, <3>1, <3>2
  <2> QED BY <2>2 DEF TwinsAgree
<1> QED BY <1>1, <1>2 DEF Next, Worker, vars, Start, Close, Finish, Send, OpenFile, ReadWindow, CountWindow, JudgeFile, Exit

\* What a session comes to is settled when the scan and the load are.
LEMMA VerdictsStay ==
  ASSUME vars' = vars, loadVars' = loadVars
  PROVE  Verdicts' = Verdicts
  BY DEF vars, loadVars, Verdicts, ShardCounts

\* A session begins with nothing joined.
LEMMA SessionStarts == SessionInit => SessionInv
<1> SUFFICES ASSUME SessionInit PROVE SessionInv
  OBVIOUS
<1>1. ScanInv /\ LoadInv
  BY ScanInit, LoadInit DEF SessionInit
<1>2. TwinsAgree
  BY DEF SessionInit, Init, TwinsAgree
<1>3. Joined
  BY DEF SessionInit, Joined
<1> QED BY <1>1, <1>2, <1>3 DEF SessionInv

\* Every step of a session, the scan or the load keeps what is known of all three.
LEMMA SessionStep == SessionInv /\ [SessionNext]_allVars => SessionInv'
<1> SUFFICES ASSUME SessionInv, [SessionNext]_allVars PROVE SessionInv'
  OBVIOUS
<1>1. [Next]_vars /\ [Load!Next]_(Load!vars)
  <2>1. UNCHANGED loadVars => UNCHANGED Load!vars
    BY DEF loadVars, Load!vars
  <2>2. [Next]_vars
    BY DEF SessionNext, NewDecoder, Scan, SendScanErr, LoadVolumes, Join, allVars
  <2>3. [Load!Next]_(Load!vars)
    BY <2>1 DEF SessionNext, NewDecoder, Scan, SendScanErr, LoadVolumes, Join, allVars
  <2> QED BY <2>2, <2>3
<1>2. ScanInv' /\ LoadInv' /\ TwinsAgree'
  BY <1>1, ScanStep, LoadStep, TwinsStep DEF SessionInv, ScanInv
<1>3. Joined'
  <2>a. /\ session \in {"new", "loading", "repairing", "returned"}
        /\ scanner \in {"none", "scanning", "exited"}
        /\ session = "new" => scanner = "none" /\ scanErr = <<>> /\ result = [is |-> "none"]
        /\ session = "loading" => scanner # "none" /\ result = [is |-> "none"]
        /\ scanner = "scanning" => session = "loading" /\ scanErr = <<>>
        /\ scanner = "exited" => pc = "done" /\ (session = "loading" => scanErr = <<failedAt>>)
        /\ session \in {"repairing", "returned"} =>
             \/ session = "returned" /\ result = [is |-> "no index"] /\ scanner = "none"
             \/ /\ scanner = "exited" /\ loadPc = "done" /\ result = Verdicts
                /\ session = IF result.is = "counts" /\ retain THEN "repairing" ELSE "returned"
    BY DEF SessionInv, Joined
  <2>1. CASE UNCHANGED allVars
    <3>1. /\ vars' = vars /\ loadVars' = loadVars /\ session' = session /\ scanner' = scanner
          /\ scanErr' = scanErr /\ result' = result
      BY <2>1 DEF allVars, sessionVars
    <3>2. Verdicts' = Verdicts /\ pc' = pc /\ failedAt' = failedAt /\ loadPc' = loadPc /\ retain' = retain
      BY <3>1, VerdictsStay DEF vars, loadVars
    <3> QED BY <2>a, <3>1, <3>2 DEF Joined
  <2>2. CASE NewDecoder
    <3>1. /\ session = "new" /\ scanErr' = scanErr
          /\ \/ session' = "loading" /\ scanner' = "scanning" /\ result' = result
             \/ session' = "returned" /\ result' = [is |-> "no index"] /\ scanner' = scanner
      BY <2>2 DEF NewDecoder
    <3> QED BY <2>a, <3>1 DEF Joined
  <2>3. CASE Scan
    <3>1. /\ scanner = "scanning" /\ session' = session /\ scanner' = scanner
          /\ scanErr' = scanErr /\ result' = result
      BY <2>3 DEF Scan, sessionVars
    <3> QED BY <2>a, <3>1 DEF Joined
  <2>4. CASE SendScanErr
    <3>1. /\ scanner = "scanning" /\ pc = "done" /\ scanErr' = <<failedAt>> /\ scanner' = "exited"
          /\ session' = session /\ result' = result /\ pc' = pc /\ failedAt' = failedAt
      BY <2>4 DEF SendScanErr, vars
    <3> QED BY <2>a, <3>1 DEF Joined
  <2>5. CASE LoadVolumes
    <3>1. /\ session = "loading" /\ session' = session /\ scanner' = scanner
          /\ scanErr' = scanErr /\ result' = result /\ pc' = pc /\ failedAt' = failedAt
      BY <2>5 DEF LoadVolumes, vars, sessionVars
    <3> QED BY <2>a, <3>1 DEF Joined
  <2>6. CASE Join
    <3>1. /\ session = "loading" /\ loadPc = "done" /\ scanErr # <<>> /\ scanErr' = <<>> /\ result' = Answer
          /\ session' = (IF result'.is = "counts" /\ retain THEN "repairing" ELSE "returned")
          /\ vars' = vars /\ loadVars' = loadVars /\ scanner' = scanner
      BY <2>6 DEF Join
    <3>2. scanner = "exited" /\ scanErr = <<failedAt>>
      BY <2>a, <3>1
    <3>3. Answer = Verdicts
      <4>1. Head(scanErr) = failedAt /\ (scanErr = <<Nowhere>> <=> failedAt = Nowhere)
        BY <3>2
      <4> QED BY <4>1 DEF Answer, Verdicts
    <3>4. Verdicts' = Verdicts /\ pc' = pc /\ failedAt' = failedAt /\ loadPc' = loadPc /\ retain' = retain
      BY <3>1, VerdictsStay DEF vars, loadVars
    <3> QED BY <2>a, <3>1, <3>2, <3>3, <3>4 DEF Joined
  <2> QED BY <2>1, <2>2, <2>3, <2>4, <2>5, <2>6 DEF SessionNext
<1> QED BY <1>2, <1>3 DEF SessionInv

\* What is known of a session holds throughout.
THEOREM SessionInvariant == SessionSpec => []SessionInv
  BY SessionStarts, SessionStep, PTL DEF SessionSpec

-----------------------------------------------------------------------------
\* A session that is over, but for the index file, has joined the scan and the load.
LEMMA SessionEnds ==
  ASSUME SessionInv, session \in {"repairing", "returned"} \/ result.is \notin {"none", "no index"},
         result.is # "no index"
  PROVE  /\ scanner = "exited" /\ pc = "done" /\ loadPc = "done" /\ result = Verdicts
         /\ session = IF result.is = "counts" /\ retain THEN "repairing" ELSE "returned"
<1>1. Joined
  BY DEF SessionInv
<1>2. [is |-> "none"].is = "none" /\ [is |-> "no index"].is = "no index"
  OBVIOUS
<1>3. session \in {"repairing", "returned"}
  BY <1>1, <1>2 DEF Joined
<1> QED BY <1>1, <1>2, <1>3 DEF Joined

\* The files a scan has an error of, once it is done.
LEMMA ScanFails ==
  ASSUME ScanInv, pc = "done"
  PROVE  /\ Unscannable = errs /\ failedAt = (IF errs = {} THEN Nowhere ELSE Min(errs))
         /\ errs # {} => Min(errs) # Nowhere
         /\ errs = {} => loaded
<1>1. Unscannable = errs
  BY AllScanned DEF Unscannable, Fails
<1>2. failedAt = FirstError /\ loaded = (errs = {}) /\ errs \subseteq Files
  BY DEF ScanInv, StagesHold, ScanTypeOK
<1>3. ASSUME errs # {} PROVE Min(errs) # Nowhere
  <2>1. errs \in SUBSET Nat
    BY <1>2, FilesAre
  <2>2. \E n \in errs : \A m \in errs : n <= m
    BY <1>3, <2>1, Least
  <2>3. Min(errs) \in errs
    BY <2>2 DEF Min
  <2> QED BY <1>2, <2>3, LoadAssumption
<1> QED BY <1>1, <1>2, <1>3 DEF FirstError

\* The exponents found are those of the volumes, and what is missing below the highest
\* are the gaps.
LEMMA BlocksCounted ==
  ASSUME LoadInv, outcome = "loaded"
  PROVE  /\ present = Blocks
         /\ (IF present = {} THEN 0 ELSE Max(present) + 1) - Cardinality(present) = Cardinality(Gaps)
<1>1. present = Blocks
  BY LoadFinds DEF Load!FirstBlocks, Blocks
<1>2. /\ present = {Fact(q[1], q[2]).exp : q \in {r \in Heard : Load!Counts(Fact(r[1], r[2]))}}
      /\ events \in Seq(Load!Packets)
      /\ \A q \in Load!Packets : Fact(q[1], q[2]) \in Load!Packet
  BY VolumesAre DEF LoadInv, RecordsHold, LoadTypeOK
<1>3. present \in SUBSET Nat /\ \E b \in Nat : \A e \in present : e <= b
  <2> DEFINE s == [n \in 1..Len(events) |-> Fact(events[n][1], events[n][2]).exp]
  <2>1. /\ Len(events) \in Nat /\ DOMAIN events = 1..Len(events)
        /\ \A n \in 1..Len(events) : events[n] \in Load!Packets
    BY <1>2
  <2>2. \A p \in Load!Packet : p.exp \in Nat
    BY DEF Load!Packet
  <2>3. s \in Seq(Nat) /\ DOMAIN s = 1..Len(events)
    <3>1. s \in [1..Len(events) -> Nat]
      BY <1>2, <2>1, <2>2
    <3> HIDE DEF s
    <3> QED BY <2>1, <3>1
  <2>4. \A e \in present : \E n \in DOMAIN s : e = s[n]
    BY <1>2, <2>1 DEF Heard, ToSet
  <2> HIDE DEF s
  <2>5. PICK b \in Nat : \A n \in DOMAIN s : s[n] <= b
    BY <2>3, Bounded
  <2>6. \A e \in present : e <= b /\ e \in Nat
    BY <2>3, <2>4, <2>5
  <2> QED BY <2>6
<1>4. CASE present = {}
  <2>1. Gaps = {}
    BY <1>1, <1>4 DEF Gaps
  <2> QED BY <1>1, <1>4, <2>1, FS_EmptySet
<1>5. CASE present # {}
  <2>1. PICK m \in present : \A e \in present : e <= m
    BY <1>3, <1>5, Greatest
  <2>2. m \in Nat /\ \A e \in present : e \in 0..m
    BY <1>3, <2>1
  <2>3. Max(present) = m
    <3>1. \A x \in present : (\A y \in present : x >= y) => x = m
      BY <1>3, <2>1
    <3>2. \A y \in present : m >= y
      BY <1>3, <2>1
    <3> QED BY <2>1, <3>1, <3>2 DEF Max
  <2>4. Max(present \cup {0}) = m
    <3> DEFINE S == present \cup {0}
    <3>0. S \subseteq Nat
      BY <1>3
    <3>1. \A y \in S : m >= y
      BY <1>3, <2>1, <2>2
    <3>2. m \in S
      BY <2>1
    <3> HIDE DEF S
    <3>3. \A x \in S : (\A y \in S : x >= y) => x = m
      BY <3>0, <3>1, <3>2
    <3>4. Max(S) = m
      BY <3>1, <3>2, <3>3 DEF Max
    <3> QED BY <3>4 DEF S
  <2>5. Gaps = (0..m) \ present
    <3>1. ASSUME NEW g \in 0..m, g \notin present PROVE \E e \in present : g < e
      <4>1. g # m /\ g < m
        BY <2>1, <2>2, <3>1
      <4> QED BY <2>1, <4>1
    <3> QED BY <1>1, <2>4, <3>1 DEF Gaps
  <2>6. IsFiniteSet(0..m) /\ Cardinality(0..m) = m + 1
    <3>1. 0 \in Int /\ m \in Int /\ ~(0 > m)
      BY <2>2
    <3> QED BY <2>2, <3>1, FS_Interval
  <2>7. (0..m) \cap present = present
    BY <2>2
  <2>8. Cardinality((0..m) \ present) = Cardinality(0..m) - Cardinality((0..m) \cap present)
    BY <2>6, FS_Difference
  <2>9. Cardinality(Gaps) = Cardinality(0..m) - Cardinality(present)
    BY <2>5, <2>7, <2>8
  <2> QED BY <1>1, <1>5, <2>3, <2>6, <2>9
<1> QED BY <1>1, <1>4, <1>5

\* A place is a file and a number.
LEMMA PlacesAre == disk \in Disks => Places \subseteq Files \X Nat
<1> SUFFICES ASSUME disk \in Disks, NEW l \in Places PROVE l \in Files \X Nat
  OBVIOUS
<1>1. PICK f \in Files : Readable(f) /\ l \in {f} \X (1..Len(disk[f]))
  BY DEF Places
<1>2. Len(disk[f]) \in Nat
  BY <1>1, DiskIs
<1> QED BY <1>1, <1>2

\* A session comes to what its files and volumes deserve.
LEMMA SessionAnswers == SessionInv => SessionIsSequential
<1> DEFINE usable == {s \in Slices : ScannedLocations(s) # {}}
           counted == [data |-> Cardinality(usable), lostData |-> Cardinality(Slices \ usable),
                       parity |-> Cardinality(Blocks), lostParity |-> Cardinality(Gaps)]
<1> SUFFICES ASSUME SessionInv, result.is \notin {"none", "no index"}, Load!Coherent
             PROVE  result = IF Unscannable # {} THEN [is |-> "scan error", file |-> Min(Unscannable)]
                             ELSE IF Unloadable # {} THEN [is |-> "volume error"]
                             ELSE [is |-> "counts", counts |-> counted]
  BY DEF SessionIsSequential
<1>1. /\ pc = "done" /\ loadPc = "done"
      /\ result = IF failedAt # Nowhere THEN [is |-> "scan error", file |-> failedAt]
                  ELSE IF outcome = "refused" THEN [is |-> "volume error"]
                  ELSE [is |-> "counts", counts |-> ShardCounts]
  BY SessionEnds DEF Verdicts
<1>2. ScanInv /\ LoadInv
  BY DEF SessionInv
<1>3. /\ Unscannable = errs /\ failedAt = (IF errs = {} THEN Nowhere ELSE Min(errs))
      /\ errs # {} => Min(errs) # Nowhere
      /\ errs = {} => loaded
  BY <1>1, <1>2, ScanFails
<1>4. outcome \in {"loaded", "refused"}
  BY <1>1, <1>2, LoadEnds
<1>5. outcome = "refused" <=> Unloadable # {}
  BY <1>2, <1>4, LoadRefuses DEF Load!FaultsAreRefused, Unloadable
<1>6. ASSUME errs = {}, outcome = "loaded" PROVE ShardCounts = counted
  <2>1. \A s \in Slices : infos[s].foundAt \in IF ScannedLocations(s) = {} THEN {Nowhere} ELSE ScannedLocations(s)
    BY <1>2, <1>3, <1>6, AccountsAreSequential DEF FoundAll
  <2>2. \A s : ScannedLocations(s) \subseteq Files \X Nat
    BY <1>2, PlacesAre DEF ScanInv, ScanTypeOK, ScannedLocations
  <2>3. {s \in Slices : infos[s].foundAt # Nowhere} = usable
    BY <2>1, <2>2, LoadAssumption
  <2>4. /\ present = Blocks
        /\ (IF present = {} THEN 0 ELSE Max(present) + 1) - Cardinality(present) = Cardinality(Gaps)
    BY <1>2, <1>6, BlocksCounted
  <2> HIDE DEF usable
  <2> QED BY <2>3, <2>4 DEF ShardCounts
<1> HIDE DEF counted
<1> QED BY <1>1, <1>3, <1>4, <1>5, <1>6

\* The goroutines of a session are gone when it goes on.
LEMMA SessionIsAlone == SessionInv => NobodyIsLeft
<1> SUFFICES ASSUME SessionInv, session \in {"repairing", "returned"}, result.is # "no index"
             PROVE  /\ scanner = "exited"
                    /\ \A w \in Workers : work[w].at = "exited" /\ loadWork[w].at = "exited"
  BY DEF NobodyIsLeft
<1>1. scanner = "exited" /\ pc = "done" /\ loadPc = "done"
  BY SessionEnds
<1> QED BY <1>1 DEF SessionInv, ScanInv, StagesHold, LoadInv, LoadStagesHold

\* What a repair begins with.
LEMMA RepairBegins == SessionInv => RepairStartsFromScan
<1> SUFFICES ASSUME SessionInv, session = "repairing" PROVE RepairStartsFromScan
  BY DEF RepairStartsFromScan
<1>0. result.is # "no index"
  <2>1. Joined
    BY DEF SessionInv
  <2>2. result.is = "counts"
    BY <2>1 DEF Joined
  <2> QED BY <2>2
<1>1. pc = "done" /\ loadPc = "done" /\ result = Verdicts /\ result.is = "counts" /\ retain
  BY <1>0, SessionEnds
<1>2. ScanInv /\ LoadInv /\ TwinsAgree
  BY DEF SessionInv
<1>3. failedAt = Nowhere /\ outcome # "refused"
  <2>1. [is |-> "scan error", file |-> failedAt].is # "counts" /\ [is |-> "volume error"].is # "counts"
    OBVIOUS
  <2> QED BY <1>1, <2>1 DEF Verdicts
<1>4. loaded
  BY <1>1, <1>2, <1>3, ScanFails
<1>5. outcome = "loaded"
  BY <1>1, <1>2, <1>3, LoadEnds
<1>6. \A s \in Slices : /\ infos[s].locations = ScannedLocations(s)
                        /\ infos[s].foundAt \in IF ScannedLocations(s) = {} THEN {Nowhere} ELSE ScannedLocations(s)
  BY <1>2, <1>4, AccountsAreSequential DEF FoundAll
<1>7. \A s, t \in Slices : Content[s[1]][s[2]] = Content[t[1]][t[2]] => infos[s].foundAt = infos[t].foundAt
  BY <1>2 DEF TwinsAgree
<1>8. \A s \in Slices : /\ ShardOK(s) <=> s \in ScannedLocations(s)
                        /\ infos[s].foundAt # Nowhere => infos[s].foundAt \in ScannedLocations(s)
  BY <1>6 DEF ShardOK
<1>9. ASSUME NEW e \in Blocks
      PROVE  /\ e \in present /\ <<locations[e].vol, locations[e].pkt>> \in Load!Blocks(e)
             /\ volumes[locations[e].vol][locations[e].pkt].sound
  <2>1. e \in present /\ e \in DOMAIN locations
    BY <1>1, <1>2, <1>5, <1>9, BlocksCounted DEF LoadInv, RecordsHold
  <2> DEFINE q == <<locations[e].vol, locations[e].pkt>>
  <2>2. q \in Heard /\ q \in Load!Blocks(e)
    BY <1>2, <2>1 DEF LoadInv, RecordsHold
  <2>3. ~Load!Broken(Fact(q[1], q[2]))
    BY <1>2, <2>2 DEF LoadInv, HeardHolds
  <2>4. volumes[locations[e].vol][locations[e].pkt].sound
    BY <1>1, <2>3 DEF Load!Broken, Fact
  <2> QED BY <2>1, <2>2, <2>4
<1> QED BY <1>7, <1>8, <1>9 DEF RepairStartsFromScan

\* Whatever the schedule of the scan, the load and their workers, a session comes to
\* the error of the first file that cannot be scanned, or else that of the volumes, or
\* else the counts of what the files and the volumes hold (repair.go:66-107).
THEOREM SessionAnswersForItsFiles == SessionSpec => []SessionIsSequential
  BY SessionInvariant, SessionAnswers, PTL

\* When it returns or begins to repair, no goroutine it started is left.
THEOREM SessionLeavesNobody == SessionSpec => []NobodyIsLeft
  BY SessionInvariant, SessionIsAlone, PTL

\* A repair begins with a scan that is right about the disk, and with blocks that were
\* read and checked.
THEOREM SessionStartsRepair == SessionSpec => []RepairStartsFromScan
  BY SessionInvariant, RepairBegins, PTL
===============================================================================
