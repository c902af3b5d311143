----------------------------- MODULE CheckWritten -----------------------------
(***************************************************************************)
(* Decoder.checkWrittenFiles (par2/windowscan.go 120-260): the files a      *)
(* repair has renamed are read back, in windows when most of a file is to   *)
(* be read, else its listed slices and its first 16 KiB one by one, by two  *)
(* pools of workers, one after the other.  Repair takes the outcome in one  *)
(* step, CheckWritten.                                                      *)
(*                                                                          *)
(* A file is the sequence of its slices: Whole, damaged Early (where the    *)
(* 16 KiB head, if it ends in this slice, still shows it) or Late.          *)
(***************************************************************************)
EXTENDS Naturals, Sequences, FiniteSets, SequencesExt

CONSTANTS
  Slices,          \* per file of the recovery set, how many slices it has
  Whole, Early, Late,
  Locked,          \* a file that cannot be opened
  Disks,           \* possible states of the disk
  WindowSlices,    \* slices per window (scanWindowSize)
  HeadSlices,      \* slices the first 16 KiB reach into: a window is a megabyte or more,
                   \* so no more than WindowSlices
  RowSets,         \* possible lists of slices to check
  MaxUnread,       \* bound on the slices that cannot be read
  Workers          \* numGoroutines

\* What a decoder guarantees; assumed where the constants get their values.
CheckAssumption ==
  /\ Slices \in Seq(Nat) /\ WindowSlices \in Nat \ {0} /\ HeadSlices \in Nat \ {0}
  /\ \A r \in RowSets : \A f \in DOMAIN Slices : r[f] \subseteq 1..Slices[f]

Files == DOMAIN Slices
None == "none"

VARIABLES
  paths,           \* the files with a path
  rows,            \* per file the slices to check, none for nil
  misdescribed,    \* empty files whose packet holds another 16k hash
  disk, unread,    \* what is read back; slices that cannot be, <<file, slice>>
  pc, todo, work,  \* the stage, its unsent tasks, the workers
  errs             \* checkWrittenFiles' result

vars == <<paths, rows, misdescribed, disk, unread, pc, todo, work, errs>>
env == <<paths, rows, misdescribed, disk, unread>>

-----------------------------------------------------------------------------
Opened(f) == f \in paths /\ disk[f] # Locked
\* sources[f].r # nil
Sized(f) == Opened(f) /\ Len(disk[f]) = Slices[f]
Dense(f) == rows[f] = {} \/ Cardinality(rows[f]) * 2 >= Slices[f]

\* Tasks are <<file, first, last>>; a head is <<file, 0, 0>> (idx -1 in the code).
WindowTasks(f) ==
  [n \in 1..((Slices[f] + WindowSlices - 1) \div WindowSlices) |->
     <<f, (n - 1) * WindowSlices + 1, Min({Slices[f], n * WindowSlices})>>]
\* The head forgotten.
SliceTasksOnly(f) == LET listed == SetToSeq(rows[f])
                     IN [n \in DOMAIN listed |-> <<f, listed[n], listed[n]>>]
\* One for the head, one for each listed slice.
SliceTasks(f) == <<<<f, 0, 0>>>> \o SliceTasksOnly(f)

TasksOf(S, tasks) == FlattenSeq([f \in Files |-> IF f \in S THEN tasks[f] ELSE <<>>])

HeadPlaces(f) == 1..Min({HeadSlices, Slices[f]})
HeadWrong(f) == \E p \in HeadPlaces(f) :
                  disk[f][p] = Early \/ (disk[f][p] = Late /\ p < HeadSlices)

\* The error of a read and of what it read; the head of a file is compared with
\* its first window.
Verdict(f, first, last) ==
  IF \E p \in IF last = 0 THEN HeadPlaces(f) ELSE first..last : <<f, p>> \in unread THEN "read"
  ELSE IF first <= 1 /\ (last = 0 \/ Dense(f)) /\ HeadWrong(f) THEN "16k"
  ELSE IF last # 0 /\ \E p \in first..last : disk[f][p] # Whole THEN "slice"
  ELSE None

\* setErr keeps the first error of a file.
Keeps(f, err) == [errs EXCEPT ![f] = IF @ = None THEN err ELSE @]

-----------------------------------------------------------------------------
\* Repair passes the files it rewrote, and the slices it wrote into clones.
Init ==
  /\ disk \in Disks
  /\ paths \in SUBSET Files
  /\ \E r \in RowSets : rows = [f \in Files |-> IF f \in paths THEN r[f] ELSE {}]
  /\ misdescribed \in SUBSET {f \in Files : Slices[f] = 0}
  /\ unread \in {u \in SUBSET UNION {{f} \X (1..Slices[f]) : f \in Files} :
                   Cardinality(u) <= MaxUnread}
  /\ pc = "open" /\ todo = <<>> /\ work = [w \in Workers |-> <<>>]
  /\ errs = [f \in Files |-> None]

\* Every file is opened and its size compared before anything is read.
Open ==
  /\ pc = "open" /\ pc' = "windows"
  /\ errs' = [f \in Files |-> CASE f \in paths /\ ~Opened(f) -> "open"
                                [] Opened(f) /\ ~Sized(f) -> "size"
                                [] OTHER -> None]
  /\ todo' = TasksOf({f \in Files : Sized(f) /\ Dense(f)}, [f \in Files |-> WindowTasks(f)])
  /\ UNCHANGED <<env, work>>

\* A worker takes the next task from the unbuffered channel.
Receive(w) ==
  /\ pc \in {"windows", "slices"} /\ todo # <<>> /\ work[w] = <<>>
  /\ work' = [work EXCEPT ![w] = <<"received", Head(todo)>>]
  /\ todo' = Tail(todo)
  /\ UNCHANGED <<env, pc, errs>>

\* A window of a file that has failed is skipped; the flag is read before the
\* window is, and another worker may set it meanwhile.
Look(w) ==
  /\ work[w] # <<>> /\ work[w][1] = "received"
  /\ work' = [work EXCEPT ![w] = IF pc = "windows" /\ errs[@[2][1]] # None THEN <<>>
                                 ELSE <<"reading", @[2]>>]
  /\ UNCHANGED <<env, pc, todo, errs>>

\* It is read and compared, and its error recorded under the lock.
Compare(w) ==
  /\ work[w] # <<>> /\ work[w][1] = "reading"
  /\ LET task == work[w][2]  err == Verdict(task[1], task[2], task[3]) IN
       errs' = IF err = None THEN errs ELSE Keeps(task[1], err)
  /\ work' = [work EXCEPT ![w] = <<>>]
  /\ UNCHANGED <<env, pc, todo>>

Quiet == todo = <<>> /\ \A w \in Workers : work[w] = <<>>

\* The first pool has exited: the other files are checked slice by slice.  That
\* errs is read while tasks of earlier files run changes nothing: a file has no
\* task before its turn.
StartSlices ==
  /\ pc = "windows" /\ Quiet /\ pc' = "slices"
  /\ todo' = TasksOf({f \in Files : Sized(f) /\ ~Dense(f) /\ errs[f] = None},
                     [f \in Files |-> SliceTasks(f)])
  /\ UNCHANGED <<env, work, errs>>

\* The second pool has exited; empty files have had no window.
Finish ==
  /\ pc = "slices" /\ Quiet /\ pc' = "done"
  /\ errs' = [f \in Files |-> IF Sized(f) /\ Slices[f] = 0 /\ errs[f] = None /\ f \in misdescribed
                              THEN "16k" ELSE errs[f]]
  /\ UNCHANGED <<env, todo, work>>

Next == \/ Open \/ StartSlices \/ Finish
        \/ \E w \in Workers : Receive(w) \/ Look(w) \/ Compare(w)
Spec == Init /\ [][Next]_vars

-----------------------------------------------------------------------------
\* The slices Repair takes to be read back (its CheckedRows).
Checked(f) == IF rows[f] # {} /\ 2 * Cardinality(rows[f]) < Slices[f] THEN rows[f] ELSE 1..Slices[f]

\* Everything that is wrong with a file, of what is looked at.
Wrongs(f) ==
  IF f \notin paths THEN {}
  ELSE IF disk[f] = Locked THEN {"open"}
  ELSE IF Len(disk[f]) # Slices[f] THEN {"size"}
  ELSE (IF \E p \in Checked(f) : disk[f][p] # Whole THEN {"slice"} ELSE {})
         \cup (IF HeadWrong(f) \/ f \in misdescribed THEN {"16k"} ELSE {})
         \cup (IF \E p \in Checked(f) \cup HeadPlaces(f) : <<f, p>> \in unread THEN {"read"} ELSE {})

\* Whatever the schedule, a file passes exactly when nothing of what Repair relies
\* on is wrong with it, and fails with an error that is true of it: no worker's
\* error hides another file's, and none is lost between the two pools.
ChecksDecide ==
  pc = "done" => \A f \in Files : IF Wrongs(f) = {} THEN errs[f] = None ELSE errs[f] \in Wrongs(f)

-----------------------------------------------------------------------------
\* The tasks of a file, and those a worker or the channel still has.
TaskSet(f) == ToSet(IF Dense(f) THEN WindowTasks(f) ELSE SliceTasks(f))
Outstanding == ToSet(todo) \cup {work[w][2] : w \in {v \in Workers : work[v] # <<>>}}

\* What the proof in CheckWrittenProofs carries from step to step: an error is true of
\* its file, and a file without one has no task behind it that found something.
ErrorsAreTrue ==
  pc # "open" => \A f \in Files :
    IF ~Sized(f) THEN IF Wrongs(f) = {} THEN errs[f] = None ELSE errs[f] \in Wrongs(f)
    ELSE errs[f] \in {None} \cup Wrongs(f)
NothingIsMissed ==
  pc # "open" => \A f \in Files : Sized(f) /\ (Dense(f) \/ pc # "windows") /\ errs[f] = None =>
    \A t \in TaskSet(f) : t \in Outstanding \/ Verdict(f, t[2], t[3]) = None
TasksAreOfFiles ==
  /\ pc \in {"open", "done"} => Quiet
  /\ \A t \in Outstanding : Sized(t[1]) /\ t \in TaskSet(t[1])

===============================================================================
