--------------------------- MODULE CheckWrittenProofs ---------------------------
(***************************************************************************)
(* The check of what a repair has written (windowscan.go:120-260), for any  *)
(* sizes of the files, window and head, any lists of slices and any number  *)
(* of workers: it decides.  An error is true of its file from the step that *)
(* records it, and a file without one has no task behind it that found      *)
(* something: a task is in the channel, with a worker, or has found         *)
(* nothing.  When both pools are done there are no tasks left, and the      *)
(* tasks of a file look at everything that could be wrong with it: its      *)
(* windows cover it, and the listed slices and the head are what Repair     *)
(* relies on in a file it has cloned.                                       *)
(***************************************************************************)
EXTENDS MCLoads, SequenceLemmas, FiniteSetTheorems, TLAPS

\* What Repair hands over: slices of the files it names, and empty files that may be misdescribed.
EnvOK ==
  /\ paths \subseteq Check!Files
  /\ \A f \in Check!Files : rows[f] \subseteq 1..CheckSlices[f]
  /\ misdescribed \subseteq {f \in Check!Files : CheckSlices[f] = 0}

TaskPlaces == Check!Files \X Nat \X Nat
Errors == {Check!None, "open", "size", "read", "16k", "slice"}
CheckTypeOK ==
  /\ EnvOK
  /\ checkPc \in {"open", "windows", "slices", "done"}
  /\ checkTodo \in Seq(TaskPlaces)
  /\ checkWork \in [Workers -> {<<>>} \cup ({"received", "reading"} \X TaskPlaces)]
  /\ checkErrs \in [Check!Files -> Errors]
CheckInv == CheckTypeOK /\ Check!ErrorsAreTrue /\ Check!NothingIsMissed /\ Check!TasksAreOfFiles /\ Check!ChecksDecide

-----------------------------------------------------------------------------
\* CheckWritten's helpers are those of this module.
LEMMA Plain ==
  \A S : /\ Check!Min(S) = Min(S)
         /\ Check!Cardinality(S) = Cardinality(S)
         /\ Check!SetToSeq(S) = SetToSeq(S)
         /\ Check!ToSet(S) = ToSet(S)
         /\ Check!FlattenSeq(S) = FlattenSeq(S)
<1> TAKE S
<1>1. Check!Min(S) = Min(S)
  BY DEF Check!Min, Min
<1>2. \A T : Check!Cardinality(T) = Cardinality(T)
  BY DEF Check!Cardinality, Cardinality
<1>3. Check!SetToSeq(S) = SetToSeq(S)
  BY <1>2 DEF Check!SetToSeq, SetToSeq, Check!IsInjective, IsInjective
<1>4. Check!ToSet(S) = ToSet(S)
  BY DEF Check!ToSet, ToSet
<1>5. Check!FlattenSeq(S) = FlattenSeq(S)
  BY DEF Check!FlattenSeq, FlattenSeq
<1> QED BY <1>1, <1>2, <1>3, <1>4, <1>5

\* The files and their numbers of slices.
LEMMA FilesAre ==
  /\ Check!Files = 1..Len(CheckSlices) /\ Len(CheckSlices) \in Nat
  /\ \A f \in Check!Files : CheckSlices[f] \in Nat
  /\ WindowSlices \in Nat \ {0} /\ HeadSlices \in Nat \ {0}
BY WrittenAssumption DEF Check!CheckAssumption, Check!Files

LEMMA MinOfTwo ==
  ASSUME NEW a \in Nat, NEW b \in Nat
  PROVE  Min({a, b}) \in {a, b} /\ Min({a, b}) \in Nat /\ Min({a, b}) <= a /\ Min({a, b}) <= b
<1> DEFINE T == {a, b}
<1>1. \E x \in T : \A y \in T : x =< y
  OBVIOUS
<1>2. Min(T) \in T /\ \A y \in T : Min(T) =< y
  <2> HIDE DEF T
  <2> QED BY <1>1 DEF Min
<1> QED BY <1>2

\* The windows of a file lie in it and cover it.
LEMMA WindowsCover ==
  ASSUME NEW f \in Check!Files
  PROVE  /\ Check!WindowTasks(f) \in Seq(TaskPlaces)
         /\ \A t \in ToSet(Check!WindowTasks(f)) :
              t[1] = f /\ t[2] \in 1..CheckSlices[f] /\ t[3] \in 1..CheckSlices[f]
         /\ \A p \in 1..CheckSlices[f] : \E t \in ToSet(Check!WindowTasks(f)) : p \in t[2]..t[3]
<1> DEFINE L == CheckSlices[f]
           c == WindowSlices
           N == (L + c - 1) \div c
           last(h) == Min({L, h * c})
           ts == [h \in 1..N |-> <<f, (h - 1) * c + 1, last(h)>>]
<1>1. L \in Nat /\ c \in Nat \ {0}
  BY FilesAre
<1>2. /\ N \in Nat
      /\ \A h \in 1..N : (h - 1) * c + 1 \in 1..L
      /\ \A p \in 1..L : (p - 1) % c = 0 => \E h \in 1..N : p = (h - 1) * c + 1
  BY <1>1, Pieces
<1>3. Check!WindowTasks(f) = ts
  BY Plain DEF Check!WindowTasks
<1> HIDE DEF L, c, N
<1>4. ASSUME NEW h \in 1..N
      PROVE  /\ h * c \in Nat /\ (h - 1) * c + 1 \in 1..L /\ h * c = (h - 1) * c + c
             /\ last(h) \in 1..L /\ (last(h) = L \/ last(h) = h * c)
  <2>1. h \in Nat /\ (h - 1) * c + 1 \in 1..L
    BY <1>2
  <2>2. h * c = (h - 1) * c + c /\ h * c \in Nat
    BY <1>1, <2>1
  <2>3. h * c >= 1 /\ L >= 1
    BY <1>1, <2>1, <2>2
  <2>4. last(h) \in {L, h * c} /\ last(h) \in Nat /\ last(h) <= L
    BY <1>1, <2>2, MinOfTwo
  <2> QED BY <1>1, <2>1, <2>2, <2>3, <2>4
<1> HIDE DEF last
<1>5. ts \in Seq(TaskPlaces) /\ ToSet(ts) = {ts[h] : h \in 1..N}
  <2>1. \A h \in 1..N : ts[h] \in TaskPlaces
    BY <1>1, <1>4 DEF TaskPlaces
  <2>2. ts \in [1..N -> TaskPlaces]
    BY <2>1
  <2> QED BY <1>2, <2>2 DEF ToSet
<1>6. \A t \in ToSet(ts) : t[1] = f /\ t[2] \in 1..L /\ t[3] \in 1..L
  BY <1>4, <1>5
<1>7. ASSUME NEW p \in 1..L PROVE \E t \in ToSet(ts) : p \in t[2]..t[3]
  <2> DEFINE e == (p - 1) % c
  <2>1. e \in 0..(c - 1) /\ p - 1 = c * ((p - 1) \div c) + e /\ (p - 1) \div c \in Int
    BY <1>1
  <2> HIDE DEF e
  <2>2. p - e \in 1..L /\ ((p - e) - 1) % c = 0
    <3> DEFINE q == (p - 1) \div c
    <3>1. (p - e) - 1 = c * q /\ q \in Int
      BY <1>1, <2>1
    <3> HIDE DEF q
    <3>2. (p - e) - 1 \in Int /\ ((p - e) - 1) % c = 0
      BY <1>1, <3>1, Multiples
    <3>3. q >= 0
      <4>1. CASE q <= -1
        <5>1. c * q <= c * (-1)
          BY <1>1, <3>1, <4>1
        <5>2. p - e >= 1 - (c - 1)
          BY <1>1, <2>1
        <5> QED BY <1>1, <2>1, <3>1, <5>1, <5>2
      <4> QED BY <3>1, <4>1
    <3>4. c * q >= 0
      BY <1>1, <3>1, <3>3
    <3> QED BY <1>1, <2>1, <3>1, <3>2, <3>4
  <2>3. PICK h \in 1..N : p - e = (h - 1) * c + 1
    BY <1>2, <2>2
  <2>4. ts[h] \in ToSet(ts) /\ ts[h][2] = p - e /\ ts[h][3] = last(h)
    BY <1>5, <2>3
  <2>5. (h - 1) * c \in Int /\ h * c \in Int /\ h * c = (h - 1) * c + c
    BY <1>1, <1>4, <2>3
  <2> DEFINE z == h * c
             y == (h - 1) * c
  <2>6. z \in Int /\ y \in Int /\ z = y + c /\ p - e = y + 1 /\ (last(h) = L \/ last(h) = z)
    BY <1>4, <2>3, <2>5
  <2> HIDE DEF z, y
  <2>7. p <= last(h) /\ p - e <= p /\ last(h) \in 1..L
    BY <1>1, <1>4, <2>1, <2>6
  <2>8. p - e \in Int /\ p \in Int /\ p \in (p - e)..last(h)
    BY <1>1, <2>1, <2>7
  <2> QED BY <2>4, <2>8
<1> HIDE DEF ts
<1> QED BY <1>3, <1>5, <1>6, <1>7 DEF L

\* The tasks of a file that is checked slice by slice: its head and the listed slices.
LEMMA SlicesListed ==
  ASSUME NEW f \in Check!Files, rows[f] \subseteq 1..CheckSlices[f]
  PROVE  /\ Check!SliceTasks(f) \in Seq(TaskPlaces)
         /\ ToSet(Check!SliceTasks(f)) = {<<f, 0, 0>>} \cup {<<f, p, p>> : p \in rows[f]}
<1> DEFINE listed == SetToSeq(rows[f])
           ts == [h \in DOMAIN listed |-> <<f, listed[h], listed[h]>>]
           head == <<<<f, 0, 0>>>>
<1>1. IsFiniteSet(rows[f]) /\ rows[f] \subseteq Nat
  <2>1. CheckSlices[f] \in Nat
    BY FilesAre
  <2>2. IsFiniteSet(1..CheckSlices[f])
    BY <2>1, FS_Interval
  <2> QED BY <2>1, <2>2, FS_Subset
<1>2. /\ listed \in Seq(rows[f]) /\ DOMAIN listed = 1..Len(listed) /\ Len(listed) \in Nat
      /\ ToSet(listed) = rows[f]
  BY <1>1, Listed
<1>3. Check!SliceTasks(f) = head \o ts
  BY Plain DEF Check!SliceTasks, Check!SliceTasksOnly
<1> HIDE DEF listed
<1>4. ts \in Seq(TaskPlaces)
  <2>1. \A h \in 1..Len(listed) : <<f, listed[h], listed[h]>> \in TaskPlaces
    BY <1>1, <1>2 DEF TaskPlaces
  <2> QED BY <1>2, <2>1
<1>5. ToSet(ts) = {<<f, p, p>> : p \in rows[f]}
  BY <1>2 DEF ToSet
<1>6. head \in Seq(TaskPlaces) /\ ToSet(head) = {<<f, 0, 0>>}
  BY DEF TaskPlaces, ToSet
<1> HIDE DEF ts, head
<1> QED BY <1>3, <1>4, <1>5, <1>6, Concatenation

\* The two ways to check a file ask for all of it, or for what Repair lists and the head.
LEMMA TasksAre ==
  ASSUME EnvOK, NEW f \in Check!Files
  PROVE  /\ Check!WindowTasks(f) \in Seq(TaskPlaces) /\ Check!SliceTasks(f) \in Seq(TaskPlaces)
         /\ \A t \in Check!TaskSet(f) : t \in TaskPlaces /\ t[1] = f
<1>1. /\ Check!WindowTasks(f) \in Seq(TaskPlaces) /\ \A t \in ToSet(Check!WindowTasks(f)) : t[1] = f
  BY WindowsCover
<1>2. /\ Check!SliceTasks(f) \in Seq(TaskPlaces) /\ \A t \in ToSet(Check!SliceTasks(f)) : t[1] = f
  BY SlicesListed DEF EnvOK
<1>3. ASSUME NEW s \in Seq(TaskPlaces), NEW t \in ToSet(s) PROVE t \in TaskPlaces
  BY <1>3 DEF ToSet
<1> QED BY <1>1, <1>2, <1>3, Plain DEF Check!TaskSet

\* A dense file is checked whole, another where it is listed.
LEMMA CheckedAre ==
  ASSUME EnvOK, NEW f \in Check!Files
  PROVE  /\ Check!Checked(f) = IF Check!Dense(f) THEN 1..CheckSlices[f] ELSE rows[f]
         /\ Check!Checked(f) \subseteq 1..CheckSlices[f] /\ Check!HeadPlaces(f) \subseteq 1..CheckSlices[f]
         /\ ~Check!Dense(f) => CheckSlices[f] # 0
<1>1. CheckSlices[f] \in Nat /\ HeadSlices \in Nat \ {0} /\ rows[f] \subseteq 1..CheckSlices[f]
  BY FilesAre DEF EnvOK
<1>2. Cardinality(rows[f]) \in Nat
  <2>1. IsFiniteSet(1..CheckSlices[f])
    BY <1>1, FS_Interval
  <2> QED BY <1>1, <2>1, FS_Subset, FS_CardinalityType
<1>3. Check!Checked(f) = IF Check!Dense(f) THEN 1..CheckSlices[f] ELSE rows[f]
  BY <1>1, <1>2, Plain DEF Check!Checked, Check!Dense
<1>4. Check!HeadPlaces(f) \subseteq 1..CheckSlices[f]
  <2>1. Min({HeadSlices, CheckSlices[f]}) <= CheckSlices[f] /\ Min({HeadSlices, CheckSlices[f]}) \in Nat
    BY <1>1, MinOfTwo
  <2> QED BY <1>1, <2>1, Plain DEF Check!HeadPlaces
<1>5. ~Check!Dense(f) => CheckSlices[f] # 0
  BY <1>1, <1>2 DEF Check!Dense
<1> QED BY <1>1, <1>3, <1>4, <1>5

\* What a task finds is true of its file.
LEMMA VerdictIsTrue ==
  ASSUME EnvOK, NEW f \in Check!Files, Check!Sized(f), NEW t \in Check!TaskSet(f)
  PROVE  Check!Verdict(f, t[2], t[3]) \in {Check!None} \cup Check!Wrongs(f) /\ Check!Verdict(f, t[2], t[3]) \in Errors
<1> DEFINE v == Check!Verdict(f, t[2], t[3])
<1>0. f \in paths /\ written[f] # Locked /\ Len(written[f]) = CheckSlices[f]
  BY DEF Check!Sized, Check!Opened
<1>1. \/ Check!Dense(f) /\ t[2] \in 1..CheckSlices[f] /\ t[3] \in 1..CheckSlices[f]
      \/ ~Check!Dense(f) /\ t[2] = 0 /\ t[3] = 0
      \/ ~Check!Dense(f) /\ t[2] = t[3] /\ t[2] \in rows[f]
  <2>1. CASE Check!Dense(f)
    BY <2>1, WindowsCover, Plain DEF Check!TaskSet
  <2>2. CASE ~Check!Dense(f)
    <3>1. rows[f] \subseteq 1..CheckSlices[f]
      BY DEF EnvOK
    <3>2. t \in {<<f, 0, 0>>} \cup {<<f, p, p>> : p \in rows[f]}
      BY <2>2, <3>1, SlicesListed, Plain DEF Check!TaskSet
    <3> QED BY <2>2, <3>2
  <2> QED BY <2>1, <2>2
<1>2. /\ CheckSlices[f] \in Nat /\ rows[f] \subseteq 1..CheckSlices[f]
      /\ Check!Checked(f) = IF Check!Dense(f) THEN 1..CheckSlices[f] ELSE rows[f]
  BY FilesAre, CheckedAre DEF EnvOK
<1>3. t[2] \in Nat /\ t[3] \in Nat /\ (t[3] # 0 => t[2]..t[3] \subseteq Check!Checked(f))
  BY <1>1, <1>2
<1>4. v = "read" => \E p \in Check!Checked(f) \cup Check!HeadPlaces(f) : <<f, p>> \in unread
  BY <1>3 DEF Check!Verdict, Check!None
<1>5. v = "16k" => Check!HeadWrong(f)
  BY DEF Check!Verdict, Check!None
<1>6. v = "slice" => \E p \in Check!Checked(f) : written[f][p] # Whole
  BY <1>3 DEF Check!Verdict, Check!None
<1>7. v \in {Check!None, "read", "16k", "slice"}
  BY DEF Check!Verdict
<1> HIDE DEF v
<1>8. v \in {Check!None} \cup Check!Wrongs(f)
  BY <1>0, <1>4, <1>5, <1>6, <1>7 DEF Check!Wrongs
<1>9. v \in Errors
  BY <1>7 DEF Errors
<1> QED BY <1>8, <1>9 DEF v

\* A task over a place that is wrong finds something.
LEMMA WrongPlaceShows ==
  ASSUME NEW f \in Check!Files, NEW first \in Nat, NEW last \in Nat, last # 0, NEW p \in first..last,
         written[f][p] # Whole \/ <<f, p>> \in unread
  PROVE  Check!Verdict(f, first, last) # Check!None
BY DEF Check!Verdict, Check!None

\* When no task found anything, nothing is wrong but a misdescribed empty file.
LEMMA NothingWrongIsMissed ==
  ASSUME EnvOK, NEW f \in Check!Files, Check!Sized(f), \A t \in Check!TaskSet(f) : Check!Verdict(f, t[2], t[3]) = Check!None
  PROVE  Check!Wrongs(f) = IF f \in misdescribed THEN {"16k"} ELSE {}
<1>0. f \in paths /\ written[f] # Locked /\ Len(written[f]) = CheckSlices[f]
  BY DEF Check!Sized, Check!Opened
<1>1. /\ CheckSlices[f] \in Nat /\ rows[f] \subseteq 1..CheckSlices[f]
      /\ Check!Checked(f) = IF Check!Dense(f) THEN 1..CheckSlices[f] ELSE rows[f]
      /\ Check!Checked(f) \subseteq 1..CheckSlices[f] /\ Check!HeadPlaces(f) \subseteq 1..CheckSlices[f]
  BY FilesAre, CheckedAre DEF EnvOK
<1>2. \A p \in Check!Checked(f) : written[f][p] = Whole /\ <<f, p>> \notin unread
  <2> SUFFICES ASSUME NEW p \in Check!Checked(f), written[f][p] # Whole \/ <<f, p>> \in unread PROVE FALSE
    OBVIOUS
  <2>1. CASE Check!Dense(f)
    <3>1. PICK t \in ToSet(Check!WindowTasks(f)) : p \in t[2]..t[3] /\ t[2] \in 1..CheckSlices[f] /\ t[3] \in 1..CheckSlices[f]
      BY <1>1, <2>1, WindowsCover
    <3>2. t[2] \in Nat /\ t[3] \in Nat /\ t[3] # 0
      BY <1>1, <3>1
    <3>3. Check!Verdict(f, t[2], t[3]) # Check!None
      BY <3>1, <3>2, WrongPlaceShows
    <3> QED BY <2>1, <3>1, <3>3, Plain DEF Check!TaskSet
  <2>2. CASE ~Check!Dense(f)
    <3>1. p \in rows[f] /\ p \in Nat /\ p # 0 /\ p \in p..p
      BY <1>1, <2>2
    <3>2. <<f, p, p>> \in Check!TaskSet(f)
      BY <1>1, <2>2, <3>1, SlicesListed, Plain DEF Check!TaskSet
    <3>3. Check!Verdict(f, p, p) # Check!None
      BY <3>1, WrongPlaceShows
    <3>4. Check!Verdict(f, <<f, p, p>>[2], <<f, p, p>>[3]) = Check!None
      BY <3>2
    <3> QED BY <3>3, <3>4
  <2> QED BY <2>1, <2>2
<1>3. Check!HeadPlaces(f) # {} => ~Check!HeadWrong(f) /\ \A p \in Check!HeadPlaces(f) : <<f, p>> \notin unread
  <2> SUFFICES ASSUME Check!HeadPlaces(f) # {}
               PROVE  ~Check!HeadWrong(f) /\ \A p \in Check!HeadPlaces(f) : <<f, p>> \notin unread
    OBVIOUS
  <2>1. CASE Check!Dense(f)
    <3>1. 1 \in 1..CheckSlices[f]
      BY <1>1
    <3>2. PICK t \in ToSet(Check!WindowTasks(f)) : 1 \in t[2]..t[3] /\ t[2] \in 1..CheckSlices[f] /\ t[3] \in 1..CheckSlices[f]
      BY <3>1, WindowsCover
    <3>3. t[2] <= 1 /\ t[3] # 0
      BY <1>1, <3>2
    <3>4. Check!Verdict(f, t[2], t[3]) = Check!None
      BY <2>1, <3>2, Plain DEF Check!TaskSet
    <3>5. ~Check!HeadWrong(f)
      BY <2>1, <3>3, <3>4 DEF Check!Verdict, Check!None
    <3>6. \A p \in Check!HeadPlaces(f) : <<f, p>> \notin unread
      BY <1>1, <1>2, <2>1
    <3> QED BY <3>5, <3>6
  <2>2. CASE ~Check!Dense(f)
    <3>1. <<f, 0, 0>> \in Check!TaskSet(f)
      BY <1>1, <2>2, SlicesListed, Plain DEF Check!TaskSet
    <3>2. Check!Verdict(f, <<f, 0, 0>>[2], <<f, 0, 0>>[3]) = Check!None
      BY <3>1
    <3>3. Check!Verdict(f, 0, 0) = Check!None
      BY <3>2
    <3> QED BY <3>3 DEF Check!Verdict, Check!None
  <2> QED BY <2>1, <2>2
<1>4. ~Check!HeadWrong(f) /\ \A p \in Check!HeadPlaces(f) : <<f, p>> \notin unread
  BY <1>3 DEF Check!HeadWrong
<1> QED BY <1>0, <1>2, <1>4 DEF Check!Wrongs

-----------------------------------------------------------------------------
\* The files stay as they are while they are checked.
LEMMA EnvKept ==
  ASSUME UNCHANGED Check!env
  PROVE  /\ EnvOK' <=> EnvOK
         /\ \A f \in Check!Files : /\ Check!Opened(f)' <=> Check!Opened(f)
                                   /\ Check!Sized(f)' <=> Check!Sized(f)
                                   /\ Check!Dense(f)' <=> Check!Dense(f)
                                   /\ Check!TaskSet(f)' = Check!TaskSet(f)
                                   /\ Check!Wrongs(f)' = Check!Wrongs(f)
                                   /\ \A a, b : Check!Verdict(f, a, b)' = Check!Verdict(f, a, b)
<1> USE DEF Check!env
<1>1. EnvOK' <=> EnvOK
  BY DEF EnvOK
<1> SUFFICES ASSUME NEW f \in Check!Files
             PROVE  /\ Check!Opened(f)' <=> Check!Opened(f)
                    /\ Check!Sized(f)' <=> Check!Sized(f)
                    /\ Check!Dense(f)' <=> Check!Dense(f)
                    /\ Check!TaskSet(f)' = Check!TaskSet(f)
                    /\ Check!Wrongs(f)' = Check!Wrongs(f)
                    /\ \A a, b : Check!Verdict(f, a, b)' = Check!Verdict(f, a, b)
  BY <1>1
<1>2. Check!Opened(f)' <=> Check!Opened(f)
  BY DEF Check!Opened
<1>3. Check!Sized(f)' <=> Check!Sized(f)
  BY <1>2 DEF Check!Sized
<1>4. Check!Dense(f)' <=> Check!Dense(f)
  BY DEF Check!Dense
<1>5. Check!TaskSet(f)' = Check!TaskSet(f)
  BY DEF Check!TaskSet, Check!Dense, Check!SliceTasks, Check!SliceTasksOnly
<1>6. Check!HeadWrong(f)' <=> Check!HeadWrong(f)
  BY DEF Check!HeadWrong, Check!HeadPlaces
<1>7. Check!Wrongs(f)' = Check!Wrongs(f)
  BY <1>6 DEF Check!Wrongs, Check!Checked
<1>8. \A a, b : Check!Verdict(f, a, b)' = Check!Verdict(f, a, b)
  BY <1>4, <1>6 DEF Check!Verdict
<1> QED BY <1>2, <1>3, <1>4, <1>5, <1>7, <1>8

\* What is still to be done goes from the channel to a worker.
LEMMA TailHeld ==
  ASSUME NEW s \in Seq(TaskPlaces), s # <<>>
  PROVE  Head(s) \in TaskPlaces /\ Tail(s) \in Seq(TaskPlaces) /\ ToSet(s) = {Head(s)} \cup ToSet(Tail(s))
<1>1. /\ Len(s) \in Nat \ {0} /\ DOMAIN s = 1..Len(s) /\ Head(s) = s[1] /\ Head(s) \in TaskPlaces
      /\ Tail(s) \in Seq(TaskPlaces) /\ Len(Tail(s)) = Len(s) - 1 /\ DOMAIN Tail(s) = 1..(Len(s) - 1)
      /\ \A h \in 1..(Len(s) - 1) : Tail(s)[h] = s[h + 1]
  OBVIOUS
<1>2. ASSUME NEW h \in DOMAIN s PROVE s[h] \in {Head(s)} \cup ToSet(Tail(s))
  <2>1. CASE h = 1
    BY <1>1, <2>1
  <2>2. CASE h # 1
    <3>1. h - 1 \in 1..(Len(s) - 1) /\ Tail(s)[h - 1] = s[h]
      BY <1>1, <2>2
    <3> QED BY <1>1, <3>1 DEF ToSet
  <2> QED BY <2>1, <2>2
<1>3. ASSUME NEW h \in DOMAIN Tail(s) PROVE Tail(s)[h] \in ToSet(s)
  <2>1. h + 1 \in DOMAIN s /\ Tail(s)[h] = s[h + 1]
    BY <1>1
  <2> QED BY <2>1 DEF ToSet
<1>4. Head(s) \in ToSet(s)
  BY <1>1 DEF ToSet
<1> QED BY <1>1, <1>2, <1>3, <1>4 DEF ToSet

\* The tasks of some files, one file after the other.
LEMMA TasksOfAre ==
  ASSUME NEW S, NEW tasks, \A f \in Check!Files : tasks[f] \in Seq(TaskPlaces)
  PROVE  /\ Check!TasksOf(S, tasks) \in Seq(TaskPlaces)
         /\ ToSet(Check!TasksOf(S, tasks)) = UNION {ToSet(tasks[f]) : f \in Check!Files \cap S}
<1> DEFINE ss == [f \in Check!Files |-> IF f \in S THEN tasks[f] ELSE <<>>]
<1>1. ss \in Seq(Seq(TaskPlaces)) /\ DOMAIN ss = Check!Files
  <2>1. \A f \in Check!Files : ss[f] \in Seq(TaskPlaces)
    OBVIOUS
  <2> HIDE DEF ss
  <2>2. DOMAIN ss = Check!Files /\ ss = [f \in Check!Files |-> ss[f]]
    BY DEF ss
  <2> QED BY <2>1, <2>2, FilesAre
<1>2. Check!TasksOf(S, tasks) = FlattenSeq(ss)
  BY Plain DEF Check!TasksOf
<1>3. ToSet(<<>>) = {}
  BY DEF ToSet
<1>4. UNION {ToSet(ss[f]) : f \in Check!Files} = UNION {ToSet(tasks[f]) : f \in Check!Files \cap S}
  BY <1>3
<1> HIDE DEF ss
<1> QED BY <1>1, <1>2, <1>4, Flattened

-----------------------------------------------------------------------------
\* Before a file is opened nothing is known of any.
LEMMA CheckInit == Check!Init => CheckInv
<1> SUFFICES ASSUME Check!Init PROVE CheckInv
  OBVIOUS
<1>1. EnvOK
  <2>1. PICK r \in CheckRows : rows = [f \in Check!Files |-> IF f \in paths THEN r[f] ELSE {}]
    BY DEF Check!Init
  <2>2. \A f \in Check!Files : rows[f] \subseteq 1..CheckSlices[f]
    BY <2>1, WrittenAssumption DEF Check!CheckAssumption, Check!Files
  <2> QED BY <2>2 DEF Check!Init, EnvOK
<1>2. CheckTypeOK
  BY <1>1 DEF Check!Init, CheckTypeOK, Errors
<1>3. Check!Quiet /\ Check!Outstanding = {}
  BY Plain DEF Check!Init, Check!Quiet, Check!Outstanding, ToSet
<1> QED BY <1>2, <1>3 DEF Check!Init, CheckInv, Check!ErrorsAreTrue, Check!NothingIsMissed, Check!TasksAreOfFiles, Check!ChecksDecide

\* Opening the files tells which of them are to be read, and how.
LEMMA OpenInv == ASSUME CheckInv, Check!Open PROVE CheckInv'
<1> DEFINE S == {f \in Check!Files : Check!Sized(f) /\ Check!Dense(f)}
           all == [f \in Check!Files |-> Check!WindowTasks(f)]
<1>1. /\ checkPc = "open" /\ checkPc' = "windows" /\ UNCHANGED Check!env /\ checkWork' = checkWork
      /\ checkErrs' = [f \in Check!Files |-> CASE f \in paths /\ ~Check!Opened(f) -> "open"
                                    [] Check!Opened(f) /\ ~Check!Sized(f) -> "size"
                                    [] OTHER -> Check!None]
      /\ checkTodo' = Check!TasksOf(S, all)
  BY DEF Check!Open
<1>2. EnvOK /\ EnvOK' /\ Check!Quiet
  BY <1>1, EnvKept DEF CheckInv, CheckTypeOK, Check!TasksAreOfFiles
<1>3. \A f \in Check!Files : all[f] = Check!WindowTasks(f) /\ all[f] \in Seq(TaskPlaces)
  BY <1>2, TasksAre
<1> HIDE DEF all
<1>4. checkTodo' \in Seq(TaskPlaces) /\ ToSet(checkTodo') = UNION {ToSet(all[f]) : f \in Check!Files \cap S}
  BY <1>1, <1>3, TasksOfAre
<1>5. Check!Outstanding' = ToSet(checkTodo')
  BY <1>1, <1>2, Plain DEF Check!Outstanding, Check!Quiet
<1>6. \A f \in Check!Files : checkErrs'[f] = IF f \in paths /\ ~Check!Opened(f) THEN "open"
                                  ELSE IF Check!Opened(f) /\ ~Check!Sized(f) THEN "size" ELSE Check!None
  BY <1>1
<1>7. CheckTypeOK'
  <2>1. checkErrs' \in [Check!Files -> Errors]
    BY <1>1 DEF Errors
  <2> QED BY <1>1, <1>2, <1>4, <2>1 DEF CheckInv, CheckTypeOK
<1>8. Check!ErrorsAreTrue'
  <2> SUFFICES ASSUME NEW f \in Check!Files
               PROVE  IF ~Check!Sized(f) THEN IF Check!Wrongs(f) = {} THEN checkErrs'[f] = Check!None
                                              ELSE checkErrs'[f] \in Check!Wrongs(f)
                      ELSE checkErrs'[f] \in {Check!None} \cup Check!Wrongs(f)
    BY <1>1, EnvKept DEF Check!ErrorsAreTrue
  <2> QED BY <1>6 DEF Check!Wrongs, Check!Sized, Check!Opened
<1>9. Check!NothingIsMissed'
  <2> SUFFICES ASSUME NEW f \in Check!Files, Check!Sized(f), Check!Dense(f), NEW t \in Check!TaskSet(f)
               PROVE  t \in Check!Outstanding'
    BY <1>1, EnvKept DEF Check!NothingIsMissed
  <2>1. f \in Check!Files \cap S /\ t \in ToSet(all[f])
    BY <1>3, Plain DEF Check!TaskSet
  <2> QED BY <1>4, <1>5, <2>1
<1>10. Check!TasksAreOfFiles'
  <2> SUFFICES ASSUME NEW t \in Check!Outstanding'
               PROVE  t[1] \in Check!Files /\ Check!Sized(t[1]) /\ t \in Check!TaskSet(t[1])
    <3>1. \A f \in Check!Files : (Check!Sized(f)' <=> Check!Sized(f)) /\ Check!TaskSet(f)' = Check!TaskSet(f)
      BY <1>1, EnvKept
    <3>2. checkPc' \notin {"open", "done"}
      BY <1>1
    <3>3. ASSUME NEW t \in Check!Outstanding', t[1] \in Check!Files, Check!Sized(t[1]), t \in Check!TaskSet(t[1])
          PROVE  Check!Sized(t[1])' /\ t \in Check!TaskSet(t[1])'
      BY <3>1, <3>3
    <3> QED BY <3>2, <3>3 DEF Check!TasksAreOfFiles
  <2>1. PICK f \in Check!Files \cap S : t \in ToSet(all[f])
    BY <1>4, <1>5
  <2>2. t \in Check!TaskSet(f)
    BY <1>3, <2>1, Plain DEF Check!TaskSet
  <2>3. t[1] = f
    BY <1>2, <2>2, TasksAre
  <2> QED BY <2>1, <2>2, <2>3
<1>11. Check!ChecksDecide'
  BY <1>1 DEF Check!ChecksDecide
<1> QED BY <1>7, <1>8, <1>9, <1>10, <1>11 DEF CheckInv

\* What a step keeps when no file is opened and no error changes: the rest is about the tasks.
LEMMA SameErrors ==
  ASSUME CheckInv, UNCHANGED Check!env, checkPc # "open", checkPc' = checkPc, checkErrs' = checkErrs, CheckTypeOK',
         Check!Outstanding' \subseteq Check!Outstanding,
         \A t \in Check!Outstanding \ Check!Outstanding' : checkErrs[t[1]] # Check!None,
         checkPc = "done" => Check!Quiet'
  PROVE  CheckInv'
<1>1. Check!ErrorsAreTrue'
  <2> SUFFICES ASSUME NEW f \in Check!Files
               PROVE  IF ~Check!Sized(f) THEN IF Check!Wrongs(f) = {} THEN checkErrs[f] = Check!None
                                              ELSE checkErrs[f] \in Check!Wrongs(f)
                      ELSE checkErrs[f] \in {Check!None} \cup Check!Wrongs(f)
    BY EnvKept DEF Check!ErrorsAreTrue
  <2> QED BY DEF CheckInv, Check!ErrorsAreTrue
<1>2. Check!NothingIsMissed'
  <2> SUFFICES ASSUME NEW f \in Check!Files, Check!Sized(f), Check!Dense(f) \/ checkPc # "windows", checkErrs[f] = Check!None, NEW t \in Check!TaskSet(f)
               PROVE  t \in Check!Outstanding' \/ Check!Verdict(f, t[2], t[3]) = Check!None
    BY EnvKept DEF Check!NothingIsMissed
  <2>1. t \in Check!Outstanding \/ Check!Verdict(f, t[2], t[3]) = Check!None
    BY DEF CheckInv, Check!NothingIsMissed
  <2>2. t[1] = f
    BY TasksAre DEF CheckInv, CheckTypeOK
  <2> QED BY <2>1, <2>2
<1>3. Check!TasksAreOfFiles'
  <2>1. \A t \in Check!Outstanding' : t[1] \in Check!Files /\ Check!Sized(t[1]) /\ t \in Check!TaskSet(t[1])
    BY DEF CheckInv, Check!TasksAreOfFiles, Check!Sized, Check!Opened, CheckTypeOK, EnvOK
  <2>2. \A t \in Check!Outstanding' : Check!Sized(t[1])' /\ t \in Check!TaskSet(t[1])'
    BY <2>1, EnvKept
  <2> QED BY <2>2 DEF Check!TasksAreOfFiles, CheckInv
<1>4. Check!ChecksDecide'
  <2> SUFFICES ASSUME checkPc = "done", NEW f \in Check!Files
               PROVE  IF Check!Wrongs(f) = {} THEN checkErrs[f] = Check!None
                      ELSE checkErrs[f] \in Check!Wrongs(f)
    BY EnvKept DEF Check!ChecksDecide
  <2> QED BY DEF CheckInv, Check!ChecksDecide
<1> QED BY <1>1, <1>2, <1>3, <1>4 DEF CheckInv

\* A worker that takes a task keeps it outstanding.
LEMMA ReceiveInv == ASSUME CheckInv, NEW w \in Workers, Check!Receive(w) PROVE CheckInv'
<1>1. /\ checkPc \in {"windows", "slices"} /\ checkTodo # <<>> /\ checkWork[w] = <<>>
      /\ checkWork' = [checkWork EXCEPT ![w] = <<"received", Head(checkTodo)>>] /\ checkTodo' = Tail(checkTodo)
      /\ UNCHANGED Check!env /\ checkPc' = checkPc /\ checkErrs' = checkErrs
  BY DEF Check!Receive
<1>2. /\ checkTodo \in Seq(TaskPlaces)
      /\ checkWork \in [Workers -> {<<>>} \cup ({"received", "reading"} \X TaskPlaces)]
  BY DEF CheckInv, CheckTypeOK
<1>3. /\ Head(checkTodo) \in TaskPlaces /\ Tail(checkTodo) \in Seq(TaskPlaces)
      /\ ToSet(checkTodo) = {Head(checkTodo)} \cup ToSet(Tail(checkTodo))
  BY <1>1, <1>2, TailHeld
<1>4. CheckTypeOK'
  <2>1. <<"received", Head(checkTodo)>> \in {"received", "reading"} \X TaskPlaces
    BY <1>3
  <2>2. checkWork' \in [Workers -> {<<>>} \cup ({"received", "reading"} \X TaskPlaces)]
    BY <1>1, <1>2, <2>1
  <2> QED BY <1>1, <1>3, <2>2, EnvKept DEF CheckInv, CheckTypeOK
<1>5. Check!Outstanding' = Check!Outstanding
  <2>1. checkWork'[w] = <<"received", Head(checkTodo)>> /\ checkWork'[w] # <<>> /\ checkWork'[w][2] = Head(checkTodo)
    BY <1>1, <1>2
  <2>2. \A v \in Workers : v # w => checkWork'[v] = checkWork[v]
    BY <1>1, <1>2
  <2>3. {checkWork'[v][2] : v \in {u \in Workers : checkWork'[u] # <<>>}}
          = {Head(checkTodo)} \cup {checkWork[v][2] : v \in {u \in Workers : checkWork[u] # <<>>}}
    BY <1>1, <2>1, <2>2
  <2> QED BY <1>1, <1>3, <2>3, Plain DEF Check!Outstanding
<1> QED BY <1>1, <1>4, <1>5, SameErrors

\* A window is given up only when its file has an error already.
LEMMA LookInv == ASSUME CheckInv, NEW w \in Workers, Check!Look(w) PROVE CheckInv'
<1> DEFINE task == checkWork[w][2]
<1>1. /\ checkWork[w] # <<>>
      /\ UNCHANGED Check!env
      /\ checkPc' = checkPc
      /\ checkTodo' = checkTodo
      /\ checkErrs' = checkErrs
      /\ checkWork' = [checkWork EXCEPT ![w] = IF checkPc = "windows" /\ checkErrs[task[1]] # Check!None THEN <<>> ELSE <<"reading", task>>]
  BY DEF Check!Look
<1>2. checkWork \in [Workers -> {<<>>} \cup ({"received", "reading"} \X TaskPlaces)]
  BY DEF CheckInv, CheckTypeOK
<1>3. task \in TaskPlaces
  BY <1>1, <1>2
<1>4. \A v \in Workers : v # w => checkWork'[v] = checkWork[v]
  BY <1>1, <1>2
<1>5. checkPc # "open" /\ checkPc # "done"
  BY <1>1 DEF CheckInv, Check!TasksAreOfFiles, Check!Quiet
<1> HIDE DEF task
<1>6. CheckTypeOK'
  <2>1. checkWork' \in [Workers -> {<<>>} \cup ({"received", "reading"} \X TaskPlaces)]
    BY <1>1, <1>2, <1>3
  <2> QED BY <1>1, <2>1, EnvKept DEF CheckInv, CheckTypeOK
<1>7. CASE checkPc = "windows" /\ checkErrs[task[1]] # Check!None
  <2>1. checkWork'[w] = <<>>
    BY <1>1, <1>2, <1>7
  <2>2. Check!Outstanding' \subseteq Check!Outstanding
    BY <1>1, <1>4, <2>1 DEF Check!Outstanding
  <2>3. \A t \in Check!Outstanding : t \in Check!Outstanding' \/ t = task
    BY <1>1, <1>4 DEF Check!Outstanding, task
  <2>4. \A t \in Check!Outstanding \ Check!Outstanding' : checkErrs[t[1]] # Check!None
    BY <1>7, <2>3
  <2> QED BY <1>1, <1>5, <1>6, <2>2, <2>4, SameErrors
<1>8. CASE ~(checkPc = "windows" /\ checkErrs[task[1]] # Check!None)
  <2>1. checkWork'[w] = <<"reading", task>> /\ checkWork'[w] # <<>> /\ checkWork'[w][2] = checkWork[w][2]
    BY <1>1, <1>2, <1>8 DEF task
  <2>2. Check!Outstanding' = Check!Outstanding
    BY <1>1, <1>4, <2>1 DEF Check!Outstanding
  <2> QED BY <1>1, <1>5, <1>6, <2>2, SameErrors
<1> QED BY <1>7, <1>8

\* What a worker finds is kept, unless its file has an error already.
LEMMA CompareInv == ASSUME CheckInv, NEW w \in Workers, Check!Compare(w) PROVE CheckInv'
<1> DEFINE task == checkWork[w][2]
           g == task[1]
           err == Check!Verdict(task[1], task[2], task[3])
<1>1. /\ checkWork[w] # <<>> /\ checkWork' = [checkWork EXCEPT ![w] = <<>>] /\ UNCHANGED Check!env /\ checkPc' = checkPc /\ checkTodo' = checkTodo
      /\ checkErrs' = IF err = Check!None THEN checkErrs ELSE [checkErrs EXCEPT ![g] = IF @ = Check!None THEN err ELSE @]
  BY DEF Check!Compare, Check!Keeps
<1>2. /\ checkWork \in [Workers -> {<<>>} \cup ({"received", "reading"} \X TaskPlaces)] /\ EnvOK
      /\ checkErrs \in [Check!Files -> Errors]
  BY DEF CheckInv, CheckTypeOK
<1>3. task \in TaskPlaces /\ task \in Check!Outstanding
  BY <1>1, <1>2 DEF Check!Outstanding
<1>4. g \in Check!Files /\ Check!Sized(g) /\ task \in Check!TaskSet(g)
  BY <1>3 DEF CheckInv, Check!TasksAreOfFiles, TaskPlaces
<1>5. err \in {Check!None} \cup Check!Wrongs(g) /\ err \in Errors
  <2> HIDE DEF task
  <2>1. err = Check!Verdict(g, task[2], task[3])
    OBVIOUS
  <2> HIDE DEF err, g
  <2> QED BY <1>2, <1>4, <2>1, VerdictIsTrue
<1>6. checkPc # "open" /\ checkPc # "done"
  BY <1>1 DEF CheckInv, Check!TasksAreOfFiles, Check!Quiet
<1>7. \A v \in Workers : v # w => checkWork'[v] = checkWork[v]
  BY <1>1, <1>2
<1>8. checkWork'[w] = <<>>
  BY <1>1, <1>2
<1>9. /\ Check!Outstanding' \subseteq Check!Outstanding
      /\ \A t \in Check!Outstanding : t \in Check!Outstanding' \/ t = task
  BY <1>1, <1>7, <1>8 DEF Check!Outstanding
<1>10. err = Check!Verdict(g, task[2], task[3])
  OBVIOUS
<1> HIDE DEF task, g, err
<1>11. /\ checkErrs' \in [Check!Files -> Errors]
       /\ \A f \in Check!Files : checkErrs'[f] = checkErrs[f] \/ (f = g /\ checkErrs[f] = Check!None /\ checkErrs'[f] = err)
       /\ checkErrs'[g] = Check!None => err = Check!None
       /\ \A f \in Check!Files : checkErrs'[f] = Check!None => checkErrs[f] = Check!None
  BY <1>1, <1>2, <1>4, <1>5
<1>12. CheckTypeOK'
  <2>1. checkWork' \in [Workers -> {<<>>} \cup ({"received", "reading"} \X TaskPlaces)]
    BY <1>1, <1>2
  <2> QED BY <1>1, <1>11, <2>1, EnvKept DEF CheckInv, CheckTypeOK
<1>13. Check!ErrorsAreTrue'
  <2> SUFFICES ASSUME NEW f \in Check!Files
               PROVE  IF ~Check!Sized(f) THEN IF Check!Wrongs(f) = {} THEN checkErrs'[f] = Check!None
                                              ELSE checkErrs'[f] \in Check!Wrongs(f)
                      ELSE checkErrs'[f] \in {Check!None} \cup Check!Wrongs(f)
    BY <1>1, EnvKept DEF Check!ErrorsAreTrue
  <2> QED BY <1>4, <1>5, <1>6, <1>11 DEF CheckInv, Check!ErrorsAreTrue
<1>14. Check!NothingIsMissed'
  <2> SUFFICES ASSUME NEW f \in Check!Files, Check!Sized(f), Check!Dense(f) \/ checkPc # "windows", checkErrs'[f] = Check!None, NEW t \in Check!TaskSet(f)
               PROVE  t \in Check!Outstanding' \/ Check!Verdict(f, t[2], t[3]) = Check!None
    BY <1>1, EnvKept DEF Check!NothingIsMissed
  <2>1. t \in Check!Outstanding \/ Check!Verdict(f, t[2], t[3]) = Check!None
    BY <1>6, <1>11 DEF CheckInv, Check!NothingIsMissed
  <2>2. t[1] = f
    BY <1>2, TasksAre
  <2>3. t = task => f = g
    BY <2>2 DEF g
  <2>4. t = task => Check!Verdict(f, t[2], t[3]) = Check!None
    BY <1>10, <1>11, <2>3
  <2> QED BY <1>9, <2>1, <2>4
<1>15. Check!TasksAreOfFiles'
  <2>1. \A t \in Check!Outstanding' : t[1] \in Check!Files /\ Check!Sized(t[1]) /\ t \in Check!TaskSet(t[1])
    BY <1>2, <1>9 DEF CheckInv, Check!TasksAreOfFiles, Check!Sized, Check!Opened, EnvOK
  <2>2. \A t \in Check!Outstanding' : Check!Sized(t[1])' /\ t \in Check!TaskSet(t[1])'
    BY <1>1, <2>1, EnvKept
  <2> QED BY <1>1, <1>6, <2>2 DEF Check!TasksAreOfFiles
<1>16. Check!ChecksDecide'
  BY <1>1, <1>6 DEF Check!ChecksDecide
<1> QED BY <1>12, <1>13, <1>14, <1>15, <1>16 DEF CheckInv

\* Once the windows are done, every other file without an error is checked slice by slice.
LEMMA StartSlicesInv == ASSUME CheckInv, Check!StartSlices PROVE CheckInv'
<1> DEFINE S == {f \in Check!Files : Check!Sized(f) /\ ~Check!Dense(f) /\ checkErrs[f] = Check!None}
           all == [f \in Check!Files |-> Check!SliceTasks(f)]
<1>1. /\ checkPc = "windows"
      /\ Check!Quiet
      /\ checkPc' = "slices"
      /\ UNCHANGED Check!env
      /\ checkWork' = checkWork
      /\ checkErrs' = checkErrs
      /\ checkTodo' = Check!TasksOf(S, all)
  BY DEF Check!StartSlices
<1>2. EnvOK /\ EnvOK' /\ Check!Outstanding = {}
  BY <1>1, EnvKept, Plain DEF CheckInv, CheckTypeOK, Check!Quiet, Check!Outstanding, ToSet
<1>3. \A f \in Check!Files : all[f] = Check!SliceTasks(f) /\ all[f] \in Seq(TaskPlaces)
  BY <1>2, TasksAre
<1> HIDE DEF all
<1>4. checkTodo' \in Seq(TaskPlaces) /\ ToSet(checkTodo') = UNION {ToSet(all[f]) : f \in Check!Files \cap S}
  BY <1>1, <1>3, TasksOfAre
<1>5. Check!Outstanding' = ToSet(checkTodo')
  BY <1>1, Plain DEF Check!Outstanding, Check!Quiet
<1>6. CheckTypeOK'
  BY <1>1, <1>2, <1>4 DEF CheckInv, CheckTypeOK
<1>7. Check!ErrorsAreTrue'
  <2> SUFFICES ASSUME NEW f \in Check!Files
               PROVE  IF ~Check!Sized(f) THEN IF Check!Wrongs(f) = {} THEN checkErrs[f] = Check!None
                                              ELSE checkErrs[f] \in Check!Wrongs(f)
                      ELSE checkErrs[f] \in {Check!None} \cup Check!Wrongs(f)
    BY <1>1, EnvKept DEF Check!ErrorsAreTrue
  <2> QED BY <1>1 DEF CheckInv, Check!ErrorsAreTrue
<1>8. Check!NothingIsMissed'
  <2> SUFFICES ASSUME NEW f \in Check!Files, Check!Sized(f), checkErrs[f] = Check!None, NEW t \in Check!TaskSet(f)
               PROVE  t \in Check!Outstanding' \/ Check!Verdict(f, t[2], t[3]) = Check!None
    BY <1>1, EnvKept DEF Check!NothingIsMissed
  <2>1. CASE Check!Dense(f)
    BY <1>1, <1>2, <2>1 DEF CheckInv, Check!NothingIsMissed
  <2>2. CASE ~Check!Dense(f)
    <3>1. f \in Check!Files \cap S /\ t \in ToSet(all[f])
      BY <1>3, <2>2, Plain DEF Check!TaskSet
    <3> QED BY <1>4, <1>5, <3>1
  <2> QED BY <2>1, <2>2
<1>9. Check!TasksAreOfFiles'
  <2>1. ASSUME NEW t \in Check!Outstanding'
        PROVE  t[1] \in Check!Files /\ Check!Sized(t[1]) /\ t \in Check!TaskSet(t[1])
    <3>1. PICK f \in Check!Files \cap S : t \in ToSet(all[f])
      BY <1>4, <1>5, <2>1
    <3>2. t \in Check!TaskSet(f)
      BY <1>3, <3>1, Plain DEF Check!TaskSet
    <3>3. t[1] = f
      BY <1>2, <3>2, TasksAre
    <3> QED BY <3>1, <3>2, <3>3
  <2>2. \A t \in Check!Outstanding' : Check!Sized(t[1])' /\ t \in Check!TaskSet(t[1])'
    BY <1>1, <2>1, EnvKept
  <2> QED BY <1>1, <2>2 DEF Check!TasksAreOfFiles
<1>10. Check!ChecksDecide'
  BY <1>1 DEF Check!ChecksDecide
<1> QED BY <1>6, <1>7, <1>8, <1>9, <1>10 DEF CheckInv

\* When both pools are done, what is wrong has been found, but for an empty file's hash.
LEMMA FinishInv == ASSUME CheckInv, Check!Finish PROVE CheckInv'
<1>1. /\ checkPc = "slices"
      /\ Check!Quiet
      /\ checkPc' = "done"
      /\ UNCHANGED Check!env
      /\ checkWork' = checkWork
      /\ checkTodo' = checkTodo
      /\ checkErrs' = [f \in Check!Files |-> IF Check!Sized(f) /\ CheckSlices[f] = 0 /\ checkErrs[f] = Check!None /\ f \in misdescribed
                                  THEN "16k" ELSE checkErrs[f]]
  BY DEF Check!Finish
<1>2. EnvOK /\ EnvOK' /\ Check!Outstanding = {} /\ Check!Outstanding' = {} /\ Check!Quiet'
  BY <1>1, EnvKept, Plain DEF CheckInv, CheckTypeOK, Check!Quiet, Check!Outstanding, ToSet
<1>3. CheckTypeOK'
  <2>1. checkErrs' \in [Check!Files -> Errors]
    BY <1>1 DEF CheckInv, CheckTypeOK, Errors
  <2> QED BY <1>1, <1>2, <2>1 DEF CheckInv, CheckTypeOK
<1>4. ASSUME NEW f \in Check!Files
      PROVE  IF Check!Wrongs(f) = {} THEN checkErrs'[f] = Check!None ELSE checkErrs'[f] \in Check!Wrongs(f)
  <2>1. CASE ~Check!Sized(f)
    BY <1>1, <2>1 DEF CheckInv, Check!ErrorsAreTrue
  <2>2. CASE Check!Sized(f) /\ checkErrs[f] # Check!None
    <3>1. checkErrs[f] \in Check!Wrongs(f) /\ checkErrs'[f] = checkErrs[f]
      BY <1>1, <2>2 DEF CheckInv, Check!ErrorsAreTrue
    <3> QED BY <3>1
  <2>3. CASE Check!Sized(f) /\ checkErrs[f] = Check!None
    <3>1. \A t \in Check!TaskSet(f) : Check!Verdict(f, t[2], t[3]) = Check!None
      BY <1>1, <1>2, <2>3 DEF CheckInv, Check!NothingIsMissed
    <3>2. Check!Wrongs(f) = IF f \in misdescribed THEN {"16k"} ELSE {}
      BY <1>2, <2>3, <3>1, NothingWrongIsMissed
    <3>3. f \in misdescribed => CheckSlices[f] = 0
      BY <1>2 DEF EnvOK
    <3>4. checkErrs'[f] = IF f \in misdescribed THEN "16k" ELSE Check!None
      BY <1>1, <2>3, <3>3
    <3> QED BY <3>2, <3>4
  <2> QED BY <2>1, <2>2, <2>3
<1>5. Check!ErrorsAreTrue' /\ Check!ChecksDecide'
  <2>1. \A f \in Check!Files : Check!Wrongs(f)' = Check!Wrongs(f)
    BY <1>1, EnvKept
  <2>2. \A f \in Check!Files : IF Check!Wrongs(f)' = {} THEN checkErrs'[f] = Check!None ELSE checkErrs'[f] \in Check!Wrongs(f)'
    BY <1>4, <2>1
  <2> QED BY <2>2 DEF Check!ErrorsAreTrue, Check!ChecksDecide
<1>6. Check!NothingIsMissed'
  <2> SUFFICES ASSUME NEW f \in Check!Files, Check!Sized(f), checkErrs'[f] = Check!None, NEW t \in Check!TaskSet(f)
               PROVE  Check!Verdict(f, t[2], t[3]) = Check!None
    BY <1>1, EnvKept DEF Check!NothingIsMissed
  <2>1. checkErrs[f] = Check!None
    BY <1>1 DEF CheckInv, CheckTypeOK
  <2> QED BY <1>1, <1>2, <2>1 DEF CheckInv, Check!NothingIsMissed
<1>7. Check!TasksAreOfFiles'
  BY <1>2 DEF Check!TasksAreOfFiles
<1> QED BY <1>3, <1>5, <1>6, <1>7 DEF CheckInv

-----------------------------------------------------------------------------
\* CheckInv is inductive.
LEMMA CheckStep == CheckInv /\ [Check!Next]_(Check!vars) => CheckInv'
<1> SUFFICES ASSUME CheckInv, [Check!Next]_(Check!vars) PROVE CheckInv'
  OBVIOUS
<1>1. CASE UNCHANGED Check!vars
  <2>1. UNCHANGED Check!env /\ UNCHANGED <<checkPc, checkTodo, checkWork, checkErrs>>
    BY <1>1 DEF Check!vars, Check!env
  <2>2. Check!Outstanding' = Check!Outstanding /\ (Check!Quiet' <=> Check!Quiet)
    BY <2>1 DEF Check!Outstanding, Check!Quiet
  <2>3. CheckTypeOK'
    BY <2>1, EnvKept DEF CheckInv, CheckTypeOK
  <2>4. CASE checkPc = "open"
    <3>1. \A t \in Check!Outstanding : FALSE
      BY <2>4, Plain DEF CheckInv, Check!TasksAreOfFiles, Check!Quiet, Check!Outstanding, ToSet
    <3> QED BY <2>1, <2>2, <2>3, <2>4, <3>1
            DEF CheckInv, Check!ErrorsAreTrue, Check!NothingIsMissed, Check!TasksAreOfFiles, Check!ChecksDecide
  <2>5. CASE checkPc # "open"
    <3>1. checkPc = "done" => Check!Quiet'
      BY <2>2 DEF CheckInv, Check!TasksAreOfFiles
    <3> QED BY <2>1, <2>2, <2>3, <2>5, <3>1, SameErrors
  <2> QED BY <2>4, <2>5
<1>2. ASSUME NEW w \in Workers, Check!Receive(w) \/ Check!Look(w) \/ Check!Compare(w) PROVE CheckInv'
  BY <1>2, ReceiveInv, LookInv, CompareInv
<1> QED BY <1>1, <1>2, OpenInv, StartSlicesInv, FinishInv DEF Check!Next

\* Whatever the schedule of the two pools, a written file passes its check exactly when nothing
\* Repair relies on is wrong with it, and fails with an error that is true of it
\* (windowscan.go:120-127).
THEOREM WrittenChecksDecide == Check!Spec => []ChecksDecide
<1>1. CheckInv => ChecksDecide
  BY DEF CheckInv, ChecksDecide
<1> QED BY <1>1, CheckInit, CheckStep, PTL DEF Check!Spec
===============================================================================
