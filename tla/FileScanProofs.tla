---------------------------- MODULE FileScanProofs ----------------------------
(***************************************************************************)
(* The misaligned search, proved for files, slices and windows of any size: *)
(* slices in place are found under every limit, and without a limit, or     *)
(* without the misaligned search, reading through windows is the same as    *)
(* searching the whole file.                                                *)
(***************************************************************************)
EXTENDS FileScan, SequenceLemmas

Scanners == [j : Nat, missed : BOOLEAN, slide : Nat, crc : Nat, hits : SUBSET Nat, misses : Nat]

\* What is true of the window and of the scanner in it.
ScanHolds ==
  /\ size \in Nat /\ searchLimit \in Nat /\ known \subseteq 0..(size - 1)
  /\ windowStart \in Nat /\ windowEnd \in Nat /\ windowStart <= windowEnd /\ windowEnd <= size
  /\ cursor \in Scanners /\ cursor.hits \subseteq 0..(size - 1)
  /\ cursor.missed => cursor.j = cursor.crc + 1 /\ cursor.slide < cursor.j
  /\ windowStart + cursor.slide <= size /\ windowStart + cursor.j <= size + SliceBytes
  /\ phase \in {"read", "scan", "done"}
  /\ phase = "read" => cursor = Fresh(cursor.hits, cursor.misses)
  /\ phase = "scan" => /\ windowEnd = size \/ windowEnd = windowStart + WindowBytes
                       /\ windowEnd # size => windowStart + cursor.j <= windowEnd
  /\ phase = "done" => windowStart + cursor.j >= size

\* The search goes from slice to slice as long as what is there is known, and within
\* a slice it has slid over nothing that is known in place.
InPlace == known \subseteq Aligned \/ Aligned \subseteq known
Between(a, b) == {p \in known \cap Aligned : a <= p /\ p < b}
Placed(c, start) ==
  /\ start % SliceBytes = 0
  /\ ~c.missed => c.j % SliceBytes = 0
  /\ c.missed => /\ known \subseteq Aligned
                 /\ c.slide % SliceBytes = 0
                 /\ Between(start + c.slide, start + c.j) = {}
  /\ c.hits = Between(0, start + c.j)
PlaceHolds ==
  InPlace =>
    /\ Placed(cursor, windowStart)
    /\ phase = "scan" /\ windowEnd # size => windowStart + cursor.j + SliceBytes <= windowEnd

USE ScanAssumption

-----------------------------------------------------------------------------
\* What a round of the scanner may do: find a slice, give up on one or slide a byte.
From(c) == IF c.missed THEN c.slide ELSE c.j
Found(c, start) == [j |-> c.j + SliceBytes, missed |-> FALSE, slide |-> c.slide, crc |-> c.j,
                    hits |-> c.hits \cup {start + c.j}, misses |-> c.misses]
GaveUp(c) == [j |-> From(c) + SliceBytes, missed |-> FALSE, slide |-> From(c), crc |-> c.j,
              hits |-> c.hits, misses |-> c.misses + 1]
Slid(c) == [j |-> c.j + 1, missed |-> TRUE, slide |-> From(c), crc |-> c.j,
            hits |-> c.hits, misses |-> c.misses + 1]

\* It does so by what the file holds there, not by where the window ends: the rolling
\* CRC is that of the slice at the cursor.
LEMMA AdvanceIs ==
  ASSUME NEW c \in Scanners, c.missed => c.j = c.crc + 1, NEW start \in Nat, NEW end \in Nat,
         end = size \/ start + c.j + SliceBytes <= end, searchLimit \in Nat
  PROVE  Advance(c, start, end) =
           IF start + c.j \in known THEN Found(c, start)
           ELSE IF searchLimit > 0 /\ c.j + 1 - From(c) >= searchLimit THEN GaveUp(c) ELSE Slid(c)
<1> DEFINE r == Rolled(c)
<1>1. r = [c EXCEPT !.crc = c.j]
  BY DEF Rolled, Scanners
<1>2. r \in Scanners /\ r.j = c.j /\ r.crc = c.j /\ r.missed = c.missed /\ r.slide = c.slide
      /\ r.hits = c.hits /\ r.misses = c.misses
  BY <1>1 DEF Scanners
<1> HIDE DEF r
<1>3. Shows(r, start, end) <=> start + c.j \in known
  BY <1>2 DEF Shows
<1>4. CASE start + c.j \in known
  <2>1. Advance(c, start, end) = Hit(r, start)
    BY <1>3, <1>4 DEF Advance, r
  <2> QED BY <1>2, <1>4, <2>1 DEF Hit, Found, Scanners
<1>5. CASE start + c.j \notin known
  <2> DEFINE d == IF r.missed THEN r ELSE [r EXCEPT !.slide = r.j]
  <2>1. Advance(c, start, end) = IF searchLimit > 0 /\ d.j + 1 - d.slide >= searchLimit THEN GiveUp(d) ELSE Slide(d)
    BY <1>3, <1>5 DEF Advance, r, Miss
  <2>2. d \in Scanners /\ d.j = c.j /\ d.crc = c.j /\ d.slide = From(c) /\ d.hits = c.hits /\ d.misses = c.misses
    BY <1>2 DEF Scanners, From
  <2> HIDE DEF d
  <2>3. d = [j |-> c.j, missed |-> d.missed, slide |-> From(c), crc |-> c.j, hits |-> c.hits, misses |-> c.misses]
    <3> HIDE DEF From
    <3> QED BY <2>2 DEF Scanners
  <2>4. GiveUp(d) = GaveUp(c) /\ Slide(d) = Slid(c)
    <3> HIDE DEF From
    <3>1. GiveUp(d) = [d EXCEPT !.j = From(c) + SliceBytes, !.missed = FALSE, !.misses = c.misses + 1]
      BY <2>2 DEF GiveUp
    <3>2. GiveUp(d) = GaveUp(c)
      BY <2>2, <3>1 DEF GaveUp, Scanners
    <3>3. Slide(d) = [d EXCEPT !.j = c.j + 1, !.missed = TRUE, !.misses = c.misses + 1]
      BY <2>2 DEF Slide
    <3>4. Slide(d) = Slid(c)
      BY <2>2, <3>3 DEF Slid, Scanners
    <3> QED BY <3>2, <3>4
  <2> QED BY <1>5, <2>1, <2>2, <2>4
<1> QED BY <1>4, <1>5

-----------------------------------------------------------------------------
\* Nothing is read yet.
LEMMA ScanInit == Init => ScanHolds /\ PlaceHolds
<1> SUFFICES ASSUME Init PROVE ScanHolds /\ PlaceHolds
  OBVIOUS
<1>1. /\ size \in Nat /\ searchLimit \in Nat /\ known \subseteq 0..(size - 1)
      /\ windowStart = 0 /\ windowEnd = 0 /\ phase = "read"
      /\ cursor = [j |-> 0, missed |-> FALSE, slide |-> 0, crc |-> 0, hits |-> {}, misses |-> 0]
  BY DEF Init, Fresh
<1>2. ScanHolds
  BY <1>1 DEF ScanHolds, Scanners, Fresh
<1>3. 0 % SliceBytes = 0
  OBVIOUS
<1>4. Between(0, 0) = {}
  BY DEF Between, Aligned
<1>5. PlaceHolds
  BY <1>1, <1>3, <1>4 DEF PlaceHolds, Placed
<1> QED BY <1>2, <1>5

\* A window is several slices long, and so are the numbers of bytes.
LEMMA WindowIs == WindowBytes \in Nat /\ WindowBytes % SliceBytes = 0 /\ SliceBytes + SliceBytes <= WindowBytes
<1>1. WindowBytes = SliceBytes * WindowSlices /\ WindowBytes \in Nat
  BY DEF WindowBytes
<1>2. SliceBytes * 2 <= SliceBytes * WindowSlices
  OBVIOUS
<1> QED BY <1>1, <1>2, Multiples

\* Where the scanner is in a window that it goes on with.
LEMMA CursorIsInside ==
  ASSUME ScanHolds, phase = "scan", cursor.j < Limit
  PROVE  /\ windowStart + cursor.j < size
         /\ windowEnd # size => windowStart + cursor.j + SliceBytes < windowEnd
         /\ From(cursor) \in Nat /\ From(cursor) <= cursor.j
         /\ cursor' = Advance(cursor, windowStart, windowEnd) =>
              \/ windowStart + cursor.j \in known /\ cursor' = Found(cursor, windowStart)
              \/ windowStart + cursor.j \notin known /\ cursor' \in {GaveUp(cursor), Slid(cursor)}
<1>1. /\ size \in Nat /\ windowStart \in Nat /\ windowEnd \in Nat /\ windowEnd <= size
      /\ cursor \in Scanners /\ cursor.j \in Nat /\ cursor.slide \in Nat /\ searchLimit \in Nat
      /\ (cursor.missed => cursor.j = cursor.crc + 1 /\ cursor.slide < cursor.j)
  BY DEF ScanHolds, Scanners
<1>2. /\ windowStart + cursor.j < size
      /\ windowEnd # size => windowStart + cursor.j + SliceBytes < windowEnd
  BY <1>1 DEF Limit
<1>3. From(cursor) \in Nat /\ From(cursor) <= cursor.j
  BY <1>1 DEF From
<1>4. Advance(cursor, windowStart, windowEnd) =
        IF windowStart + cursor.j \in known THEN Found(cursor, windowStart)
        ELSE IF searchLimit > 0 /\ cursor.j + 1 - From(cursor) >= searchLimit THEN GaveUp(cursor) ELSE Slid(cursor)
  BY <1>1, <1>2, AdvanceIs
<1> QED BY <1>2, <1>3, <1>4

\* The window and the scanner keep to the file.
LEMMA ScanIsTyped == ScanHolds /\ [Next]_vars => ScanHolds'
<1> SUFFICES ASSUME ScanHolds, [Next]_vars PROVE ScanHolds'
  OBVIOUS
<1>1. /\ size \in Nat /\ searchLimit \in Nat /\ known \subseteq 0..(size - 1)
      /\ windowStart \in Nat /\ windowEnd \in Nat /\ windowStart <= windowEnd /\ windowEnd <= size
      /\ cursor \in Scanners /\ cursor.hits \subseteq 0..(size - 1)
      /\ cursor.j \in Nat /\ cursor.slide \in Nat /\ cursor.misses \in Nat /\ cursor.hits \subseteq Nat
  BY DEF ScanHolds, Scanners
<1>2. CASE ReadWindow
  <2>1. cursor = [j |-> 0, missed |-> FALSE, slide |-> 0, crc |-> 0, hits |-> cursor.hits, misses |-> cursor.misses]
    BY <1>2 DEF ReadWindow, ScanHolds, Fresh
  <2>2. cursor.j = 0 /\ ~cursor.missed /\ cursor.slide = 0
    BY <2>1
  <2>3. /\ windowEnd' \in Nat /\ windowStart <= windowEnd' /\ windowEnd' <= size
        /\ windowEnd' = size \/ windowEnd' = windowStart + WindowBytes
        /\ windowEnd' = windowStart => windowStart = size
    BY <1>1, <1>2, WindowIs DEF ReadWindow, Filled
  <2>4. phase' \in {"scan", "done"} /\ (phase' = "done" => windowEnd' = windowStart)
    BY <1>2 DEF ReadWindow
  <2> QED BY <1>1, <1>2, <2>2, <2>3, <2>4 DEF ReadWindow, ScanHolds
<1>3. CASE ScanStep
  <2>1. /\ windowStart + cursor.j < size
        /\ windowEnd # size => windowStart + cursor.j + SliceBytes < windowEnd
        /\ From(cursor) \in Nat /\ From(cursor) <= cursor.j
        /\ \/ windowStart + cursor.j \in known /\ cursor' = Found(cursor, windowStart)
           \/ windowStart + cursor.j \notin known /\ cursor' \in {GaveUp(cursor), Slid(cursor)}
    BY <1>3, CursorIsInside DEF ScanStep
  <2>2. phase = "scan" /\ UNCHANGED <<size, known, searchLimit, windowStart, windowEnd, phase>>
    BY <1>3 DEF ScanStep
  <2> HIDE DEF From
  <2>3. /\ cursor' \in Scanners /\ cursor'.hits \subseteq 0..(size - 1)
        /\ cursor'.missed => cursor'.j = cursor'.crc + 1 /\ cursor'.slide < cursor'.j
        /\ windowStart + cursor'.slide <= size /\ windowStart + cursor'.j <= size + SliceBytes
        /\ windowEnd # size => windowStart + cursor'.j <= windowEnd
    <3>1. CASE cursor' = Found(cursor, windowStart) /\ windowStart + cursor.j \in known
      BY <1>1, <2>1, <3>1 DEF Found, Scanners, ScanHolds
    <3>2. CASE cursor' = GaveUp(cursor)
      BY <1>1, <2>1, <3>2 DEF GaveUp, Scanners
    <3>3. CASE cursor' = Slid(cursor)
      BY <1>1, <2>1, <3>3 DEF Slid, Scanners
    <3> QED BY <2>1, <3>1, <3>2, <3>3
  <2> QED BY <2>2, <2>3 DEF ScanHolds
<1>4. CASE EndWindow
  <2>1. CASE windowEnd >= size
    <3>1. windowStart + cursor.j >= size
      BY <1>1, <1>4, <2>1 DEF EndWindow, Limit
    <3> QED BY <1>4, <2>1, <3>1 DEF EndWindow, ScanHolds
  <2>2. CASE ~(windowEnd >= size)
    <3>1. phase = "scan" /\ phase' = "read" /\ windowStart' = windowStart + cursor.j
          /\ cursor' = [j |-> 0, missed |-> FALSE, slide |-> 0, crc |-> 0, hits |-> cursor.hits, misses |-> cursor.misses]
          /\ UNCHANGED <<size, known, searchLimit, windowEnd>>
      BY <1>4, <2>2 DEF EndWindow, Fresh, Carried
    <3>2. windowStart' \in Nat /\ windowStart' <= windowEnd /\ windowEnd <= size
      BY <1>1, <2>2, <3>1 DEF ScanHolds
    <3>3. cursor' \in Scanners /\ cursor'.hits = cursor.hits /\ cursor'.j = 0 /\ cursor'.slide = 0 /\ ~cursor'.missed
      BY <1>1, <3>1 DEF Scanners
    <3>4. cursor' = Fresh(cursor'.hits, cursor'.misses)
      BY <3>1 DEF Fresh
    <3> QED BY <1>1, <3>1, <3>2, <3>3, <3>4 DEF ScanHolds, Fresh
  <2> QED BY <2>1, <2>2
<1>5. CASE UNCHANGED vars
  BY <1>5 DEF vars, ScanHolds, Fresh
<1> QED BY <1>2, <1>3, <1>4, <1>5 DEF Next

\* Windows and slices end on slice boundaries, so that nothing known in place is
\* passed over.
LEMMA PlaceStep == ScanHolds /\ PlaceHolds /\ [Next]_vars => PlaceHolds'
<1> SUFFICES ASSUME ScanHolds, PlaceHolds, [Next]_vars, InPlace' PROVE PlaceHolds'
  BY DEF PlaceHolds
<1>1. /\ size \in Nat /\ known \subseteq 0..(size - 1)
      /\ windowStart \in Nat /\ windowEnd \in Nat /\ windowStart <= windowEnd /\ windowEnd <= size
      /\ cursor.j \in Nat /\ cursor.slide \in Nat /\ cursor \in Scanners
  BY DEF ScanHolds, Scanners
<1>2. UNCHANGED <<size, known>> /\ InPlace /\ \A c, start : Placed(c, start)' <=> Placed(c, start)
  BY DEF Next, ReadWindow, ScanStep, EndWindow, vars, InPlace, Placed, Between, Aligned
<1>3. /\ windowStart % SliceBytes = 0
      /\ ~cursor.missed => cursor.j % SliceBytes = 0
      /\ cursor.missed => /\ known \subseteq Aligned
                          /\ cursor.slide % SliceBytes = 0
                          /\ Between(windowStart + cursor.slide, windowStart + cursor.j) = {}
      /\ cursor.hits = Between(0, windowStart + cursor.j)
  BY <1>2 DEF PlaceHolds, Placed
<1>a. ASSUME Placed(cursor', windowStart'),
             phase' = "scan" /\ windowEnd' # size => windowStart' + cursor'.j + SliceBytes <= windowEnd'
      PROVE  PlaceHolds'
  <2>1. Placed(cursor, windowStart)'
    <3> HIDE DEF Placed
    <3> QED BY <1>2, <1>a
  <2> QED BY <1>2, <1>a, <2>1 DEF PlaceHolds
<1>4. CASE ReadWindow
  <2>1. cursor = [j |-> 0, missed |-> FALSE, slide |-> 0, crc |-> 0, hits |-> cursor.hits, misses |-> cursor.misses]
    BY <1>4 DEF ReadWindow, ScanHolds, Fresh
  <2>2. cursor.j = 0 /\ ~cursor.missed
    BY <2>1
  <2>3. windowEnd' # size => windowStart + SliceBytes <= windowEnd'
    BY <1>1, <1>4, WindowIs DEF ReadWindow, Filled
  <2>4. UNCHANGED <<size, windowStart, cursor>>
    BY <1>4 DEF ReadWindow
  <2>5. windowStart + cursor.j + SliceBytes = windowStart + SliceBytes
    BY <1>1, <2>2
  <2>6. Placed(cursor', windowStart')
    BY <1>2, <2>4 DEF PlaceHolds
  <2> QED BY <1>a, <2>3, <2>4, <2>5, <2>6
<1>5. CASE ScanStep
  <2> DEFINE pos == windowStart + cursor.j
             from == windowStart + From(cursor)
  <2>1. /\ pos \in Nat /\ pos < size /\ (windowEnd # size => pos + SliceBytes < windowEnd)
        /\ From(cursor) \in Nat /\ From(cursor) <= cursor.j /\ from \in Nat /\ from <= pos
        /\ \/ pos \in known /\ cursor' = Found(cursor, windowStart)
           \/ pos \notin known /\ cursor' \in {GaveUp(cursor), Slid(cursor)}
    BY <1>1, <1>5, CursorIsInside DEF ScanStep
  <2>2. phase = "scan" /\ UNCHANGED <<size, known, searchLimit, windowStart, windowEnd, phase>>
    BY <1>5 DEF ScanStep
  <2>3. windowEnd # size => windowEnd % SliceBytes = 0
    <3>1. windowEnd # size => windowEnd = windowStart + WindowBytes
      BY <2>2 DEF ScanHolds
    <3> QED BY <1>1, <1>3, <3>1, WindowIs, Boundaries
  <2>4. ASSUME NEW a \in Nat, a % SliceBytes = 0, a < windowEnd PROVE windowEnd # size => a + SliceBytes <= windowEnd
    BY <1>1, <2>3, <2>4, Boundaries
  <2>5. \A p \in Aligned : p \in Nat /\ p < size /\ p % SliceBytes = 0
    BY <1>1 DEF Aligned
  <2>6. \A p \in Nat : p < size /\ p % SliceBytes = 0 => p \in Aligned
    BY <1>1 DEF Aligned
  <2>7. SliceBytes % SliceBytes = 0
    <3>1. SliceBytes = SliceBytes * 1
      OBVIOUS
    <3> QED BY <3>1, Multiples
  <2>8. CASE pos \in known /\ cursor' = Found(cursor, windowStart)
    <3>1. pos % SliceBytes = 0 /\ cursor.j % SliceBytes = 0
      <4>1. CASE known \subseteq Aligned
        <5>1. pos % SliceBytes = 0
          BY <2>5, <2>8, <4>1
        <5>2. cursor.j = pos - windowStart
          BY <1>1
        <5> HIDE DEF pos
        <5> QED BY <1>1, <1>3, <2>1, <5>1, <5>2, Boundaries
      <4>2. CASE ~(known \subseteq Aligned)
        <5>1. cursor.j % SliceBytes = 0
          BY <1>3, <4>2
        <5> QED BY <1>1, <1>3, <5>1, Boundaries
      <4> QED BY <4>1, <4>2
    <3>2. cursor'.j = cursor.j + SliceBytes /\ ~cursor'.missed /\ cursor'.hits = cursor.hits \cup {pos}
      BY <2>8 DEF Found
    <3>3. cursor'.j % SliceBytes = 0 /\ windowStart + cursor'.j = pos + SliceBytes
          /\ (pos + SliceBytes) % SliceBytes = 0
      <4>1. cursor'.j % SliceBytes = 0
        BY <1>1, <2>7, <3>1, <3>2, Boundaries
      <4>2. windowStart + cursor'.j = pos + SliceBytes
        BY <1>1, <3>2
      <4> HIDE DEF pos
      <4>3. (pos + SliceBytes) % SliceBytes = 0
        BY <2>1, <2>7, <3>1, Boundaries
      <4> QED BY <4>1, <4>2, <4>3
    <3> HIDE DEF pos
    <3>4. Between(0, pos + SliceBytes) = Between(0, pos) \cup {pos}
      <4>1. pos \in Aligned
        BY <2>1, <2>6, <3>1
      <4>2. ASSUME NEW p \in Aligned, pos < p PROVE pos + SliceBytes <= p
        <5>1. p \in Int /\ p % SliceBytes = 0
          BY <2>5
        <5>2. pos \in Int /\ pos % SliceBytes = 0 /\ SliceBytes \in Nat \ {0}
          BY <2>1, <3>1
        <5> QED BY ONLY <4>2, <5>1, <5>2, Boundaries
      <4>3. ASSUME NEW p \in known \cap Aligned PROVE p < pos + SliceBytes <=> p < pos \/ p = pos
        BY <2>1, <2>5, <4>2
      <4>4. pos \in known \cap Aligned /\ 0 <= pos /\ pos < pos + SliceBytes
        BY <2>1, <2>8, <4>1
      <4> QED BY <2>5, <4>3, <4>4 DEF Between
    <3>5. windowEnd # size => pos + SliceBytes + SliceBytes <= windowEnd
      BY <2>1, <2>4, <3>3
    <3> HIDE DEF Between, Aligned
    <3>6. Placed(cursor', windowStart')
      BY <1>3, <2>2, <3>2, <3>3, <3>4 DEF Placed, pos
    <3> QED BY <1>a, <2>2, <3>3, <3>5, <3>6
  <2>9. CASE pos \notin known /\ cursor' \in {GaveUp(cursor), Slid(cursor)}
    <3>1. known \subseteq Aligned
      <4> SUFFICES ASSUME ~(known \subseteq Aligned) PROVE FALSE
        OBVIOUS
      <4>1. Aligned \subseteq known /\ cursor.j % SliceBytes = 0
        BY <1>2, <1>3 DEF InPlace
      <4>2. pos % SliceBytes = 0
        BY <1>1, <1>3, <4>1, Boundaries
      <4> QED BY <2>1, <2>6, <2>9, <4>1, <4>2
    <3>2. From(cursor) % SliceBytes = 0 /\ from % SliceBytes = 0
      <4>1. From(cursor) % SliceBytes = 0
        BY <1>3 DEF From
      <4> QED BY <1>1, <1>3, <2>1, <4>1, Boundaries
    <3>3. \A p \in known \cap Aligned : ~(from <= p /\ p <= pos)
      <4> SUFFICES ASSUME NEW p \in known \cap Aligned, from <= p, p <= pos PROVE FALSE
        OBVIOUS
      <4>1. p < pos
        BY <2>1, <2>5, <2>9
      <4>2. cursor.missed /\ from = windowStart + cursor.slide
        BY <2>1, <2>5, <4>1 DEF From
      <4>3. p \in Between(windowStart + cursor.slide, pos)
        BY <4>1, <4>2 DEF Between
      <4> QED BY <1>3, <4>2, <4>3
    <3>4. CASE cursor' = Slid(cursor)
      <4>1. /\ cursor'.j = cursor.j + 1 /\ cursor'.missed /\ cursor'.slide = From(cursor)
            /\ cursor'.hits = cursor.hits
        BY <3>4 DEF Slid
      <4>2. windowStart + cursor'.j = pos + 1 /\ windowStart + cursor'.slide = from
        BY <1>1, <4>1
      <4> HIDE DEF pos, from, From
      <4>3. Between(0, pos + 1) = Between(0, pos)
        BY <2>1, <2>5, <2>9 DEF Between
      <4>4. Between(from, pos + 1) = {}
        BY <2>1, <2>5, <3>3 DEF Between
      <4>5. windowEnd # size => pos + 1 + SliceBytes <= windowEnd
        BY <1>1, <2>1
      <4> HIDE DEF Between, Aligned
      <4>6. Placed(cursor', windowStart')
        BY <1>3, <2>2, <3>1, <3>2, <4>1, <4>2, <4>3, <4>4 DEF Placed, pos
      <4> QED BY <1>a, <2>2, <4>2, <4>5, <4>6
    <3>5. CASE cursor' = GaveUp(cursor)
      <4>1. cursor'.j = From(cursor) + SliceBytes /\ ~cursor'.missed /\ cursor'.hits = cursor.hits
        BY <3>5 DEF GaveUp
      <4>2. /\ windowStart + cursor'.j = from + SliceBytes /\ cursor'.j % SliceBytes = 0
            /\ (from + SliceBytes) % SliceBytes = 0
        <5> HIDE DEF From
        <5>1. cursor'.j % SliceBytes = 0
          BY <2>1, <2>7, <3>2, <4>1, Boundaries
        <5>2. windowStart + cursor'.j = from + SliceBytes
          BY <1>1, <2>1, <4>1
        <5> HIDE DEF from
        <5>3. (from + SliceBytes) % SliceBytes = 0
          BY <2>1, <2>7, <3>2, Boundaries
        <5> QED BY <5>1, <5>2, <5>3
      <4> HIDE DEF pos, from, From
      <4>3. ASSUME NEW p \in known \cap Aligned PROVE p < pos <=> p < from + SliceBytes
        <5>1. p < pos => p < from
          BY <2>1, <2>5, <3>3
        <5>2. from < p => from + SliceBytes <= p
          BY <2>1, <2>5, <3>2, Boundaries
        <5>3. p # from
          BY <2>1, <2>5, <3>3
        <5> QED BY <2>1, <2>5, <5>1, <5>2, <5>3
      <4>4. Between(0, from + SliceBytes) = Between(0, pos)
        BY <2>5, <4>3 DEF Between
      <4>5. windowEnd # size => from + SliceBytes + SliceBytes <= windowEnd
        <5>1. windowEnd # size => from + SliceBytes < windowEnd
          BY <1>1, <2>1
        <5> QED BY <1>1, <2>1, <2>4, <4>2, <5>1
      <4> HIDE DEF Between, Aligned
      <4>6. Placed(cursor', windowStart')
        BY <1>3, <2>2, <4>1, <4>2, <4>4 DEF Placed, pos
      <4> QED BY <1>a, <2>2, <4>2, <4>5, <4>6
    <3> QED BY <2>9, <3>4, <3>5
  <2> QED BY <2>1, <2>8, <2>9
<1>6. CASE EndWindow
  <2>1. CASE windowEnd >= size
    <3>1. UNCHANGED <<size, known, windowStart, windowEnd, cursor>> /\ phase' = "done"
      BY <1>6, <2>1 DEF EndWindow
    <3> QED BY <1>2, <1>a, <3>1 DEF PlaceHolds
  <2>2. CASE ~(windowEnd >= size)
    <3>1. phase = "scan" /\ phase' = "read" /\ windowStart' = windowStart + cursor.j
          /\ cursor' = [j |-> 0, missed |-> FALSE, slide |-> 0, crc |-> 0, hits |-> cursor.hits, misses |-> cursor.misses]
      BY <1>6, <2>2 DEF EndWindow, Fresh, Carried
    <3>2. windowStart + cursor.j + SliceBytes = windowEnd /\ windowEnd = windowStart + WindowBytes
      <4>1. windowStart + cursor.j + SliceBytes <= windowEnd /\ windowEnd = windowStart + WindowBytes
        BY <1>1, <1>2, <2>2, <3>1 DEF PlaceHolds, ScanHolds
      <4>2. windowStart + cursor.j + SliceBytes >= windowEnd
        BY <1>1, <1>6, <2>2 DEF EndWindow, Limit
      <4> QED BY <1>1, <4>1, <4>2
    <3>3. windowStart' % SliceBytes = 0 /\ windowStart' \in Nat
      <4> DEFINE d == SliceBytes * (WindowSlices - 1)
      <4>1. WindowBytes = SliceBytes * WindowSlices /\ d = WindowBytes - SliceBytes
        BY DEF WindowBytes
      <4>2. WindowSlices - 1 \in Int /\ d \in Nat
        OBVIOUS
      <4>3. d % SliceBytes = 0
        BY <4>2, Multiples
      <4> HIDE DEF d
      <4>4. windowStart' = windowStart + d
        BY <1>1, <3>1, <3>2, <4>1, WindowIs
      <4>5. (windowStart + d) % SliceBytes = 0
        <5>1. windowStart \in Int /\ d \in Int /\ SliceBytes \in Nat \ {0} /\ windowStart % SliceBytes = 0
          BY <1>1, <1>3, <4>2
        <5> QED BY ONLY <4>3, <5>1, Boundaries
      <4> QED BY <1>1, <4>2, <4>4, <4>5
    <3>4. cursor'.j = 0 /\ ~cursor'.missed /\ cursor'.hits = cursor.hits
      BY <3>1
    <3>5. windowStart' + cursor'.j = windowStart + cursor.j /\ 0 % SliceBytes = 0
      BY <3>1, <3>3, <3>4
    <3> HIDE DEF Between, Aligned
    <3>6. Placed(cursor', windowStart')
      BY <1>3, <3>3, <3>4, <3>5 DEF Placed
    <3> QED BY <1>a, <3>1, <3>6
  <2> QED BY <2>1, <2>2
<1>7. CASE UNCHANGED vars
  <2>1. UNCHANGED <<size, known, windowStart, windowEnd, cursor, phase>>
    BY <1>7 DEF vars
  <2> QED BY <1>2, <1>a, <2>1 DEF PlaceHolds
<1> QED BY <1>4, <1>5, <1>6, <1>7 DEF Next

\* Damage in place costs only the slices it touches, and an intact file is found
\* slice by slice, under any limit.
THEOREM SlicesInPlaceAreFound == Spec => []InPlaceAreFound
<1>1. ScanHolds /\ PlaceHolds => InPlaceAreFound
  <2> SUFFICES ASSUME ScanHolds, PlaceHolds, phase = "done", InPlace PROVE cursor.hits = known \cap Aligned
    BY DEF InPlaceAreFound, InPlace
  <2>1. cursor.hits = Between(0, windowStart + cursor.j)
    BY DEF PlaceHolds, Placed
  <2>2. windowStart + cursor.j >= size /\ windowStart + cursor.j \in Nat /\ size \in Nat
    BY DEF ScanHolds, Scanners
  <2>3. \A p \in Aligned : 0 <= p /\ p < windowStart + cursor.j
    BY <2>2 DEF Aligned
  <2> QED BY <2>1, <2>3 DEF Between
<1> QED BY <1>1, ScanInit, ScanIsTyped, PlaceStep, PTL DEF Spec
-----------------------------------------------------------------------------
\* A search from any cursor of a set on, as Whole defines it.
Scans(f, D) == f = [c \in D |-> IF c.j >= size THEN c ELSE f[Advance(c, 0, size)]]

\* How far it is to the end; without the misaligned search, giving up may go back once.
Farthest == size + SliceBytes + 1
Rounds(c) == Farthest - c.j + (IF searchLimit = 1 /\ c.missed THEN Farthest ELSE 0)

\* Every round comes nearer to the end.
LEMMA RoundsDrop ==
  ASSUME size \in Nat, known \subseteq 0..(size - 1), searchLimit \in {0, 1},
         NEW c \in Cursors, c.j < size
  PROVE  Advance(c, 0, size) \in Cursors /\ Rounds(Advance(c, 0, size)) < Rounds(c)
<1> DEFINE r == Rolled(c)
           d == IF r.missed THEN r ELSE [r EXCEPT !.slide = r.j]
<1>1. /\ c.j \in Nat /\ c.missed \in BOOLEAN /\ c.slide \in 0..size /\ c.crc \in Nat
      /\ c.hits \subseteq 0..size /\ c.misses \in Nat
  BY DEF Cursors
<1>2. PICK k \in Nat : r = [c EXCEPT !.crc = k]
  <2> DEFINE m == IF c.missed THEN c.crc + 1 ELSE c.j
  <2>1. m \in Nat /\ r = [c EXCEPT !.crc = m]
    BY <1>1 DEF Rolled
  <2> HIDE DEF m, r
  <2> QED BY <2>1
<1>3. /\ r \in Cursors /\ r.j = c.j /\ r.missed = c.missed /\ r.slide = c.slide
      /\ r.hits = c.hits /\ r.misses = c.misses
  BY <1>2 DEF Cursors
<1> HIDE DEF r
<1>4. /\ d \in Cursors /\ d.j = c.j /\ d.missed = c.missed /\ d.hits = c.hits /\ d.misses = c.misses
      /\ d.slide \in 0..size /\ (~c.missed => d.slide = c.j)
  BY <1>1, <1>3 DEF Cursors
<1>5. Advance(c, 0, size) \in {Hit(r, 0), Miss(r)}
  BY DEF Advance, r
<1>6. Miss(r) = IF searchLimit > 0 /\ d.j + 1 - d.slide >= searchLimit THEN GiveUp(d) ELSE Slide(d)
  BY DEF Miss
<1> HIDE DEF d
<1>a. /\ c.j + SliceBytes \in 0..(size + SliceBytes) /\ d.slide + SliceBytes \in 0..(size + SliceBytes)
      /\ c.j + 1 \in 0..(size + SliceBytes) /\ c.misses + 1 \in Nat
      /\ c.hits \cup {0 + c.j} \in SUBSET (0..size)
  BY <1>1, <1>4
<1>7. Hit(r, 0) \in Cursors /\ Hit(r, 0).j = c.j + SliceBytes /\ ~Hit(r, 0).missed
  <2>1. Hit(r, 0) = [r EXCEPT !.j = c.j + SliceBytes, !.missed = FALSE, !.hits = c.hits \cup {0 + c.j}]
    BY <1>3 DEF Hit, Cursors
  <2> QED BY <1>a, <1>3, <2>1 DEF Cursors
<1>8. GiveUp(d) \in Cursors /\ GiveUp(d).j = d.slide + SliceBytes /\ ~GiveUp(d).missed
  <2>1. GiveUp(d) = [d EXCEPT !.j = d.slide + SliceBytes, !.missed = FALSE, !.misses = c.misses + 1]
    BY <1>4 DEF GiveUp, Cursors
  <2> QED BY <1>a, <1>4, <2>1 DEF Cursors
<1>9. Slide(d) \in Cursors /\ Slide(d).j = c.j + 1 /\ Slide(d).missed
  <2>1. Slide(d) = [d EXCEPT !.j = c.j + 1, !.missed = TRUE, !.misses = c.misses + 1]
    BY <1>4 DEF Slide, Cursors
  <2> QED BY <1>a, <1>4, <2>1 DEF Cursors
<1>10. Rounds(Hit(r, 0)) < Rounds(c)
  BY <1>1, <1>7 DEF Rounds, Farthest
<1>11. searchLimit = 1 /\ d.j + 1 - d.slide >= searchLimit => Rounds(GiveUp(d)) < Rounds(c)
  BY <1>1, <1>4, <1>8 DEF Rounds, Farthest
<1>12. searchLimit = 0 \/ ~(d.j + 1 - d.slide >= searchLimit) => Rounds(Slide(d)) < Rounds(c)
  BY <1>1, <1>4, <1>9 DEF Rounds, Farthest
<1>13. CASE Advance(c, 0, size) = Hit(r, 0)
  BY <1>7, <1>10, <1>13
<1>14. CASE Advance(c, 0, size) = Miss(r)
  <2>1. CASE searchLimit > 0 /\ d.j + 1 - d.slide >= searchLimit
    BY <1>6, <1>8, <1>11, <1>14, <2>1
  <2>2. CASE ~(searchLimit > 0 /\ d.j + 1 - d.slide >= searchLimit)
    BY <1>6, <1>9, <1>12, <1>14, <2>2
  <2> QED BY <2>1, <2>2
<1> QED BY <1>5, <1>13, <1>14

\* So the search of a whole file ends: there is a function as Whole defines it.
LEMMA WholeIs ==
  ASSUME size \in Nat, known \subseteq 0..(size - 1), searchLimit \in {0, 1}
  PROVE  \E f : Scans(f, Cursors) /\ Whole = f[Fresh({}, 0)]
<1> DEFINE D(n) == {c \in Cursors : Rounds(c) <= n}
           S == {n \in Nat : \E f : Scans(f, D(n))}
<1>1. \A c \in Cursors : Rounds(c) \in Nat /\ 0 < Rounds(c) /\ Rounds(c) <= Farthest + Farthest
  BY DEF Cursors, Rounds, Farthest
<1>2. 0 \in S
  <2>1. D(0) = {}
    BY <1>1
  <2>2. Scans([c \in {} |-> 0], {})
    BY DEF Scans
  <2> HIDE DEF D
  <2> QED BY <2>1, <2>2
<1>3. ASSUME NEW n \in Nat, n \in S PROVE n + 1 \in S
  <2>1. PICK f : Scans(f, D(n))
    BY <1>3
  <2> DEFINE g == [c \in D(n + 1) |-> IF c.j >= size THEN c ELSE f[Advance(c, 0, size)]]
  <2>2. D(n) \subseteq D(n + 1) /\ D(n + 1) \subseteq Cursors
    BY <1>1
  <2>3. ASSUME NEW c \in D(n + 1), ~(c.j >= size) PROVE Advance(c, 0, size) \in D(n)
    <3>1. c \in Cursors /\ c.j < size
      BY <2>3 DEF Cursors
    <3>2. Advance(c, 0, size) \in Cursors /\ Rounds(Advance(c, 0, size)) < Rounds(c)
      BY <3>1, RoundsDrop
    <3> HIDE DEF Advance, Rounds
    <3> QED BY <1>1, <3>1, <3>2
  <2> HIDE DEF D
  <2>4. ASSUME NEW c \in D(n) PROVE g[c] = f[c]
    BY <2>1, <2>2 DEF Scans
  <2>5. g = [c \in D(n + 1) |-> IF c.j >= size THEN c ELSE g[Advance(c, 0, size)]]
    BY <2>3, <2>4
  <2> HIDE DEF g
  <2>6. Scans(g, D(n + 1))
    BY <2>5 DEF Scans
  <2> QED BY <2>6
<1>4. Farthest + Farthest \in S
  <2>1. Farthest + Farthest \in Nat
    BY DEF Farthest
  <2> HIDE DEF S, Farthest
  <2> QED BY <1>2, <1>3, <2>1, Induction
<1>5. D(Farthest + Farthest) = Cursors
  BY <1>1
<1>6. \E f : Scans(f, Cursors)
  <2> HIDE DEF D
  <2> QED BY <1>4, <1>5
<1> DEFINE scan[c \in Cursors] == IF c.j >= size THEN c ELSE scan[Advance(c, 0, size)]
<1>7. scan = CHOOSE f : f = [c \in Cursors |-> IF c.j >= size THEN c ELSE f[Advance(c, 0, size)]]
  OBVIOUS
<1>8. Whole = scan[Fresh({}, 0)]
  BY DEF Whole
<1> HIDE DEF scan
<1>9. Scans(scan, Cursors)
  BY <1>6, <1>7 DEF Scans
<1> QED BY <1>8, <1>9
\* Two cursors at the same byte that have found and missed the same go on alike.
Alike(c, d) == c.j = d.j /\ c.hits = d.hits /\ c.misses = d.misses
Rolls(c) == c.missed => c.j = c.crc + 1 /\ searchLimit # 1

\* Two cursors at the same byte of the file stay so through a round of the search.
LEMMA AlikeAdvance ==
  ASSUME size \in Nat, searchLimit \in {0, 1}, NEW c \in Cursors, Rolls(c), NEW d \in Cursors, Rolls(d),
         Alike(c, d)
  PROVE  Alike(Advance(c, 0, size), Advance(d, 0, size)) /\ Rolls(Advance(c, 0, size))
<1>1. ASSUME NEW e \in Cursors, Rolls(e)
      PROVE  /\ Advance(e, 0, size).j =
                  IF e.j \in known \/ searchLimit = 1 THEN e.j + SliceBytes ELSE e.j + 1
             /\ Advance(e, 0, size).hits = IF e.j \in known THEN e.hits \cup {e.j} ELSE e.hits
             /\ Advance(e, 0, size).misses = IF e.j \in known THEN e.misses ELSE e.misses + 1
             /\ Rolls(Advance(e, 0, size))
  <2>1. e \in Scanners /\ e.j \in Nat /\ 0 + e.j = e.j /\ (e.missed => e.j = e.crc + 1)
    BY <1>1 DEF Cursors, Scanners, Rolls
  <2>2. Advance(e, 0, size) =
          IF e.j \in known THEN Found(e, 0)
          ELSE IF searchLimit > 0 /\ e.j + 1 - From(e) >= searchLimit THEN GaveUp(e) ELSE Slid(e)
    BY <2>1, AdvanceIs
  <2>3. searchLimit = 1 => From(e) = e.j
    BY <1>1 DEF From, Rolls
  <2>4. searchLimit = 1 => searchLimit > 0 /\ e.j + 1 - From(e) >= searchLimit
    BY <2>1, <2>3
  <2>5. CASE e.j \in known
    BY <2>1, <2>2, <2>5 DEF Found, Rolls
  <2>6. CASE e.j \notin known /\ searchLimit = 1
    BY <2>1, <2>2, <2>3, <2>4, <2>6 DEF GaveUp, Rolls
  <2>7. CASE e.j \notin known /\ searchLimit = 0
    BY <2>1, <2>2, <2>7 DEF Slid, Rolls
  <2> QED BY <2>5, <2>6, <2>7
<1> HIDE DEF Advance, Rolls
<1> QED BY <1>1 DEF Alike

\* And so through any number of rounds.
LEMMA AlikeScans ==
  ASSUME size \in Nat, known \subseteq 0..(size - 1), searchLimit \in {0, 1}, NEW f, Scans(f, Cursors),
         NEW c \in Cursors, Rolls(c), NEW d \in Cursors, Rolls(d), Alike(c, d)
  PROVE  Alike(f[c], f[d])
<1> DEFINE Ends(n) == \A a, b \in Cursors :
                        Rolls(a) /\ Rolls(b) /\ Alike(a, b) /\ Rounds(a) <= n => Alike(f[a], f[b])
           S == {n \in Nat : Ends(n)}
<1>1. \A a \in Cursors : Rounds(a) \in Nat /\ 0 < Rounds(a)
  BY DEF Cursors, Rounds, Farthest
<1>2. 0 \in S
  BY <1>1
<1>3. ASSUME NEW n \in Nat, n \in S PROVE n + 1 \in S
  <2> SUFFICES ASSUME NEW a \in Cursors, NEW b \in Cursors,
                      Rolls(a), Rolls(b), Alike(a, b), Rounds(a) <= n + 1
               PROVE  Alike(f[a], f[b])
    OBVIOUS
  <2>1. a.j = b.j /\ a.j \in Nat
    BY DEF Alike, Cursors
  <2>2. CASE a.j >= size
    <3>1. f[a] = a /\ f[b] = b
      BY <2>1, <2>2 DEF Scans
    <3> QED BY <3>1
  <2>3. CASE a.j < size
    <3>1. f[a] = f[Advance(a, 0, size)] /\ f[b] = f[Advance(b, 0, size)]
      BY <2>1, <2>3 DEF Scans
    <3>2. /\ Advance(a, 0, size) \in Cursors /\ Advance(b, 0, size) \in Cursors
          /\ Rounds(Advance(a, 0, size)) < Rounds(a)
      BY <2>1, <2>3, RoundsDrop
    <3>3. Alike(b, a)
      BY DEF Alike
    <3>4. Alike(Advance(a, 0, size), Advance(b, 0, size)) /\ Rolls(Advance(a, 0, size))
          /\ Rolls(Advance(b, 0, size))
      BY <3>3, AlikeAdvance
    <3> HIDE DEF Rounds, Rolls, Alike, Advance
    <3>5. Rounds(Advance(a, 0, size)) <= n
      BY <1>1, <3>2
    <3> QED BY <1>3, <3>1, <3>2, <3>4, <3>5
  <2> QED BY <2>1, <2>2, <2>3
<1>4. Rounds(c) \in S
  <2>1. Rounds(c) \in Nat
    BY <1>1
  <2> HIDE DEF S
  <2> QED BY <1>2, <1>3, <2>1, Induction
<1> QED BY <1>1, <1>4
-----------------------------------------------------------------------------
\* The scanner's cursor in the file, and what its window leads to: what the search of
\* the whole file does.
InFile(c, start) == [j |-> start + c.j, missed |-> c.missed, slide |-> start + c.slide,
                     crc |-> start + c.crc, hits |-> c.hits, misses |-> c.misses]
LeadsToWhole(c, start) ==
  \A f : Scans(f, Cursors) =>
    /\ f[InFile(c, start)].hits = f[Fresh({}, 0)].hits
    /\ f[InFile(c, start)].misses = f[Fresh({}, 0)].misses
StreamHolds ==
  searchLimit \in {0, 1} => Rolls(cursor) /\ LeadsToWhole(cursor, windowStart)

\* The cursor in the file is one of those Whole searches from.
LEMMA InFileIsCursor ==
  ASSUME ScanHolds, Rolls(cursor)
  PROVE  InFile(cursor, windowStart) \in Cursors /\ Rolls(InFile(cursor, windowStart))
<1>1. /\ size \in Nat /\ windowStart \in Nat /\ cursor.j \in Nat /\ cursor.slide \in Nat /\ cursor.crc \in Nat
      /\ cursor.missed \in BOOLEAN /\ cursor.hits \subseteq 0..(size - 1) /\ cursor.misses \in Nat
      /\ windowStart + cursor.slide <= size /\ windowStart + cursor.j <= size + SliceBytes
  BY DEF ScanHolds, Scanners
<1>2. windowStart + cursor.j \in 0..(size + SliceBytes) /\ windowStart + cursor.slide \in 0..size
      /\ windowStart + cursor.crc \in Nat /\ cursor.hits \in SUBSET (0..size)
  BY <1>1
<1>3. InFile(cursor, windowStart) \in Cursors
  BY <1>1, <1>2 DEF InFile, Cursors
<1>4. Rolls(InFile(cursor, windowStart))
  BY <1>1 DEF InFile, Rolls
<1> QED BY <1>3, <1>4

\* A round in the window is the round of the whole file's search.
LEMMA AdvanceInFile ==
  ASSUME ScanHolds, phase = "scan", cursor.j < Limit, searchLimit \in {0, 1}, Rolls(cursor)
  PROVE  LET c == Advance(cursor, windowStart, windowEnd)
         IN  Advance(InFile(cursor, windowStart), 0, size) = InFile(c, windowStart) /\ Rolls(c)
<1> DEFINE c == Advance(cursor, windowStart, windowEnd)
           a == InFile(cursor, windowStart)
           s == windowStart
<1>1. /\ size \in Nat /\ s \in Nat /\ windowEnd \in Nat /\ cursor \in Scanners /\ searchLimit \in Nat
      /\ cursor.j \in Nat /\ cursor.slide \in Nat /\ cursor.crc \in Nat /\ cursor.misses \in Nat
      /\ (cursor.missed => cursor.j = cursor.crc + 1)
  BY DEF ScanHolds, Scanners
<1>2. windowEnd = size \/ s + cursor.j + SliceBytes <= windowEnd
  BY <1>1, CursorIsInside
<1>3. c = IF s + cursor.j \in known THEN Found(cursor, s)
          ELSE IF searchLimit > 0 /\ cursor.j + 1 - From(cursor) >= searchLimit THEN GaveUp(cursor) ELSE Slid(cursor)
  BY <1>1, <1>2, AdvanceIs
<1>4. /\ a.j = s + cursor.j /\ a.missed = cursor.missed /\ a.slide = s + cursor.slide /\ a.crc = s + cursor.crc
      /\ a.hits = cursor.hits /\ a.misses = cursor.misses
  BY DEF InFile
<1>5. a \in Cursors /\ Rolls(a)
  BY InFileIsCursor
<1>6. a \in Scanners /\ (a.missed => a.j = a.crc + 1) /\ 0 + a.j = s + cursor.j
  BY <1>1, <1>4, <1>5 DEF Cursors, Scanners, Rolls
<1>7. From(a) = s + From(cursor) /\ From(cursor) \in Nat
  BY <1>1, <1>4 DEF From
<1> HIDE DEF a
<1>8. Advance(a, 0, size) =
        IF s + cursor.j \in known THEN Found(a, 0)
        ELSE IF searchLimit > 0 /\ a.j + 1 - From(a) >= searchLimit THEN GaveUp(a) ELSE Slid(a)
  BY <1>1, <1>6, AdvanceIs
<1>9. a.j + 1 - From(a) = cursor.j + 1 - From(cursor)
  BY <1>1, <1>4, <1>7
<1> HIDE DEF From
<1>b. /\ a.j + SliceBytes = s + (cursor.j + SliceBytes) /\ a.j + 1 = s + (cursor.j + 1)
      /\ From(a) + SliceBytes = s + (From(cursor) + SliceBytes)
  BY <1>1, <1>4, <1>7
<1>10. Found(a, 0) = InFile(Found(cursor, s), s)
  <2>1. Found(a, 0) = [j |-> s + (cursor.j + SliceBytes), missed |-> FALSE, slide |-> s + cursor.slide,
                       crc |-> s + cursor.j, hits |-> cursor.hits \cup {s + cursor.j}, misses |-> cursor.misses]
    BY <1>4, <1>6, <1>b DEF Found
  <2> QED BY <2>1 DEF Found, InFile
<1>11. GaveUp(a) = InFile(GaveUp(cursor), s)
  <2>1. GaveUp(a) = [j |-> s + (From(cursor) + SliceBytes), missed |-> FALSE, slide |-> s + From(cursor),
                     crc |-> s + cursor.j, hits |-> cursor.hits, misses |-> cursor.misses + 1]
    BY <1>4, <1>7, <1>b DEF GaveUp
  <2> QED BY <2>1 DEF GaveUp, InFile
<1>12. Slid(a) = InFile(Slid(cursor), s)
  <2>1. Slid(a) = [j |-> s + (cursor.j + 1), missed |-> TRUE, slide |-> s + From(cursor),
                   crc |-> s + cursor.j, hits |-> cursor.hits, misses |-> cursor.misses + 1]
    BY <1>4, <1>7, <1>b DEF Slid
  <2> QED BY <2>1 DEF Slid, InFile
<1>13. searchLimit = 1 => cursor.j + 1 - From(cursor) >= searchLimit
  BY <1>1 DEF From, Rolls
<1>14. Rolls(Found(cursor, s)) /\ Rolls(GaveUp(cursor)) /\ (searchLimit = 0 => Rolls(Slid(cursor)))
  BY DEF Rolls, Found, GaveUp, Slid
<1> HIDE DEF c
<1> QED BY <1>3, <1>8, <1>9, <1>10, <1>11, <1>12, <1>13, <1>14 DEF a, c

\* Neither a round nor the end of a window changes where the search leads.
LEMMA StreamStep == ScanHolds /\ StreamHolds /\ [Next]_vars => StreamHolds'
<1> SUFFICES ASSUME ScanHolds, StreamHolds, [Next]_vars, searchLimit' \in {0, 1} PROVE StreamHolds'
  BY DEF StreamHolds
<1>1. UNCHANGED <<size, known, searchLimit>>
  BY DEF Next, ReadWindow, ScanStep, EndWindow, vars
<1>2. Rolls(cursor) /\ LeadsToWhole(cursor, windowStart) /\ searchLimit \in {0, 1}
  BY <1>1 DEF StreamHolds
<1>3. size \in Nat /\ known \subseteq 0..(size - 1)
  BY DEF ScanHolds
<1>4. /\ \A c, start : LeadsToWhole(c, start)' <=> LeadsToWhole(c, start)
      /\ \A c : Rolls(c)' <=> Rolls(c)
  BY <1>1 DEF LeadsToWhole, Rolls, Scans, Cursors, Advance, Rolled, Shows, Hit, Miss, GiveUp, Slide
<1>5. ASSUME Rolls(cursor'), LeadsToWhole(cursor', windowStart') PROVE StreamHolds'
  <2>1. LeadsToWhole(cursor, windowStart)' /\ Rolls(cursor)'
    <3> HIDE DEF LeadsToWhole, Rolls
    <3> QED BY <1>4, <1>5
  <2> QED BY <2>1 DEF StreamHolds
<1>6. ASSUME UNCHANGED <<cursor, windowStart>> PROVE StreamHolds'
  BY <1>2, <1>5, <1>6
<1>7. CASE ScanStep
  <2> DEFINE a == InFile(cursor, windowStart)
  <2>1. phase = "scan" /\ cursor.j < Limit /\ UNCHANGED windowStart
        /\ cursor' = Advance(cursor, windowStart, windowEnd)
    BY <1>7 DEF ScanStep
  <2>2. Advance(a, 0, size) = InFile(cursor', windowStart) /\ Rolls(cursor')
    BY <1>2, <2>1, AdvanceInFile
  <2>3. a \in Cursors /\ ~(a.j >= size)
    <3>1. a \in Cursors /\ a.j = windowStart + cursor.j
      BY <1>2, InFileIsCursor DEF InFile
    <3>2. windowStart + cursor.j < size
      BY <2>1, CursorIsInside
    <3> HIDE DEF a
    <3> QED BY <1>3, <3>1, <3>2 DEF Cursors
  <2> HIDE DEF a, Advance
  <2>4. \A f : Scans(f, Cursors) => f[a] = f[Advance(a, 0, size)]
    BY <2>3 DEF Scans
  <2>5. LeadsToWhole(cursor', windowStart')
    BY <1>2, <2>1, <2>2, <2>4 DEF LeadsToWhole, a
  <2> QED BY <1>5, <2>2, <2>5
<1>8. CASE EndWindow
  <2>1. CASE windowEnd >= size
    BY <1>6, <1>8, <2>1 DEF EndWindow
  <2>2. CASE ~(windowEnd >= size)
    <3> DEFINE a == InFile(cursor, windowStart)
               b == InFile(cursor', windowStart')
    <3>1. windowStart' = windowStart + cursor.j /\ cursor' = Fresh(cursor.hits, cursor.misses)
      BY <1>8, <2>2 DEF EndWindow, Carried
    <3>2. ScanHolds'
      BY ScanIsTyped
    <3>3. Rolls(cursor')
      BY <3>1 DEF Fresh, Rolls
    <3>4. a \in Cursors /\ Rolls(a)
      BY <1>2, InFileIsCursor
    <3>5. b \in Cursors /\ Rolls(b)
      <4>1. size' \in Nat /\ windowStart' \in Nat /\ windowStart' <= size'
        BY <3>2 DEF ScanHolds
      <4>2. b = [j |-> windowStart', missed |-> FALSE, slide |-> windowStart', crc |-> windowStart',
                 hits |-> cursor.hits, misses |-> cursor.misses]
        <5>1. b = [j |-> windowStart' + 0, missed |-> FALSE, slide |-> windowStart' + 0,
                   crc |-> windowStart' + 0, hits |-> cursor.hits, misses |-> cursor.misses]
          BY <3>1 DEF InFile, Fresh
        <5>2. windowStart' + 0 = windowStart'
          <6>1. \A n \in Nat : n + 0 = n
            OBVIOUS
          <6> QED BY <4>1, <6>1, Zenon
        <5> QED BY <5>1, <5>2
      <4>3. cursor.hits \in SUBSET (0..size) /\ cursor.misses \in Nat
        BY <1>3 DEF ScanHolds, Scanners
      <4> HIDE DEF b
      <4> QED BY <1>1, <4>1, <4>2, <4>3 DEF Cursors, Rolls
    <3>6. Alike(a, b)
      <4>1. windowStart \in Nat /\ cursor.j \in Nat
        BY DEF ScanHolds, Scanners
      <4> QED BY <3>1, <4>1 DEF Alike, InFile, Fresh
    <3> HIDE DEF a, b
    <3>7. \A f : Scans(f, Cursors) => Alike(f[a], f[b])
      BY <1>2, <1>3, <3>4, <3>5, <3>6, AlikeScans
    <3>8. LeadsToWhole(cursor', windowStart')
      BY <1>2, <3>7 DEF LeadsToWhole, Alike, a, b
    <3> QED BY <1>5, <3>3, <3>8
  <2> QED BY <2>1, <2>2
<1>9. CASE ReadWindow
  BY <1>6, <1>9 DEF ReadWindow
<1>10. CASE UNCHANGED vars
  BY <1>6, <1>10 DEF vars
<1> QED BY <1>7, <1>8, <1>9, <1>10 DEF Next

\* Without a limit on the slide, and without the misaligned search, streaming a file
\* through windows finds what searching it whole finds, and misses as often.
THEOREM StreamingIsWhole == Spec => []StreamedIsWhole
<1>1. Init => StreamHolds
  <2> SUFFICES ASSUME Init PROVE Rolls(cursor) /\ LeadsToWhole(cursor, windowStart)
    BY DEF StreamHolds
  <2>1. InFile(cursor, windowStart) = Fresh({}, 0) /\ ~cursor.missed
    BY DEF Init, InFile, Fresh
  <2> QED BY <2>1 DEF Rolls, LeadsToWhole
<1>2. ScanHolds /\ StreamHolds => StreamedIsWhole
  <2> SUFFICES ASSUME ScanHolds, StreamHolds, searchLimit \in {0, 1}, phase = "done"
               PROVE  cursor.hits = Whole.hits /\ cursor.misses = Whole.misses
    BY DEF StreamedIsWhole, AsWhole
  <2> DEFINE a == InFile(cursor, windowStart)
  <2>1. size \in Nat /\ known \subseteq 0..(size - 1) /\ windowStart + cursor.j >= size
    BY DEF ScanHolds
  <2>2. PICK f : Scans(f, Cursors) /\ Whole = f[Fresh({}, 0)]
    BY <2>1, WholeIs
  <2>3. f[a].hits = Whole.hits /\ f[a].misses = Whole.misses
    BY <2>2 DEF StreamHolds, LeadsToWhole
  <2>4. a \in Cursors /\ a.j = windowStart + cursor.j /\ a.hits = cursor.hits /\ a.misses = cursor.misses
    BY InFileIsCursor DEF StreamHolds, InFile
  <2> HIDE DEF a
  <2>5. f[a] = a
    BY <2>1, <2>2, <2>4 DEF Scans
  <2> QED BY <2>3, <2>4, <2>5
<1> QED BY <1>1, <1>2, ScanInit, ScanIsTyped, StreamStep, PTL DEF Spec
===============================================================================
