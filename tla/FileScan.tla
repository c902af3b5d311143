------------------------------- MODULE FileScan -------------------------------
(***************************************************************************)
(* The misaligned search through one file (par2/decoder.go, scanBuffer and  *)
(* fillFileIntegrityInfos, 476-673): slices of known content are looked     *)
(* for at every byte offset, with a rolling CRC and an optional limit on    *)
(* the slide, while the file is read in windows that overlap by what the    *)
(* scanner did not consume.                                                 *)
(*                                                                          *)
(* A file is its size and the offsets at which its bytes (zero padded past  *)
(* the end) are those of a protected slice.  Any set of offsets is possible:*)
(* the protected slices are whatever the file holds there.                  *)
(***************************************************************************)
EXTENDS Naturals, FiniteSets

CONSTANTS
  SliceBytes,      \* sliceByteCount
  WindowSlices,    \* scanWindowSize(sliceByteCount) / sliceByteCount
  SearchLimits,    \* values of scanPolicy.searchLimit: 0 is no limit; see Miss for 1
  Sizes,           \* file sizes
  MaxKnown         \* bound on the known offsets in a file

ASSUME ScanAssumption ==
  /\ SliceBytes \in Nat \ {0} /\ WindowSlices \in Nat \ {0, 1}
  /\ SearchLimits \subseteq Nat /\ Sizes \subseteq Nat /\ MaxKnown \in Nat

VARIABLES
  size, known,     \* the file
  searchLimit,     \* scanPolicy.searchLimit
  windowStart, windowEnd, \* the part of it the buffer holds; windowEnd is readOffset
  cursor,          \* the locals of scanBuffer
  phase

vars == <<size, known, searchLimit, windowStart, windowEnd, cursor, phase>>

WindowBytes == WindowSlices * SliceBytes

-----------------------------------------------------------------------------
\* scanBuffer starts at buffer offset 0 with nothing carried over.
Fresh(hits, misses) ==
  [j |-> 0, missed |-> FALSE, slide |-> 0, crc |-> 0, hits |-> hits, misses |-> misses]

\* The rolling CRC covers the slice at crc.
Rolled(c) == [c EXCEPT !.crc = IF c.missed THEN c.crc + 1 ELSE c.j]

\* A buffer that holds file bytes start to end shows a known slice at the
\* cursor, and the rolling CRC agrees.
Shows(c, start, end) == /\ c.crc = c.j /\ start + c.j \in known
                        /\ start + c.j + SliceBytes <= end \/ end = size

Hit(c, start) ==
  [c EXCEPT !.j = @ + SliceBytes, !.missed = FALSE, !.hits = @ \cup {start + c.j}]

\* The jump is a slice from where the search is.
GiveUpJump(c) == [c EXCEPT !.j = @ + 1 + SliceBytes, !.missed = FALSE, !.misses = @ + 1]
GiveUp(c) == [c EXCEPT !.j = c.slide + SliceBytes, !.missed = FALSE, !.misses = @ + 1]

Slide(c) == [c EXCEPT !.j = @ + 1, !.missed = TRUE, !.misses = @ + 1]

\* A miss: slide one byte, or give up on the slice past the limit.  A limit of 1
\* is the scan without findMisaligned, which goes on to the next boundary.
Miss(c) ==
  LET d == IF c.missed THEN c ELSE [c EXCEPT !.slide = c.j] IN
  IF searchLimit > 0 /\ d.j + 1 - d.slide >= searchLimit THEN GiveUp(d) ELSE Slide(d)

\* One round of the loop of scanBuffer.
Advance(c, start, end) ==
  LET r == Rolled(c) IN IF Shows(r, start, end) THEN Hit(r, start) ELSE Miss(r)

-----------------------------------------------------------------------------
\* A window that is scanned to its very end.
LimitAtEnd == windowEnd - windowStart
\* The scanner stops a slice short of a window that is not the last.
Limit == windowEnd - windowStart - (IF windowEnd >= size THEN 0 ELSE SliceBytes)

Init ==
  /\ size \in Sizes /\ searchLimit \in SearchLimits
  /\ known \in {k \in SUBSET (0..(size - 1)) : Cardinality(k) <= MaxKnown}
  /\ windowStart = 0 /\ windowEnd = 0
  /\ cursor = Fresh({}, 0)
  /\ phase = "read"

Filled == IF windowStart + WindowBytes > size THEN size ELSE windowStart + WindowBytes

\* The buffer is filled behind what it still holds; an empty one ends the scan.
ReadWindow ==
  /\ phase = "read"
  /\ windowEnd' = Filled
  /\ phase' = IF Filled = windowStart THEN "done" ELSE "scan"
  /\ UNCHANGED <<size, known, searchLimit, windowStart, cursor>>

ScanStep ==
  /\ phase = "scan" /\ cursor.j < Limit
  /\ cursor' = Advance(cursor, windowStart, windowEnd)
  /\ UNCHANGED <<size, known, searchLimit, windowStart, windowEnd, phase>>

\* The whole window is carried over.
CarryWindow == windowStart
Carried == windowStart + cursor.j

\* scanBuffer returns: the unscanned tail is moved to the front of the buffer.
EndWindow ==
  /\ phase = "scan" /\ cursor.j >= Limit
  /\ IF windowEnd >= size
     THEN phase' = "done" /\ UNCHANGED <<windowStart, cursor>>
     ELSE /\ phase' = "read" /\ windowStart' = Carried
          /\ cursor' = Fresh(cursor.hits, cursor.misses)
  /\ UNCHANGED <<size, known, searchLimit, windowEnd>>

Next == ReadWindow \/ ScanStep \/ EndWindow

Spec == Init /\ [][Next]_vars
FairSpec == Spec /\ WF_vars(Next)

-----------------------------------------------------------------------------
Cursors == [j : 0..(size + SliceBytes), missed : BOOLEAN, slide : 0..size, crc : Nat,
            hits : SUBSET (0..size), misses : Nat]

\* fillShardInfos: the same search over a buffer that holds the whole file.
Whole ==
  LET scan[c \in Cursors] == IF c.j >= size THEN c ELSE scan[Advance(c, 0, size)]
  IN  scan[Fresh({}, 0)]

AsWhole == phase = "done" => cursor.hits = Whole.hits /\ cursor.misses = Whole.misses

\* Without a limit on the slide, and without the misaligned search, streaming a
\* file through windows finds the slices, and counts the misses, that scanning it
\* whole does: nothing is lost, found twice or tried twice where windows meet ("a
\* caller streaming a file can set limit short of the end and carry the remainder
\* into the next window", decoder.go:471-473).
StreamedIsWhole == searchLimit \in {0, 1} => AsWhole

\* "Give up on this slice once the search has slid past the caller's limit, and
\* resume from the next boundary" (decoder.go:516-517): under a limit, too, the
\* outcome does not depend on where the windows of the scan end.
LimitedIsWhole == AsWhole

Aligned == {p \in 0..(size - 1) : p % SliceBytes = 0}

\* Damage in place costs only the slices it touches, and an intact file is found
\* slice by slice whatever else its bytes resemble, under any limit: giving up and
\* meeting the end of a window both resume on a slice boundary.
InPlaceAreFound ==
  phase = "done" /\ (known \subseteq Aligned \/ Aligned \subseteq known) =>
    cursor.hits = known \cap Aligned

\* The scan gets through the file.
Terminates == <>(phase = "done")
===============================================================================
