-------------------------------- MODULE Sorting --------------------------------
(***************************************************************************)
(* The sort of Go's library as the code uses it: sort.Slice over file IDs   *)
(* (par2/encoder.go) and slices of recorded packets (par2/decoder.go).      *)
(***************************************************************************)
EXTENDS Naturals, Sequences, FiniteSets

\* How many elements come before the i-th.
Rank(s, i, before(_, _)) ==
  Cardinality({j \in DOMAIN s : before(s[j], s[i]) \/ (j < i /\ ~before(s[i], s[j]))})

\* The elements in order, those that tie in the order they had.
Sorted(s, before(_, _)) ==
  [n \in DOMAIN s |-> s[CHOOSE i \in DOMAIN s : Rank(s, i, before) = n - 1]]
===============================================================================
