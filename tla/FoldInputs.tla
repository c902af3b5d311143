------------------------------ MODULE FoldInputs ------------------------------
(***************************************************************************)
(* What rsec16.FoldInputs and FoldInputsParallel promise their caller       *)
(* (rsec16/fold.go, 16-60), whichever backend folds: every row of out       *)
(* receives the whole sum before the call succeeds, the call fails only     *)
(* when next refused an input, an input that was refused is never papered   *)
(* over, and no goroutine touches a row once the call has returned.         *)
(***************************************************************************)
EXTENDS Naturals

CONSTANTS Rows      \* the rows of out

VARIABLES
  whole,    \* rows that hold the sum over every input
  refused,  \* next has returned an error
  outcome   \* "running", "ok" or "error"

sumVars == <<whole, refused, outcome>>

SumInit == whole = {} /\ refused = FALSE /\ outcome = "running"

\* Rows become whole, in any order; a row that is whole stays whole.
Complete == /\ outcome = "running"
            /\ \E done \in SUBSET Rows : whole \subseteq done /\ whole' = done
            /\ UNCHANGED <<refused, outcome>>

Refuse == /\ outcome = "running"
          /\ refused' = TRUE
          /\ UNCHANGED <<whole, outcome>>

Succeed == /\ outcome = "running" /\ ~refused /\ whole = Rows
           /\ outcome' = "ok"
           /\ UNCHANGED <<whole, refused>>

Fail == /\ outcome = "running" /\ refused
        /\ outcome' = "error"
        /\ UNCHANGED <<whole, refused>>

SumNext == Complete \/ Refuse \/ Succeed \/ Fail

SumSpec == SumInit /\ [][SumNext]_sumVars
===============================================================================
