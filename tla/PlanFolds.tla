------------------------------- MODULE PlanFolds -------------------------------
(***************************************************************************)
(* What PAR2ReconstructionPlan.Fold promises over the life of a plan        *)
(* (rsec16/par2_plan.go, 135-157): each call keeps the promise of a single  *)
(* fold (FoldInputs) whatever the calls before it read, wrote or failed     *)
(* at.  Nothing of an earlier call counts: the rows of a new one hold no    *)
(* part of its sum.                                                         *)
(***************************************************************************)
EXTENDS FoldInputs

PlanInit == whole = {} /\ refused = FALSE /\ outcome = "idle"

\* The next call, with rows of its own.
Begin == /\ outcome # "running"
         /\ whole' = {} /\ refused' = FALSE /\ outcome' = "running"

PlanNext == SumNext \/ Begin

PlanSpec == PlanInit /\ [][PlanNext]_sumVars
===============================================================================
