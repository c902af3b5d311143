-------------------------------- MODULE MCPlan --------------------------------
(***************************************************************************)
(* Reed-Solomon reconstruction over a field of 16 elements, with the code's *)
(* thresholds scaled to it.  A behaviour is a plan or a Coder rebuilding    *)
(* one symbol of every row, a region program run by several goroutines, or  *)
(* calls of a transform plan's Fold over ranges of bytes; the variables of  *)
(* the other two stay as they are.                                          *)
(***************************************************************************)
EXTENDS TransformFold, RegionTransforms, ReconstructionPlan

VARIABLE side

ASSUME FieldAssumption

Repair(n, lost, blocks, folders, budget) ==
  [dataShards |-> n, available |-> Ascending((0..(n - 1)) \ lost), missing |-> Ascending(lost),
   exponents |-> Ascending(blocks), workers |-> folders, budget |-> budget]
OfSize(S, k) == {s \in SUBSET S : Cardinality(s) = k}

\* Any loss of up to three of five rows, with consecutive blocks and with gaps that
\* make some of the systems singular; deep losses of eight rows; budgets from less
\* than a minimal chunk to more than the slice; and three calls that are refused.
MCRepairs ==
  UNION {{Repair(5, lost, blocks, 2, 0) :
            lost \in OfSize(0..4, k), blocks \in OfSize({0, 1, 2, 5, 6, 10}, k)} : k \in 1..3}
  \cup {Repair(8, lost, blocks, 1, 0) :
          lost \in {{0, 1}, {2, 7}, {3, 4}}, blocks \in {{0, 3}, {0, 5}, {1, 3}, {4, 14}, {6, 7}}}
  \cup {Repair(8, {0, 2, 3, 5, 7}, {7, 8, 9, 10, 11}, 1, 0), Repair(4, {0, 2, 3}, {7, 8, 9}, 1, 0)}
  \cup {Repair(5, {0, 2, 4}, blocks, folders, budget) :
          blocks \in {{1, 2, 3}, {3, 5, 6}}, folders \in 1..3, budget \in {100, 3000, 12000, 20000, 60000}}
  \cup {Repair(5, {0}, {15}, 1, 0), Repair(5, {0, 1}, {3}, 1, 0), Repair(9, {0}, {3}, 1, 0)}

Coding(code, n, k, lost, gone) ==
  [code |-> code, dataShards |-> n, parityShards |-> k, lost |-> lost, gone |-> gone]
MCCodings ==
  {Coding(code, 4, 6, lost, gone) : code \in {"cauchy", "vandermonde"}, lost \in SUBSET (0..3),
                                    gone \in {{}, {0}, {0, 1, 2}, {1, 2, 3, 4}, 0..3, 1..5}}
  \cup {Coding(code, n, 8, {1, 2}, {}) : code \in {"cauchy", "vandermonde"}, n \in {8, 9}}

MCBuilds == {[accelerated |-> FALSE, stride |-> 2], [accelerated |-> TRUE, stride |-> 64]}
MCMasks == {{0}, {3, 5}, {0, 1, 6}}

allPlanVars == <<side, vars, regionVars, planVariables>>
AllInit == side \in {"folds", "program", "plan"} /\ Init /\ Idle /\ Fresh
AllNext ==
  /\ UNCHANGED side
  /\ \/ side = "folds" /\ Next /\ UNCHANGED <<regionVars, planVariables>>
     \/ side = "program" /\ RegionNext /\ UNCHANGED <<vars, planVariables>>
     \/ side = "plan" /\ PlanStep /\ UNCHANGED <<vars, regionVars>>
\* The caller may stop calling; what it called is scheduled.
PlanRunSpec ==
  /\ AllInit /\ [][AllNext]_allPlanVars
  /\ WF_allPlanVars(side = "folds" /\ Step /\ UNCHANGED <<side, regionVars, planVariables>>)
  /\ \A w \in Workers : WF_allPlanVars(side = "folds" /\ Worker(w) /\ UNCHANGED <<side, regionVars, planVariables>>)
===============================================================================
