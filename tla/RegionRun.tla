------------------------------- MODULE RegionRun -------------------------------
(***************************************************************************)
(* runRegionProgram (rsec16/additive_regions.go 194-227): the passes of a   *)
(* program over a set of rows, each pass by as many goroutines as there     *)
(* are contexts, goroutine w taking tasks w, w + workers and so on, with a  *)
(* barrier after the pass.  A goroutine applies its operations one at a     *)
(* time; those of different goroutines come in any order.  A context of     *)
(* another layout refuses every task (gf16/operations.go 60-82).  Which     *)
(* programs run over which rows is a parameter here: RegionTransforms has   *)
(* those of the code.                                                       *)
(***************************************************************************)
EXTENDS RegionOperations, FiniteSetsExt

CONSTANTS
  RegionRows,    \* rows of the buffer set
  MaxContexts,   \* contexts a run may be given
  Jobs,          \* what may be run,
  Programs,      \* the program of each job,
  Vectors        \* and what the rows may hold before it

RowIds == 0..(RegionRows - 1)
Goroutines == 1..MaxContexts

\* Tasks are batches that Apply accepts (gf16/operations.go 67-74).
Accepted(op) ==
  /\ op.kind \in OpKinds /\ op.dst \in RowIds
  /\ op.kind # "clear" => op.src \in RowIds
  /\ op.kind \in ButterflyKinds => op.dst # op.src
ASSUME RegionAssumption ==
  /\ RegionRows \in Nat \ {0} /\ MaxContexts \in Nat \ {0} /\ Jobs # {}
  /\ \A j \in Jobs :
       /\ Programs[j] = [p \in 1..Len(Programs[j]) |-> Programs[j][p]] /\ Len(Programs[j]) \in Nat
       /\ \A v \in Vectors[j] : v = [r \in RowIds |-> v[r]]
       /\ \A p \in DOMAIN Programs[j] :
            /\ Len(Programs[j][p]) \in Nat /\ DOMAIN Programs[j][p] = 1..Len(Programs[j][p])
            /\ \A t \in DOMAIN Programs[j][p] : LET ops == Programs[j][p][t] IN
                 /\ Len(ops) \in Nat \ {0} /\ DOMAIN ops = 1..Len(ops)
                 /\ \A k \in DOMAIN ops : Accepted(ops[k])

VARIABLES
  job, program, given, region, \* the job, its program, its input, the rows
  contexts, foreign,           \* the contexts, and those of another layout
  pass, taskOf, doneOf, stray, \* the pass; each goroutine's task, operations done of it; those with an error
  verdict                      \* what runRegionProgram returned

regionVars == <<job, program, given, region, contexts, foreign, pass, taskOf, doneOf, stray, verdict>>

Zeros == [r \in RowIds |-> 0]
FirstTasks == [g \in Goroutines |-> g]
Idle ==
  /\ job = (CHOOSE j \in Jobs : TRUE) /\ program = <<>> /\ given = Zeros /\ region = Zeros
  /\ contexts = 1 /\ foreign = {}
  /\ pass = 1 /\ taskOf = FirstTasks /\ doneOf = [g \in Goroutines |-> 0] /\ stray = {}
  /\ verdict = "idle"

\* The tasks of the pass, and how many goroutines share them.
TasksNow == program[pass]
Sharing == Min({contexts, Len(TasksNow)})
Working(g) == verdict = "running" /\ g <= Sharing /\ g \notin stray /\ taskOf[g] <= Len(TasksNow)

\* A program without passes leaves the rows as they are.
Start(j, v, n, wrong) ==
  /\ verdict = "idle" /\ wrong \subseteq 1..n
  /\ job' = j /\ program' = Programs[j] /\ given' = v /\ region' = v
  /\ contexts' = n /\ foreign' = wrong
  /\ verdict' = IF Len(program') = 0 THEN "ok" ELSE "running"
  /\ UNCHANGED <<pass, taskOf, doneOf, stray>>

\* Apply checks the context before the first operation of a task.
RefuseTask(g) ==
  /\ Working(g) /\ g \in foreign /\ doneOf[g] = 0
  /\ stray' = stray \cup {g}
  /\ UNCHANGED <<job, program, given, region, contexts, foreign, pass, taskOf, doneOf, verdict>>

NextTaskByOne(g) == taskOf' = [taskOf EXCEPT ![g] = @ + 1]
\* Once a task is done the goroutine goes on to the one that is workers further on.
NextTask(g) == taskOf' = [taskOf EXCEPT ![g] = @ + Sharing]
Operate(g) ==
  /\ Working(g) /\ g \notin foreign
  /\ LET ops == TasksNow[taskOf[g]] IN
     /\ region' = Applied(region, ops[doneOf[g] + 1])
     /\ IF doneOf[g] + 1 = Len(ops)
        THEN doneOf' = [doneOf EXCEPT ![g] = 0] /\ NextTask(g)
        ELSE doneOf' = [doneOf EXCEPT ![g] = @ + 1] /\ UNCHANGED taskOf
  /\ UNCHANGED <<job, program, given, contexts, foreign, pass, stray, verdict>>

\* wg.Wait: an error ends the run, the last pass too.
Barrier ==
  /\ verdict = "running" /\ \A g \in Goroutines : ~Working(g)
  /\ verdict' = IF stray # {} THEN "error" ELSE IF pass = Len(program) THEN "ok" ELSE "running"
  /\ pass' = IF verdict' = "running" THEN pass + 1 ELSE pass
  /\ taskOf' = FirstTasks
  /\ UNCHANGED <<job, program, given, region, contexts, foreign, doneOf, stray>>

RegionNext ==
  \/ \E j \in Jobs, n \in Goroutines : \E v \in Vectors[j] :
       \E wrong \in {{}} \cup {{g} : g \in Goroutines} : Start(j, v, n, wrong)
  \/ \E g \in Goroutines : RefuseTask(g) \/ Operate(g)
  \/ Barrier

RegionSpec == Idle /\ [][RegionNext]_regionVars

-----------------------------------------------------------------------------
\* "Concurrent Apply calls require distinct contexts and disjoint destinations/sources"
\* (gf16/operations.go:30-31): no row that a goroutine's task writes is touched by
\* the task another one is at.
TasksApart ==
  \A g, h \in Goroutines :
    (g # h /\ Working(g) /\ Working(h)) =>
      Written(TasksNow[taskOf[g]]) \cap Touched(TasksNow[taskOf[h]]) = {}

\* However the goroutines' operations interleave, they keep apart, and a run without an
\* error leaves in the rows what the passes, tasks and operations of the program leave
\* in them one after the other: none is left out, done twice or done in another pass
\* ("Operations inside a task remain ordered; a barrier separates passes",
\* additive_regions.go:11-13).
RunsInOrder ==
  /\ TasksApart
  /\ verdict = "ok" => region = ProgramSteps(given, program)[Len(program)]
===============================================================================
