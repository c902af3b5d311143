-------------------------------- MODULE Session --------------------------------
(***************************************************************************)
(* par2.repair and par2.verify (par2/repair.go 66-107, par2/verify.go       *)
(* 58-98): the data scan runs on a goroutine of its own while the session   *)
(* loads the recovery volumes; then the session waits for the scan and goes *)
(* on to the shard counts or to Decoder.Repair.                             *)
(*                                                                          *)
(* The scan is LoadFileData, the load is LoadParityData, step for step.     *)
(***************************************************************************)
EXTENDS LoadFileData

CONSTANTS Sets, Unindexed, BatchPackets    \* of LoadParityData

VARIABLES
  session,                 \* where the session is
  scanErr, scanner,        \* the channel of one error, and the goroutine that sends it
  result,                  \* what the session came to
  \* LoadParityData
  retain,                  \* a repair, or a verification
  volumes, lost, loadPc, loadTodo, loadWork, failed, present, locations, mains, events,
  heard, outcome

Load == INSTANCE LoadParityData
          WITH bad <- lost, pc <- loadPc, todo <- loadTodo, work <- loadWork

ASSUME ParityAssumption == Load!ParityAssumption

loadVars == <<retain, volumes, lost, loadPc, loadTodo, loadWork, failed, present, locations,
              mains, events, heard, outcome>>
sessionVars == <<session, scanErr, scanner, result>>
allVars == <<vars, loadVars, sessionVars>>

-----------------------------------------------------------------------------
SessionInit ==
  /\ Init /\ Load!Init
  /\ session = "new" /\ scanErr = <<>> /\ scanner = "none" /\ result = [is |-> "none"]

\* newDecoder reads the index file, or the session is over.
NewDecoder ==
  /\ session = "new"
  /\ \/ session' = "loading" /\ scanner' = "scanning" /\ UNCHANGED result
     \/ session' = "returned" /\ result' = [is |-> "no index"] /\ UNCHANGED scanner
  /\ UNCHANGED <<vars, loadVars, scanErr>>

Scan == scanner = "scanning" /\ Next /\ UNCHANGED <<loadVars, sessionVars>>

\* Nothing is sent when the scan has no error.
SendScanErrIfAny ==
  /\ scanner = "scanning" /\ pc = "done" /\ scanErr = <<>>
  /\ scanErr' = (IF failedAt = Nowhere THEN <<>> ELSE <<failedAt>>) /\ scanner' = "exited"
  /\ UNCHANGED <<vars, loadVars, session, result>>
\* The scan is over; its error, or none, is sent, and there is room for it.
SendScanErr ==
  /\ scanner = "scanning" /\ pc = "done" /\ scanErr = <<>>
  /\ scanErr' = <<failedAt>> /\ scanner' = "exited"
  /\ UNCHANGED <<vars, loadVars, session, result>>

LoadVolumes == session = "loading" /\ Load!Next /\ UNCHANGED <<vars, sessionVars>>

\* Decoder.ShardCounts: the slots of parityPresent reach up to the highest exponent.
ShardCounts ==
  LET usable == {s \in Slices : infos[s].foundAt # Nowhere}
      slots  == IF present = {} THEN 0 ELSE Max(present) + 1
  IN  [data |-> Cardinality(usable), lostData |-> Cardinality(Slices \ usable),
       parity |-> Cardinality(present), lostParity |-> slots - Cardinality(present)]

\* The volumes' error is looked at first.
AnswerVolumesFirst ==
  IF outcome = "refused" THEN [is |-> "volume error"]
  ELSE IF scanErr # <<Nowhere>> THEN [is |-> "scan error", file |-> Head(scanErr)]
  ELSE [is |-> "counts", counts |-> ShardCounts]
\* The scan's error comes first, then the volumes'; without one, a verification
\* counts and a repair begins with what would be counted.
Answer ==
  IF scanErr # <<Nowhere>> THEN [is |-> "scan error", file |-> Head(scanErr)]
  ELSE IF outcome = "refused" THEN [is |-> "volume error"]
  ELSE [is |-> "counts", counts |-> ShardCounts]

\* The volumes' error is returned before the scan is waited for.
JoinEarly ==
  /\ session = "loading" /\ loadPc = "done" /\ (outcome = "refused" \/ scanErr # <<>>)
  /\ scanErr' = <<>> /\ result' = IF outcome = "refused" THEN [is |-> "volume error"] ELSE Answer
  /\ session' = IF result'.is = "counts" /\ retain THEN "repairing" ELSE "returned"
  /\ UNCHANGED <<vars, loadVars, scanner>>
\* The session has both outcomes.
Join ==
  /\ session = "loading" /\ loadPc = "done" /\ scanErr # <<>>
  /\ scanErr' = <<>> /\ result' = Answer
  /\ session' = IF result'.is = "counts" /\ retain THEN "repairing" ELSE "returned"
  /\ UNCHANGED <<vars, loadVars, scanner>>

SessionNext == NewDecoder \/ Scan \/ SendScanErr \/ LoadVolumes \/ Join

\* The scan's goroutine, the session's and the workers of either are scheduled.
SessionSpec == SessionInit /\ [][SessionNext]_allVars
                 /\ WF_allVars(Scan \/ SendScanErr) /\ WF_allVars(NewDecoder \/ LoadVolumes \/ Join)

-----------------------------------------------------------------------------
\* Whatever the schedule, a load of the volumes that succeeds has found every block,
\* once, in the first volume that holds it ("regardless of which worker got there
\* first", decoder.go:998-1000), and lets the delegate hear every packet in (volume,
\* packet) order (920-922).
LoadedIsSequential == Load!LoadedIsSequential

\* It fails exactly for the volumes that cannot be read, hold what must not be taken
\* or are of another version of the set (decoder.go:1129-1147).
FaultsAreRefused == Load!FaultsAreRefused

-----------------------------------------------------------------------------
Unscannable == {f \in Files : disk[f] = Locked \/ \E b \in bad : b[1] = f}
Unloadable  == {v \in Load!Vols : \/ volumes[v] = Unindexed \/ \E b \in lost : b[1] = v
                                  \/ \E q \in Load!Packets : q[1] = v /\ Load!Faulty(volumes[v][q[2]])}
Blocks == {e \in Load!Exponents : Load!Blocks(e) # {}}
Gaps == {g \in 0..Max(Blocks \cup {0}) : g \notin Blocks /\ \E e \in Blocks : g < e}

\* What a session comes to depends on the files and the volumes alone, on no
\* schedule of the scan, the load and their workers: the error of the first file
\* that cannot be scanned, or else that of the volumes, or else the counts one
\* goroutine would come to.
SessionIsSequential ==
  result.is \notin {"none", "no index"} /\ Load!Coherent =>
    result = IF Unscannable # {} THEN [is |-> "scan error", file |-> Min(Unscannable)]
             ELSE IF Unloadable # {} THEN [is |-> "volume error"]
             ELSE LET usable == {s \in Slices : ScannedLocations(s) # {}}
                  IN [is |-> "counts",
                      counts |-> [data |-> Cardinality(usable), lostData |-> Cardinality(Slices \ usable),
                                  parity |-> Cardinality(Blocks), lostParity |-> Cardinality(Gaps)]]

\* When a session returns or begins to repair, no goroutine it started is left, not
\* even after an error: nothing changes what the repair reads any more.
NobodyIsLeft ==
  session \in {"repairing", "returned"} /\ result.is # "no index" =>
    /\ scanner = "exited"
    /\ \A w \in Workers : work[w].at = "exited" /\ loadWork[w].at = "exited"

\* A repair begins with a scan in which slices of the same content agree where they
\* were found, and are in place where the disk holds them: Repair's LoadFileData
\* assumes no less, and allows every such scan.
RepairStartsFromScan ==
  session = "repairing" =>
    /\ \A s, t \in Slices : Content[s[1]][s[2]] = Content[t[1]][t[2]] => infos[s].foundAt = infos[t].foundAt
    /\ \A s \in Slices : /\ ShardOK(s) <=> s \in ScannedLocations(s)
                         /\ infos[s].foundAt # Nowhere => infos[s].foundAt \in ScannedLocations(s)
    /\ \A e \in Blocks : /\ e \in present
                         /\ <<locations[e].vol, locations[e].pkt>> \in Load!Blocks(e)
                         /\ volumes[locations[e].vol][locations[e].pkt].sound

\* A session returns, or begins to repair.
SessionReturns == <>(session \in {"repairing", "returned"})
===============================================================================
