-------------------------------- MODULE MCLoads --------------------------------
(***************************************************************************)
(* The worker pools that read a decoder's files, each of two workers: a     *)
(* behaviour is a scan of the data files, a load of the volumes or a check  *)
(* of what a repair has written, and the variables of the others stay as    *)
(* they are.  Two files that share a content, on disks                      *)
(* that hold up to three slices of each: damaged, truncated, extended,      *)
(* swapped, missing or unopenable; or three volumes of up to three packets: *)
(* blocks held twice, in one volume and in two, foreign packets, main       *)
(* packets, and packets that fail; or a written file of five slices, one of *)
(* three and an empty one, checked in windows or slice by slice.            *)
(***************************************************************************)
EXTENDS Session

CONSTANTS Whole, Early, Late, HeadSlices, MaxUnread, CheckSlices, CheckDisks, CheckRows \* of CheckWritten

VARIABLE load
VARIABLES paths, rows, misdescribed, written, unread, checkPc, checkTodo, checkWork, checkErrs
checkVars == <<paths, rows, misdescribed, written, unread, checkPc, checkTodo, checkWork, checkErrs>>

Check == INSTANCE CheckWritten
           WITH Slices <- CheckSlices, Disks <- CheckDisks, RowSets <- CheckRows, disk <- written,
                pc <- checkPc, todo <- checkTodo, work <- checkWork, errs <- checkErrs
ASSUME WrittenAssumption == Check!CheckAssumption

MCContent == << <<"a", "b">>, <<"a">> >>
MCFirst == {Missing, Locked, <<>>, <<"a", "b">>, <<"a">>, <<"b", "a", Junk>>, <<Junk, "b">>}
MCSecond == {Missing, Locked, <<>>, <<"a">>, <<"a", "b">>, <<Junk, "a", "a">>}
MCDisks == {<<f, g>> : f \in MCFirst, g \in MCSecond}

MCCheckSlices == <<5, 3, 0>>
MCCheckDisks == {<<x, y, <<>>>> : x \in {Locked, <<Whole, Whole, Whole, Whole, Whole>>,
                                        <<Whole, Early, Whole, Whole, Late>>},
                                  y \in {<<Whole, Whole, Whole>>, <<Late, Whole>>, <<Whole, Late, Whole>>}}
MCCheckRows == {<<r, q, {}>> : r \in {{}, {2, 5}, {1}, {2, 3, 4}}, q \in {{}, {3}}}

Block(e) == [kind |-> "recovery", own |-> TRUE, exp |-> e, sound |-> TRUE, parses |-> TRUE, agrees |-> TRUE]
Main == [Block(0) EXCEPT !.kind = "main"]
Stranger == [Block(3) EXCEPT !.own = FALSE, !.parses = FALSE]
MCVolume1 == {Unindexed, <<Block(0), Main, Block(1)>>, <<Stranger, Block(1), Block(1)>>,
              <<Block(0), [Block(1) EXCEPT !.sound = FALSE], Block(2)>>, <<[Main EXCEPT !.agrees = FALSE], Block(0)>>}
MCVolume2 == {<<>>, <<Block(1), Block(0)>>, <<[Block(2) EXCEPT !.parses = FALSE], Block(0), Stranger>>}
MCVolume3 == {<<Block(0)>>, <<Block(1), [Stranger EXCEPT !.sound = FALSE]>>}
MCSets == {<<u, v, x>> : u \in MCVolume1, v \in MCVolume2, x \in MCVolume3}

IdleSession == session = "new" /\ scanErr = <<>> /\ scanner = "none" /\ result = [is |-> "none"]
IdleScan == disk = <<Missing, Missing>> /\ misaligned = TRUE /\ bad = {} /\ Init
IdleLoad == volumes = <<Unindexed, <<>>, <<Block(0)>>>> /\ retain = TRUE /\ lost = {} /\ Load!Init
IdleCheck == /\ paths = {} /\ misdescribed = {} /\ unread = {}
             /\ written = <<Locked, <<Whole, Whole, Whole>>, <<>>>> /\ Check!Init
LoadsInit ==
  /\ IdleSession
  /\ \/ load = "files" /\ Init /\ IdleLoad /\ IdleCheck
     \/ load = "volumes" /\ IdleScan /\ Load!Init /\ IdleCheck
     \/ load = "written" /\ IdleScan /\ IdleLoad /\ Check!Init
LoadsNext ==
  /\ UNCHANGED <<load, sessionVars>>
  /\ \/ load = "files" /\ Next /\ UNCHANGED <<loadVars, checkVars>>
     \/ load = "volumes" /\ Load!Next /\ UNCHANGED <<vars, checkVars>>
     \/ load = "written" /\ Check!Next /\ UNCHANGED <<vars, loadVars>>
loadsVars == <<load, allVars, checkVars>>
LoadsSpec == LoadsInit /\ [][LoadsNext]_loadsVars /\ WF_loadsVars(LoadsNext)

\* Whatever the schedule, a written file passes its check exactly when nothing Repair
\* relies on is wrong with it, and fails with an error that is true of it
\* (windowscan.go:120-127).
ChecksDecide == Check!ChecksDecide

\* Each of the three returns: no worker is left waiting, and none leaves the sender waiting.
LoadsReturn == <>(CASE load = "files" -> pc = "done"
                    [] load = "volumes" -> loadPc = "done"
                    [] load = "written" -> checkPc = "done")
===============================================================================
