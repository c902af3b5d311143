-------------------------------- MODULE MCFold --------------------------------
(***************************************************************************)
(* The folds of rsec16/fold.go in one model: the SIMD back end, under both  *)
(* its contracts, and the pure Go back end.  A behaviour is one call of one *)
(* of them; the variables of the other back end stay as they are.           *)
(***************************************************************************)
EXTENDS FoldInputsGF16

CONSTANTS PureInputs, PureRows, PureGoroutines, PureRefuse

VARIABLES fold, pureMain, j, cur, bufs, reading, ask, sent, rest, rows, pureOutcome, pureRefused
pureVars == <<pureMain, j, cur, bufs, reading, ask, sent, rest, rows, pureOutcome, pureRefused>>

PureGo == INSTANCE FoldInputsPureGo
            WITH NumInputs <- PureInputs, NumRows <- PureRows, NumGoroutines <- PureGoroutines,
                 MayRefuse <- PureRefuse, main <- pureMain, ready <- sent, todo <- rest,
                 out <- rows, outcome <- pureOutcome, refused <- pureRefused
ASSUME PureAssumption == PureGo!FoldAssumption

foldVars == <<fold, vars, pureVars>>
FoldInit == fold \in {"SIMD", "pure Go"} /\ Init /\ PureGo!Init
FoldNext ==
  /\ UNCHANGED fold
  /\ \/ fold = "SIMD" /\ Next /\ UNCHANGED pureVars
     \/ fold = "pure Go" /\ PureGo!Next /\ UNCHANGED vars
FoldSpec == FoldInit /\ [][FoldNext]_foldVars /\ WF_foldVars(FoldNext)

\* Without SIMD, the buffer that is being folded is never read into, and no goroutine is
\* left when the call returns, early or not (fold.go:314-341).
PureGoroutinesBehave == PureGo!BufferIsQuiet /\ PureGo!NoneLeft

\* The pure Go fold implements what FoldInputs promises (fold.go:16-33).
PureKeepsPromise == PureGo!KeepsPromise

\* Every call returns, under either contract and with either back end.
CallReturns == IF fold = "pure Go" THEN PureGo!Returns ELSE Returns
===============================================================================
