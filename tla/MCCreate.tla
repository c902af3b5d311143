------------------------------- MODULE MCCreate -------------------------------
(***************************************************************************)
(* Two files of up to two slices, one pair of contents that only differs in *)
(* the second; the order of the IDs is not that of the paths.               *)
(***************************************************************************)
EXTENDS Create

MCContents == {<<>>, <<"a">>, <<"a", "b">>, <<"a", "c">>}
MCBefore(x, y) == x[3] < y[3] \/ (x[3] = y[3] /\ x[1] > y[1])
===============================================================================
