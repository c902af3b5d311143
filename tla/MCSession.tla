------------------------------ MODULE MCSession ------------------------------
(***************************************************************************)
(* Two files that share a content and two volumes, one state of each for    *)
(* every way a scan and a load may end.                                     *)
(***************************************************************************)
EXTENDS Session

MCContent == << <<"a", "b">>, <<"a">> >>
MCDisks == {<< <<"a">>, <<"a">> >>, << <<"b", "a">>, Missing >>, << Locked, <<Junk>> >>}

Block(e) == [kind |-> "recovery", own |-> TRUE, exp |-> e, sound |-> TRUE, parses |-> TRUE, agrees |-> TRUE]
MCSets == {<< <<>>, <<>> >>, << <<Block(2)>>, <<Block(0)>> >>,
           << <<[Block(1) EXCEPT !.sound = FALSE]>>, <<Block(1)>> >>}
==============================================================================
