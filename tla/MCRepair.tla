------------------------------ MODULE MCRepair ------------------------------
(* Small recovery sets for TLC: two files a and b (par2/decoder_test.go uses   *)
(* the same shapes: damaged, missing, truncated, extended, swapped files).     *)
EXTENDS Repair

MCContent == {"a1", "a2", "b1", "b2"}
MCJunk == "junk"
MCNil  == "nil"

\* Two slices per file, all different.
Orig22 == [s \in (1..2) \X (1..2) |->
             CASE s = <<1, 1>> -> "a1" [] s = <<1, 2>> -> "a2"
               [] s = <<2, 1>> -> "b1" [] s = <<2, 2>> -> "b2"]
\* File 1: whole, slice 2 damaged, slices swapped, truncated, extended,
\* holding b's slices, or missing.
Images1 == {<<"a1", "a2", "nil">>, <<"a1", "junk", "nil">>, <<"a2", "a1", "nil">>,
            <<"a1", "nil", "nil">>, <<"a1", "a2", "junk">>, <<"b1", "b2", "nil">>, NoFile}
\* File 2: whole, damaged, shifted by one slice, holding a's slices, holding a
\* stray copy of one of a's slices, or missing.
Images2 == {<<"b1", "b2", "nil">>, <<"junk", "b2", "nil">>, <<"junk", "b1", "b2">>,
            <<"a1", "a2", "nil">>, <<"b1", "a2", "nil">>, NoFile}
AllDisks == {<<x, y>> : x \in Images1, y \in Images2}

\* Three slices per file, so that a clone with one slice rebuilt is checked in
\* part; b's last slice repeats a's first.
Content23 == {"a1", "a2", "a3", "b1", "b2"}
Orig23Dup == [s \in (1..2) \X (1..3) |->
                CASE s = <<1, 1>> -> "a1" [] s = <<1, 2>> -> "a2" [] s = <<1, 3>> -> "a3"
                  [] s = <<2, 1>> -> "b1" [] s = <<2, 2>> -> "b2" [] s = <<2, 3>> -> "a1"]
Disks23 == {<<x, y>> :
              x \in {<<"a1", "junk", "a3", "nil">>, <<"junk", "a2", "a3", "nil">>,
                     <<"a1", "a3", "a2", "nil">>, <<"junk", "a2", "a1", "nil">>,
                     <<"a1", "a2", "a3", "junk">>, NoFile},
              y \in {<<"b1", "b2", "a1", "nil">>, <<"b1", "junk", "a1", "nil">>}}
=============================================================================
