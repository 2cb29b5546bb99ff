------------------------------ MODULE MCYostar ------------------------------
(* Release 2 turns the file "a" into a directory, changes "e" and drops     *)
(* "d/f"; release 3 has the version of release 2 with another basis, puts   *)
(* "a" back and restores "e".                                               *)
EXTENDS Yostar

MCPath == {<<"a">>, <<"a", "b">>, <<"d">>, <<"d", "f">>, <<"e">>}
MCContent == {"c1", "c2", "mine"}
MCSize == [c1 |-> 1, c2 |-> 2, mine |-> 1]
MCFile == << [p \in {<<"a">>, <<"d", "f">>, <<"e">>} |-> "c1"],
             [p \in {<<"a", "b">>, <<"e">>} |-> "c2"],
             [p \in {<<"a">>, <<"e">>} |-> "c1"] >>
MCVersion == <<1, 2, 2>>
\* Two releases with the same paths.
PlainFile == << [p \in {<<"d", "f">>, <<"e">>} |-> "c1"], [p \in {<<"d", "f">>, <<"e">>} |-> "c2"] >>
=============================================================================
