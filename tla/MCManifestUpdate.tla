-------------------------- MODULE MCManifestUpdate --------------------------
(* "a" turns from a file to a directory or back, with one level or two      *)
(* below it; "e" stays, changes or goes.                                    *)
EXTENDS ManifestUpdate

MCPath == {<<"a">>, <<"a", "b">>, <<"a", "b", "c">>, <<"a", "d">>, <<"e">>}
MCContent == {"old", "new", "mine", "same"}
MCSize == [old |-> 1, new |-> 2, mine |-> 3, same |-> 1]
FileMap(ps, c) == [p \in ps |-> c]
MCCurrents == {FileMap({<<"a">>, <<"e">>}, "old"),
               FileMap({<<"a", "b", "c">>, <<"a", "d">>, <<"e">>}, "old"),
               FileMap({<<"a", "b">>}, "old")}
MCTargets == {FileMap({<<"a", "b">>, <<"a", "d">>}, "new"), FileMap({<<"a">>, <<"e">>}, "new"),
              FileMap({<<"a", "b">>, <<"e">>}, "old"), FileMap({<<"a", "b", "c">>}, "new"),
              FileMap({<<"a">>, <<"a", "b">>}, "new")}
=============================================================================
