------------------------- MODULE MCManagedResources -------------------------
(* Two releases of two groups: a path in both groups, one that changes, one  *)
(* that goes, and an old document without a version.                         *)
EXTENDS ManagedResources

MCDoc == <<[initial |-> [a |-> "one"], main |-> [a |-> "one", b |-> "one"]],
           [initial |-> [a |-> "two", c |-> "one"], main |-> [c |-> "one"]]>>
MCUnversioned == {<<1, "main">>}
MCSelections == {{"initial"}, {"initial", "main"}}
=============================================================================
