---------------------------- MODULE MCPatchApply ----------------------------
(* Three entries. "a" is patched from "d", which the patch deletes, or from *)
(* itself; "b" is a new file made from "d" or from "c"; "c" has a complete  *)
(* payload that replaces the base of "b". "e" is deleted, never a base.     *)
EXTENDS PatchApply

MCFile == {"a", "b", "c", "d", "e"}
MCEntry == <<"a", "b", "c">>
MCDiffs == [a |-> <<"d", "a">>, b |-> <<"d", "c">>]
MCOldSize == [a |-> 2, b |-> 0, c |-> 3, d |-> 2, e |-> 1]
MCNewSize == [a |-> 3, b |-> 2, c |-> 1, d |-> 0, e |-> 0]
MCPayloadSize == [a |-> 1, b |-> 1, c |-> 1, d |-> 0, e |-> 0]
=============================================================================
