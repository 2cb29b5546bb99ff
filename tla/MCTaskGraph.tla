----------------------------- MODULE MCTaskGraph -----------------------------
(***************************************************************************)
(* Small graphs for TLC: the shapes of dynamic subgraph the runtime builds *)
(* (one follow-up, a chain whose head publishes a token, a fan-out, and a  *)
(* node that waits for a token bound elsewhere).                           *)
(***************************************************************************)
EXTENDS TaskGraph

CONSTANTS t1

New(after, tokens, binds) == [after |-> after, tokens |-> tokens, binds |-> binds]

Single    == <<New({}, {}, {})>>
Publisher == <<New({}, {}, {t1}), New({1}, {}, {})>>
FanOut    == <<New({}, {}, {}), New({}, {}, {})>>
Consumer  == <<New({}, {t1}, {})>>

MCToken == {t1}
MCExpansions == {Single, Publisher, FanOut, Consumer}
=============================================================================
